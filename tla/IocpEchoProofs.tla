---------------------------- MODULE IocpEchoProofs ----------------------------
(***************************************************************************)
(* Safety of IocpEcho for any number of clients, workers, bytes and any    *)
(* buffer size.                                                            *)
(***************************************************************************)
EXTENDS IocpEcho, SequenceTheorems, TLAPS

\* A worker that is not idle has a job, and the block it holds is in the
\* state and mode that its place in EchoThreadMain calls for.
Holding(w) == pc[w] \notin {"idle", "recv"}

WorkerHolds ==
    \A w \in Workers : pc[w] # "idle" =>
       /\ job[w] \in Clients \X Nat
       /\ Blk(w) \in DOMAIN io[Conn(w)]
       /\ Holding(w) => Held(w).at = "held"
       /\ pc[w] \in {"send", "close", "free"} => Held(w).mode = "READ"
       /\ pc[w] = "freeio" => Held(w).mode = "WRITE"

\* No two workers hold the same block.
HoldersDistinct ==
    \A v, w \in Workers : Holding(v) /\ Holding(w) /\ job[v] = job[w] => v = w

\* The pending sends are distinct WRITE blocks that the kernel has.
SendsQueued ==
    \A c \in Clients :
       /\ \A i \in DOMAIN sendq[c] : /\ sendq[c][i] \in DOMAIN io[c]
                                     /\ io[c][sendq[c][i]].at = "send"
       /\ \A i, j \in DOMAIN sendq[c] : sendq[c][i] = sendq[c][j] => i = j
       /\ \A n \in DOMAIN io[c] : io[c][n].at = "send" => io[c][n].mode = "WRITE"

\* The receive of a connection keeps its socket and PER_HANDLE_DATA alive,
\* until the worker that saw its end has closed the one and freed the other.
ReceiveAlive ==
    \A c \in Clients :
       /\ \A n \in DOMAIN io[c] : InFlight(c, n) =>
             /\ handle[c] = "live"
             /\ sock[c] = "open" \/ \E w \in Workers : pc[w] = "free" /\ job[w] = <<c, n>>
       /\ \A w \in Workers : Reposting(w, c) => handle[c] = "live" /\ sock[c] = "open"
       /\ \A w \in Workers : pc[w] \in {"send", "close"} /\ Conn(w) = c => sock[c] = "open"

\* Nothing is allocated for a client before it is accepted.
NothingBeforeAccept == \A c \in Clients : handle[c] = "none" => io[c] = <<>>

IInv ==
    /\ TypeOK
    /\ WorkerHolds
    /\ HoldersDistinct
    /\ SendsQueued
    /\ OneReceive
    /\ ReceiveAlive
    /\ NothingBeforeAccept

-----------------------------------------------------------------------------
(* What the three kinds of change to io do to it. *)

\* Replacing block n of client c leaves every other block alone.
LEMMA UpdateBlock ==
    ASSUME NEW f \in [Clients -> Seq(Block)], NEW c \in Clients,
           NEW n \in DOMAIN f[c], NEW b \in Block,
           NEW g, g = [f EXCEPT ![c] = [f[c] EXCEPT ![n] = b]]
    PROVE  /\ g \in [Clients -> Seq(Block)]
           /\ \A d \in Clients : DOMAIN g[d] = DOMAIN f[d]
           /\ g[c][n] = b
           /\ \A d \in Clients : \A m \in DOMAIN f[d] :
                 d # c \/ m # n => g[d][m] = f[d][m]
<1>1. f[c] \in Seq(Block)
  OBVIOUS
<1>2. /\ [f[c] EXCEPT ![n] = b] \in Seq(Block)
      /\ DOMAIN [f[c] EXCEPT ![n] = b] = DOMAIN f[c]
  BY <1>1, ExceptSeq
<1> QED
  BY <1>1, <1>2

\* Appending a block for client c leaves every existing block alone.
LEMMA AppendBlock ==
    ASSUME NEW f \in [Clients -> Seq(Block)], NEW c \in Clients, NEW b \in Block,
           NEW g, g = [f EXCEPT ![c] = Append(f[c], b)]
    PROVE  /\ g \in [Clients -> Seq(Block)]
           /\ \A d \in Clients : d # c => g[d] = f[d]
           /\ DOMAIN g[c] = DOMAIN f[c] \cup {Len(f[c]) + 1}
           /\ Len(f[c]) + 1 \notin DOMAIN f[c]
           /\ g[c][Len(f[c]) + 1] = b
           /\ \A d \in Clients : \A m \in DOMAIN f[d] :
                 m \in DOMAIN g[d] /\ g[d][m] = f[d][m]
<1>1. f[c] \in Seq(Block)
  OBVIOUS
<1>2. /\ Append(f[c], b) \in Seq(Block)
      /\ Len(Append(f[c], b)) = Len(f[c]) + 1
      /\ \A i \in 1 .. Len(f[c]) : Append(f[c], b)[i] = f[c][i]
      /\ Append(f[c], b)[Len(f[c]) + 1] = b
  BY <1>1
<1>3. DOMAIN f[c] = 1 .. Len(f[c]) /\ Len(f[c]) \in Nat
  BY <1>1
<1> QED
  BY <1>1, <1>2, <1>3

-----------------------------------------------------------------------------
LEMMA InitIInv == Init => IInv
BY DEF Init, IInv, TypeOK, WorkerHolds, HoldersDistinct, SendsQueued, OneReceive,
       ReceiveAlive, NothingBeforeAccept, Holding, Reposting, InFlight, PCs

\* A step of a client changes only what the client has done.
LEMMA ClientStep ==
    ASSUME IInv, NEW c \in Clients, Client(c)
    PROVE  IInv'
<1> USE DEF IInv
<1>1. sent' \in [Clients -> Nat] /\ peer' \in [Clients -> {"idle", "up", "fin", "rst"}]
  <2>1. CASE Connect(c)  BY <2>1 DEF TypeOK, Connect
  <2>2. CASE Write(c)    BY <2>2 DEF TypeOK, Write
  <2>3. CASE Fin(c)      BY <2>3 DEF TypeOK, Fin
  <2>4. CASE Reset(c)    BY <2>4 DEF TypeOK, Reset
  <2> QED                BY <2>1, <2>2, <2>3, <2>4 DEF Client
<1>2. UNCHANGED <<connVars, dataVars, io, workerVars>>
  BY DEF Client, Connect, Write, Fin, Reset
<1>3. TypeOK'
  BY <1>1, <1>2 DEF TypeOK, connVars, dataVars, workerVars
<1> QED
  BY <1>2, <1>3 DEF connVars, dataVars, workerVars, WorkerHolds, HoldersDistinct,
     SendsQueued, OneReceive, ReceiveAlive, NothingBeforeAccept, Holding, Reposting,
     InFlight, Held, Conn, Blk

\* Posting the first receive of an accepted client.
LEMMA AcceptStep ==
    ASSUME IInv, NEW c \in Clients, Accept(c)
    PROVE  IInv'
<1> USE DEF IInv
<1>0. /\ io \in [Clients -> Seq(Block)] /\ io[c] = <<>> /\ UNCHANGED <<dataVars, workerVars>>
      /\ handle' = [handle EXCEPT ![c] = "live"]
  BY DEF Accept, TypeOK, NothingBeforeAccept
<1>1. PICK p \in {"recv", "lost"}, s \in {"bad", "open"} :
         /\ io' = [io EXCEPT ![c] = Append(io[c], NewRecv(p))]
         /\ sock' = [sock EXCEPT ![c] = s]
         /\ p = "recv" => s = "open"
  BY DEF Accept
<1>2. NewRecv(p) \in Block /\ NewRecv(p).at = p /\ NewRecv(p).mode = "READ"
  BY DEF NewRecv, Block, Places
<1> DEFINE b == NewRecv(p)
<1>3. /\ io' \in [Clients -> Seq(Block)]
      /\ \A d \in Clients : d # c => io'[d] = io[d]
      /\ DOMAIN io'[c] = {1} /\ io'[c][1] = b
  <2> HIDE DEF b
  <2>1. DOMAIN io[c] = {} /\ Len(io[c]) = 0
    BY <1>0
  <2> QED BY <1>0, <1>1, <1>2, <2>1, AppendBlock DEF b
<1>4. \A w \in Workers : pc[w] # "idle" => Conn(w) \in Clients /\ Conn(w) # c
  BY <1>0 DEF WorkerHolds, Conn
<1>5. TypeOK'
  BY <1>1, <1>3 DEF TypeOK, Accept, clientVars, dataVars, workerVars
<1>6. WorkerHolds'
  BY <1>0, <1>3, <1>4 DEF WorkerHolds, Holding, Held, Conn, Blk, workerVars
<1>7. HoldersDistinct' /\ NothingBeforeAccept'
  BY <1>0, <1>3 DEF HoldersDistinct, NothingBeforeAccept, Holding, workerVars, TypeOK
<1>8. SendsQueued'
  BY <1>0, <1>1, <1>2, <1>3 DEF SendsQueued, dataVars
<1>9. OneReceive'
  BY <1>0, <1>2, <1>3, <1>4 DEF OneReceive, InFlight, Reposting, Conn, workerVars
<1>10. ReceiveAlive'
  <2>0. pc' = pc /\ job' = job
    BY <1>0 DEF workerVars
  <2>1. \A d \in Clients : /\ d # c => handle'[d] = handle[d] /\ sock'[d] = sock[d]
                           /\ handle'[c] = "live" /\ sock'[c] = s
    BY <1>0, <1>1 DEF TypeOK
  <2>2. ASSUME NEW d \in Clients, NEW n \in DOMAIN io'[d], InFlight(d, n)'
        PROVE  /\ handle'[d] = "live"
               /\ sock'[d] = "open" \/ \E w \in Workers : pc'[w] = "free" /\ job'[w] = <<d, n>>
    <3>1. CASE d = c   BY <1>1, <1>2, <1>3, <2>1, <2>2, <3>1 DEF InFlight
    <3>2. CASE d # c
      <4>1. n \in DOMAIN io[d] /\ InFlight(d, n)
        BY <1>3, <2>2, <3>2 DEF InFlight
      <4> QED
        BY <2>0, <2>1, <3>2, <4>1 DEF ReceiveAlive
    <3> QED            BY <3>1, <3>2
  <2>3. ASSUME NEW w \in Workers, pc[w] # "idle"
        PROVE  handle'[Conn(w)] = handle[Conn(w)] /\ sock'[Conn(w)] = sock[Conn(w)]
    BY <1>4, <2>1, <2>3
  <2>4. ASSUME NEW d \in Clients, NEW w \in Workers
        PROVE  /\ Reposting(w, d)' => handle'[d] = "live" /\ sock'[d] = "open"
               /\ pc'[w] \in {"send", "close"} /\ Conn(w)' = d => sock'[d] = "open"
    <3>1. pc'[w] = pc[w] /\ Conn(w)' = Conn(w)
      BY <2>0 DEF Conn
    <3>2. /\ pc[w] = "recv" /\ Conn(w) = d => handle[d] = "live" /\ sock[d] = "open"
          /\ pc[w] \in {"send", "close"} /\ Conn(w) = d => sock[d] = "open"
      BY DEF ReceiveAlive, Reposting
    <3> QED
      BY <2>3, <3>1, <3>2 DEF Reposting
  <2> QED
    BY <2>2, <2>4 DEF ReceiveAlive
<1> QED
  BY <1>5, <1>6, <1>7, <1>8, <1>9, <1>10

-----------------------------------------------------------------------------
\* The kernel moves blocks it has to the completion port: no held block
\* changes, and what is in flight stays in flight.
LEMMA KernelKeeps ==
    ASSUME IInv, UNCHANGED <<connVars, workerVars>>,
           io' \in [Clients -> Seq(Block)],
           \A d \in Clients : DOMAIN io'[d] = DOMAIN io[d],
           \A d \in Clients : \A m \in DOMAIN io[d] :
              /\ io[d][m].at = "held" => io'[d][m] = io[d][m]
              /\ InFlight(d, m)' <=> InFlight(d, m)
    PROVE  WorkerHolds' /\ HoldersDistinct' /\ OneReceive' /\ ReceiveAlive' /\ NothingBeforeAccept'
<1> USE DEF IInv
<1>1. pc' = pc /\ job' = job /\ handle' = handle /\ sock' = sock
  BY DEF connVars, workerVars
<1>2. \A w \in Workers : pc[w] # "idle" =>
         /\ Conn(w) \in Clients /\ Blk(w) \in DOMAIN io[Conn(w)] /\ Blk(w) \in DOMAIN io'[Conn(w)]
         /\ Holding(w) => io'[Conn(w)][Blk(w)] = io[Conn(w)][Blk(w)]
  BY DEF WorkerHolds, Held, Conn, Blk
<1>3. WorkerHolds'
  BY <1>1, <1>2 DEF WorkerHolds, Held, Holding, Conn, Blk
<1>4. HoldersDistinct'
  BY <1>1 DEF HoldersDistinct, Holding
<1>5. OneReceive'
  BY <1>1 DEF OneReceive, Reposting, Conn
<1>6. ReceiveAlive'
  BY <1>1 DEF ReceiveAlive, Reposting, Conn
<1>7. NothingBeforeAccept'
  <2> SUFFICES ASSUME NEW d \in Clients, handle[d] = "none"
               PROVE  io'[d] = <<>>
    BY <1>1 DEF NothingBeforeAccept
  <2>1. io[d] = <<>> /\ io'[d] \in Seq(Block) /\ DOMAIN io'[d] = DOMAIN io[d]
    BY DEF NothingBeforeAccept
  <2> QED
    BY <2>1, EmptySeq
<1> QED
  BY <1>3, <1>4, <1>5, <1>6, <1>7

\* A receive that the kernel completes, with data or without.
LEMMA RecvStep ==
    ASSUME IInv, NEW c \in Clients, RecvData(c) \/ RecvEnd(c)
    PROVE  IInv'
<1> USE DEF IInv
<1>1. PICK n \in DOMAIN io[c], lo \in Nat, hi \in Nat :
         io[c][n].at = "recv" /\ Complete(c, n, lo, hi)
  BY DEF RecvData, RecvEnd, TypeOK
<1>2. UNCHANGED <<connVars, workerVars, clientVars, sendq, out>> /\ read' \in [Clients -> Nat]
  BY DEF RecvData, RecvEnd, TypeOK, dataVars
<1> DEFINE b == [io[c][n] EXCEPT !.at = "done", !.lo = lo, !.hi = hi]
<1>3. io \in [Clients -> Seq(Block)] /\ io[c][n] \in Block
  BY DEF TypeOK
<1>4. b \in Block /\ b.at = "done" /\ b.mode = io[c][n].mode
  BY <1>1, <1>3 DEF Block, Places
<1>5. io' = [io EXCEPT ![c] = [io[c] EXCEPT ![n] = b]]
  BY <1>1, <1>3 DEF Complete
<1>6. /\ io' \in [Clients -> Seq(Block)]
      /\ \A d \in Clients : DOMAIN io'[d] = DOMAIN io[d]
      /\ io'[c][n] = b
      /\ \A d \in Clients : \A m \in DOMAIN io[d] : d # c \/ m # n => io'[d][m] = io[d][m]
  <2> HIDE DEF b
  <2> QED BY <1>3, <1>4, <1>5, UpdateBlock
<1> HIDE DEF b
<1>7. \A d \in Clients : \A m \in DOMAIN io[d] :
         /\ io[d][m].at = "held" => io'[d][m] = io[d][m]
         /\ InFlight(d, m)' <=> InFlight(d, m)
  BY <1>1, <1>4, <1>6 DEF InFlight
<1>8. TypeOK'
  BY <1>2, <1>6 DEF TypeOK, connVars, workerVars, clientVars
<1>9. SendsQueued'
  <2>1. \A d \in Clients : \A m \in DOMAIN io[d] :
           /\ io[d][m].at = "send" => io'[d][m] = io[d][m]
           /\ io'[d][m].at = "send" => io'[d][m] = io[d][m]
    BY <1>1, <1>4, <1>6
  <2>2. sendq' = sendq
    BY <1>2
  <2>3. \A d \in Clients : \A m \in DOMAIN io'[d] :
           io'[d][m].at = "send" => io'[d][m].mode = "WRITE"
    BY <1>6, <2>1 DEF SendsQueued
  <2>4. \A d \in Clients : \A i \in DOMAIN sendq[d] :
           sendq[d][i] \in DOMAIN io'[d] /\ io'[d][sendq[d][i]].at = "send"
    BY <1>6, <2>1 DEF SendsQueued
  <2> QED
    BY <2>2, <2>3, <2>4 DEF SendsQueued
<1> QED
  BY <1>2, <1>6, <1>7, <1>8, <1>9, KernelKeeps

\* The oldest pending send is delivered.
LEMMA SendDoneStep ==
    ASSUME IInv, NEW c \in Clients, SendDone(c)
    PROVE  IInv'
<1> USE DEF IInv
<1> DEFINE n == Head(sendq[c])
           b == [io[c][n] EXCEPT !.at = "done"]
<1>1. /\ io \in [Clients -> Seq(Block)] /\ sendq[c] \in Seq(Nat) /\ sendq[c] # <<>>
      /\ sendq' = [sendq EXCEPT ![c] = Tail(sendq[c])]
      /\ io' = [io EXCEPT ![c] = [io[c] EXCEPT ![n] = b]]
  BY DEF SendDone, TypeOK
<1>2. /\ n = sendq[c][1] /\ 1 \in DOMAIN sendq[c]
      /\ Tail(sendq[c]) \in Seq(Nat)
      /\ \A i \in DOMAIN Tail(sendq[c]) :
            i + 1 \in DOMAIN sendq[c] /\ Tail(sendq[c])[i] = sendq[c][i + 1] /\ i \in Nat
  BY <1>1
<1>3. n \in DOMAIN io[c] /\ io[c][n] \in Block /\ io[c][n].at = "send" /\ io[c][n].mode = "WRITE"
  <2>1. n \in DOMAIN io[c] /\ io[c][n].at = "send" /\ io[c][n].mode = "WRITE"
    BY <1>2 DEF SendsQueued
  <2> QED
    BY <1>1, <2>1
<1>4. b \in Block /\ b.at = "done" /\ b.mode = "WRITE"
  BY <1>3 DEF Block, Places
<1>5. /\ io' \in [Clients -> Seq(Block)]
      /\ \A d \in Clients : DOMAIN io'[d] = DOMAIN io[d]
      /\ io'[c][n] = b
      /\ \A d \in Clients : \A m \in DOMAIN io[d] : d # c \/ m # n => io'[d][m] = io[d][m]
  <2> HIDE DEF b, n
  <2> QED BY <1>1, <1>3, <1>4, UpdateBlock
<1> HIDE DEF b, n
<1>6. UNCHANGED <<clientVars, connVars, read, workerVars>>
  BY DEF SendDone
<1>7. \A d \in Clients : \A m \in DOMAIN io[d] :
         /\ io[d][m].at = "held" => io'[d][m] = io[d][m]
         /\ InFlight(d, m)' <=> InFlight(d, m)
  BY <1>3, <1>4, <1>5 DEF InFlight
<1>8. out' \in [Clients -> Seq(Nat)]
  <2>1. PICK lo \in Nat, hi \in Nat : out' = [out EXCEPT ![c] = out[c] \o Bytes(lo, hi)]
    BY <1>3 DEF SendDone, Block, n
  <2>2. Bytes(lo, hi) \in Seq(Nat)
    BY DEF Bytes
  <2> QED
    BY <2>1, <2>2 DEF TypeOK
<1>9. TypeOK'
  BY <1>1, <1>2, <1>5, <1>6, <1>8 DEF TypeOK, connVars, workerVars, clientVars
<1>10. SendsQueued'
  <2>1. ASSUME NEW d \in Clients, NEW i \in DOMAIN sendq'[d]
        PROVE  /\ sendq'[d][i] \in DOMAIN io'[d]
               /\ io'[d][sendq'[d][i]].at = "send"
    <3>1. CASE d # c
      BY <1>1, <1>5, <2>1, <3>1 DEF SendsQueued, TypeOK
    <3>2. CASE d = c
      <4>1. i + 1 \in DOMAIN sendq[c] /\ sendq'[c][i] = sendq[c][i + 1] /\ i + 1 # 1
        BY <1>1, <1>2, <2>1, <3>2 DEF TypeOK
      <4>2. sendq[c][i + 1] # n /\ sendq[c][i + 1] \in DOMAIN io[c]
            /\ io[c][sendq[c][i + 1]].at = "send"
        BY <1>2, <4>1 DEF SendsQueued
      <4> QED
        BY <1>5, <3>2, <4>1, <4>2
    <3> QED
      BY <3>1, <3>2
  <2>2. ASSUME NEW d \in Clients, NEW i \in DOMAIN sendq'[d], NEW j \in DOMAIN sendq'[d],
               sendq'[d][i] = sendq'[d][j]
        PROVE  i = j
    <3>1. CASE d # c
      BY <1>1, <2>2, <3>1 DEF SendsQueued, TypeOK
    <3>2. CASE d = c
      <4>1. /\ i + 1 \in DOMAIN sendq[c] /\ sendq'[c][i] = sendq[c][i + 1] /\ i \in Nat
            /\ j + 1 \in DOMAIN sendq[c] /\ sendq'[c][j] = sendq[c][j + 1] /\ j \in Nat
        BY <1>1, <1>2, <2>2, <3>2 DEF TypeOK
      <4>2. i + 1 = j + 1
        BY <2>2, <3>2, <4>1 DEF SendsQueued
      <4> QED
        BY <4>1, <4>2
    <3> QED
      BY <3>1, <3>2
  <2>3. \A d \in Clients : \A m \in DOMAIN io'[d] :
           io'[d][m].at = "send" => io'[d][m].mode = "WRITE"
    BY <1>4, <1>5 DEF SendsQueued
  <2> QED
    BY <2>1, <2>2, <2>3 DEF SendsQueued
<1> QED
  BY <1>5, <1>6, <1>7, <1>9, <1>10, KernelKeeps

\* Every pending send of a connection is aborted.
LEMMA SendAbortStep ==
    ASSUME IInv, NEW c \in Clients, SendAbort(c)
    PROVE  IInv'
<1> USE DEF IInv
<1> DEFINE mv(n) == IF io[c][n].at = "send" THEN [io[c][n] EXCEPT !.at = "done"] ELSE io[c][n]
           blks == [n \in DOMAIN io[c] |-> mv(n)]
<1>1. /\ io \in [Clients -> Seq(Block)]
      /\ io' = [io EXCEPT ![c] = blks]
      /\ sendq' = [sendq EXCEPT ![c] = <<>>]
      /\ UNCHANGED <<clientVars, connVars, read, out, workerVars>>
  BY DEF SendAbort, TypeOK
<1>2. io[c] \in Seq(Block) /\ DOMAIN io[c] = 1 .. Len(io[c]) /\ Len(io[c]) \in Nat
  BY <1>1
<1>3. ASSUME NEW n \in DOMAIN io[c]
      PROVE  /\ mv(n) \in Block
             /\ mv(n).at # "send" /\ mv(n).mode = io[c][n].mode
             /\ io[c][n].at # "send" => mv(n) = io[c][n]
             /\ io[c][n].at = "send" => mv(n).at = "done"
  <2>1. io[c][n] \in Block
    BY <1>2
  <2> QED
    BY <2>1 DEF Block, Places
<1>4. blks \in Seq(Block) /\ DOMAIN blks = DOMAIN io[c]
  <2> HIDE DEF mv
  <2> QED BY <1>2, <1>3
<1>5. /\ io' \in [Clients -> Seq(Block)]
      /\ \A d \in Clients : DOMAIN io'[d] = DOMAIN io[d]
      /\ \A d \in Clients : d # c => io'[d] = io[d]
      /\ \A m \in DOMAIN io[c] : io'[c][m] = mv(m)
  <2> HIDE DEF mv
  <2> QED BY <1>1, <1>4
<1> HIDE DEF mv, blks
<1>6. \A d \in Clients : \A m \in DOMAIN io[d] :
         /\ io[d][m].at = "held" => io'[d][m] = io[d][m]
         /\ InFlight(d, m)' <=> InFlight(d, m)
  <2> SUFFICES ASSUME NEW m \in DOMAIN io[c]
               PROVE  /\ io[c][m].at = "held" => io'[c][m] = io[c][m]
                      /\ InFlight(c, m)' <=> InFlight(c, m)
    BY <1>5 DEF InFlight
  <2>1. io[c][m].at = "send" => io[c][m].mode = "WRITE"
    BY DEF SendsQueued
  <2> QED
    BY <1>3, <1>5, <2>1 DEF InFlight
<1>7. TypeOK'
  BY <1>1, <1>5 DEF TypeOK, connVars, workerVars, clientVars
<1>8. SendsQueued'
  <2>1. sendq'[c] = <<>> /\ \A d \in Clients : d # c => sendq'[d] = sendq[d]
    BY <1>1 DEF TypeOK
  <2>2. \A m \in DOMAIN io'[c] : io'[c][m].at # "send"
    BY <1>3, <1>5
  <2> QED
    BY <1>5, <2>1, <2>2 DEF SendsQueued
<1> QED
  BY <1>1, <1>5, <1>6, <1>7, <1>8, KernelKeeps

-----------------------------------------------------------------------------
(* The workers. *)

\* Worker w takes block n of client c out of the port.
LEMMA DequeueStep ==
    ASSUME IInv, NEW w \in Workers, Dequeue(w)
    PROVE  IInv'
<1> USE DEF IInv
<1>1. PICK c \in Clients : \E n \in DOMAIN io[c] :
         /\ io[c][n].at = "done"
         /\ io' = [io EXCEPT ![c][n].at = "held"]
         /\ job' = [job EXCEPT ![w] = <<c, n>>]
  BY DEF Dequeue
<1>1a. PICK n \in DOMAIN io[c] :
         /\ io[c][n].at = "done"
         /\ io' = [io EXCEPT ![c][n].at = "held"]
         /\ job' = [job EXCEPT ![w] = <<c, n>>]
  BY <1>1
<1>2. /\ pc[w] = "idle" /\ pc' = [pc EXCEPT ![w] = "deref"]
      /\ UNCHANGED <<clientVars, connVars, dataVars>>
      /\ io \in [Clients -> Seq(Block)] /\ io[c] \in Seq(Block) /\ n \in Nat
      /\ pc \in [Workers -> PCs] /\ job \in [Workers -> {NoJob} \cup (Clients \X Nat)]
  BY DEF Dequeue, TypeOK
<1> DEFINE b == [io[c][n] EXCEPT !.at = "held"]
<1>3. b \in Block /\ b.at = "held" /\ b.mode = io[c][n].mode
  <2>1. io[c][n] \in Block
    BY <1>2
  <2> QED
    BY <2>1 DEF Block, Places
<1>4. io' = [io EXCEPT ![c] = [io[c] EXCEPT ![n] = b]]
  BY <1>1a, <1>2
<1>5. /\ io' \in [Clients -> Seq(Block)]
      /\ \A d \in Clients : DOMAIN io'[d] = DOMAIN io[d]
      /\ io'[c][n] = b
      /\ \A d \in Clients : \A m \in DOMAIN io[d] : d # c \/ m # n => io'[d][m] = io[d][m]
  <2> HIDE DEF b
  <2> QED BY <1>2, <1>3, <1>4, UpdateBlock
<1> HIDE DEF b
<1>6. \A d \in Clients : \A m \in DOMAIN io[d] : InFlight(d, m)' <=> InFlight(d, m)
  BY <1>1a, <1>3, <1>5 DEF InFlight
<1>7. \A v \in Workers : /\ v # w => pc'[v] = pc[v] /\ job'[v] = job[v]
                         /\ pc'[w] = "deref" /\ job'[w] = <<c, n>>
  BY <1>1a, <1>2
<1>8. TypeOK'
  BY <1>1a, <1>2, <1>5 DEF TypeOK, connVars, clientVars, dataVars, PCs
<1>9. \A v \in Workers : Holding(v) => job[v] # <<c, n>>
  BY <1>1a DEF WorkerHolds, Holding, Held, Conn, Blk
<1>10. WorkerHolds'
  <2> SUFFICES ASSUME NEW v \in Workers, pc'[v] # "idle"
               PROVE  /\ job'[v] \in Clients \X Nat
                      /\ Blk(v)' \in DOMAIN io'[Conn(v)']
                      /\ Holding(v)' => Held(v)'.at = "held"
                      /\ pc'[v] \in {"send", "close", "free"} => Held(v)'.mode = "READ"
                      /\ pc'[v] = "freeio" => Held(v)'.mode = "WRITE"
    BY DEF WorkerHolds
  <2>1. CASE v = w
    <3>1. Conn(v)' = c /\ Blk(v)' = n /\ job'[v] = <<c, n>> /\ pc'[v] = "deref"
      BY <1>7, <2>1 DEF Conn, Blk
    <3>2. <<c, n>> \in Clients \X Nat
      BY <1>2
    <3>3. Held(v)' = b
      BY <1>5, <3>1 DEF Held
    <3> QED
      BY <1>3, <1>5, <3>1, <3>2, <3>3
  <2>2. CASE v # w
    <3>1. /\ job[v] \in Clients \X Nat /\ Blk(v) \in DOMAIN io[Conn(v)]
          /\ job'[v] = job[v] /\ pc'[v] = pc[v]
      BY <1>7, <2>2 DEF WorkerHolds
    <3>2. CASE Holding(v)
      <4>1. Conn(v) # c \/ Blk(v) # n
        BY <1>9, <3>1, <3>2 DEF Conn, Blk
      <4>2. io'[Conn(v)][Blk(v)] = io[Conn(v)][Blk(v)]
        BY <1>5, <3>1, <4>1 DEF Conn, Blk
      <4> QED
        BY <1>5, <3>1, <4>2 DEF WorkerHolds, Holding, Held, Conn, Blk
    <3>3. CASE ~Holding(v)
      BY <1>5, <3>1, <3>3 DEF Holding, Conn, Blk
    <3> QED BY <3>2, <3>3
  <2> QED BY <2>1, <2>2
<1>11. HoldersDistinct'
  BY <1>7, <1>9 DEF HoldersDistinct, Holding
<1>12. SendsQueued'
  <2>1. sendq' = sendq
    BY <1>2 DEF dataVars
  <2>2. \A d \in Clients : \A m \in DOMAIN io[d] :
           /\ io[d][m].at = "send" => io'[d][m] = io[d][m]
           /\ io'[d][m].at = "send" => io'[d][m] = io[d][m]
    BY <1>1a, <1>3, <1>5
  <2>3. \A d \in Clients : \A m \in DOMAIN io'[d] :
           io'[d][m].at = "send" => io'[d][m].mode = "WRITE"
    BY <1>5, <2>2 DEF SendsQueued
  <2>4. \A d \in Clients : \A i \in DOMAIN sendq[d] :
           sendq[d][i] \in DOMAIN io'[d] /\ io'[d][sendq[d][i]].at = "send"
    BY <1>5, <2>2 DEF SendsQueued
  <2> QED
    BY <2>1, <2>3, <2>4 DEF SendsQueued
<1>13. OneReceive'
  BY <1>2, <1>5, <1>6, <1>7 DEF OneReceive, Reposting, Conn
<1>14. ReceiveAlive'
  <2>1. handle' = handle /\ sock' = sock
    BY <1>2 DEF connVars
  <2>2. ASSUME NEW d \in Clients, NEW m \in DOMAIN io'[d], InFlight(d, m)'
        PROVE  /\ handle'[d] = "live"
               /\ sock'[d] = "open" \/ \E v \in Workers : pc'[v] = "free" /\ job'[v] = <<d, m>>
    <3>1. m \in DOMAIN io[d] /\ InFlight(d, m)
      BY <1>5, <1>6, <2>2
    <3>2. handle[d] = "live" /\ (sock[d] = "open" \/ \E v \in Workers : pc[v] = "free" /\ job[v] = <<d, m>>)
      BY <3>1 DEF ReceiveAlive
    <3> QED
      BY <1>2, <1>7, <2>1, <3>2
  <2>3. ASSUME NEW d \in Clients, NEW v \in Workers
        PROVE  /\ Reposting(v, d)' => handle'[d] = "live" /\ sock'[d] = "open"
               /\ pc'[v] \in {"send", "close"} /\ Conn(v)' = d => sock'[d] = "open"
    BY <1>7, <2>1 DEF ReceiveAlive, Reposting, Conn
  <2> QED
    BY <2>2, <2>3 DEF ReceiveAlive
<1>15. NothingBeforeAccept'
  <2>1. handle' = handle
    BY <1>2 DEF connVars
  <2>2. \A d \in Clients : io[d] = <<>> => d # c /\ io'[d] = io[d]
    BY <1>1a, <1>2, <1>4
  <2> QED
    BY <2>1, <2>2 DEF NothingBeforeAccept
<1> QED
  BY <1>8, <1>10, <1>11, <1>12, <1>13, <1>14, <1>15

\* Reading the handle and branching changes only the worker's own place.
LEMMA DerefStep ==
    ASSUME IInv, NEW w \in Workers, Deref(w)
    PROVE  IInv'
<1> USE DEF IInv
<1>1. /\ pc[w] = "deref" /\ UNCHANGED <<clientVars, connVars, dataVars, io, job>>
      /\ pc \in [Workers -> PCs]
  BY DEF Deref, TypeOK
<1>2. PICK q \in {"freeio", "close", "send"} :
         /\ pc' = [pc EXCEPT ![w] = q]
         /\ q = "freeio" => Held(w).mode = "WRITE"
         /\ q # "freeio" => Held(w).mode # "WRITE"
  BY DEF Deref
<1>3. /\ io' = io /\ job' = job /\ sendq' = sendq /\ handle' = handle /\ sock' = sock
      /\ \A v \in Workers : v # w => pc'[v] = pc[v]
      /\ pc'[w] = q
  BY <1>1, <1>2 DEF connVars, dataVars
<1>4. /\ Conn(w) \in Clients /\ Blk(w) \in DOMAIN io[Conn(w)] /\ job[w] \in Clients \X Nat
      /\ Held(w).at = "held" /\ Held(w).mode \in {"READ", "WRITE"}
  <2>1. Conn(w) \in Clients /\ Blk(w) \in DOMAIN io[Conn(w)] /\ job[w] \in Clients \X Nat
        /\ Held(w).at = "held"
    BY <1>1 DEF WorkerHolds, Holding, Conn
  <2>2. Held(w) \in Block
    BY <2>1 DEF TypeOK, Held
  <2> QED
    BY <2>1, <2>2 DEF Block
<1>5. q # "freeio" => Held(w).mode = "READ"
  BY <1>2, <1>4
<1>6. TypeOK'
  BY <1>1, <1>2 DEF TypeOK, clientVars, connVars, dataVars, PCs
<1>7. WorkerHolds'
  BY <1>1, <1>2, <1>3, <1>4, <1>5 DEF WorkerHolds, Holding, Held, Conn, Blk
<1>8. HoldersDistinct'
  BY <1>1, <1>2, <1>3 DEF HoldersDistinct, Holding
<1>9. SendsQueued' /\ NothingBeforeAccept'
  BY <1>3 DEF SendsQueued, NothingBeforeAccept
<1>10. OneReceive'
  BY <1>2, <1>3 DEF OneReceive, Reposting, InFlight, Conn
<1>11. q \in {"send", "close"} => sock[Conn(w)] = "open"
  <2> SUFFICES ASSUME q \in {"send", "close"} PROVE sock[Conn(w)] = "open"
    OBVIOUS
  <2>1. InFlight(Conn(w), Blk(w))
    BY <1>4, <1>5 DEF InFlight, Held
  <2>2. ASSUME NEW v \in Workers, pc[v] = "free", job[v] = <<Conn(w), Blk(w)>>
        PROVE  FALSE
    <3>1. job[v] = job[w]
      BY <1>4, <2>2 DEF Conn, Blk
    <3>2. v = w
      BY <1>1, <2>2, <3>1 DEF HoldersDistinct, Holding
    <3> QED
      BY <1>1, <2>2, <3>2
  <2> QED
    BY <1>4, <2>1, <2>2 DEF ReceiveAlive
<1>12. ReceiveAlive'
  <2>1. ASSUME NEW d \in Clients, NEW m \in DOMAIN io[d], InFlight(d, m)
        PROVE  /\ handle[d] = "live"
               /\ sock[d] = "open" \/ \E v \in Workers : pc'[v] = "free" /\ job[v] = <<d, m>>
    BY <1>1, <1>3, <2>1 DEF ReceiveAlive
  <2>2. ASSUME NEW d \in Clients, NEW v \in Workers
        PROVE  /\ pc'[v] = "recv" /\ Conn(v) = d => handle[d] = "live" /\ sock[d] = "open"
               /\ pc'[v] \in {"send", "close"} /\ Conn(v) = d => sock[d] = "open"
    BY <1>2, <1>3, <1>11 DEF ReceiveAlive, Reposting
  <2> QED
    BY <1>3, <2>1, <2>2 DEF ReceiveAlive, Reposting, InFlight, Conn
<1> QED
  BY <1>6, <1>7, <1>8, <1>9, <1>10, <1>12

\* A worker gives away the block it holds: it leaves the hands of w in a
\* state that is not in flight, and w goes on to q.
LEMMA GiveAway ==
    ASSUME IInv, NEW w \in Workers, Holding(w), NEW b \in Block,
           b.at \in {"send", "lost", "freed"},
           io' = [io EXCEPT ![Conn(w)] = [io[Conn(w)] EXCEPT ![Blk(w)] = b]]
    PROVE  /\ Conn(w) \in Clients /\ Blk(w) \in DOMAIN io[Conn(w)] /\ job[w] \in Clients \X Nat
           /\ Held(w).at = "held"
           /\ io' \in [Clients -> Seq(Block)]
           /\ \A d \in Clients : DOMAIN io'[d] = DOMAIN io[d]
           /\ io'[Conn(w)][Blk(w)] = b
           /\ \A d \in Clients : \A m \in DOMAIN io[d] :
                 /\ d # Conn(w) \/ m # Blk(w) => io'[d][m] = io[d][m]
                 /\ InFlight(d, m)' <=> InFlight(d, m) /\ (d # Conn(w) \/ m # Blk(w))
           /\ \A v \in Workers : pc[v] # "idle" =>
                 /\ job[v] \in Clients \X Nat /\ Blk(v) \in DOMAIN io'[Conn(v)]
                 /\ v # w /\ Holding(v) => io'[Conn(v)][Blk(v)] = Held(v)
           /\ \A d \in Clients : io[d] = <<>> => io'[d] = <<>>
<1> USE DEF IInv
<1>1. /\ Conn(w) \in Clients /\ Blk(w) \in DOMAIN io[Conn(w)] /\ job[w] \in Clients \X Nat
      /\ Held(w).at = "held"
  BY DEF WorkerHolds, Holding, Conn
<1>2. io \in [Clients -> Seq(Block)]
  BY DEF TypeOK
<1>3. /\ io' \in [Clients -> Seq(Block)]
      /\ \A d \in Clients : DOMAIN io'[d] = DOMAIN io[d]
      /\ io'[Conn(w)][Blk(w)] = b
      /\ \A d \in Clients : \A m \in DOMAIN io[d] : d # Conn(w) \/ m # Blk(w) => io'[d][m] = io[d][m]
  <2> HIDE DEF IInv
  <2> QED BY <1>1, <1>2, UpdateBlock
<1>4. \A d \in Clients : \A m \in DOMAIN io[d] :
         InFlight(d, m)' <=> InFlight(d, m) /\ (d # Conn(w) \/ m # Blk(w))
  BY <1>3 DEF InFlight
<1>5. ASSUME NEW v \in Workers, pc[v] # "idle"
      PROVE  /\ job[v] \in Clients \X Nat /\ Blk(v) \in DOMAIN io'[Conn(v)]
             /\ v # w /\ Holding(v) => io'[Conn(v)][Blk(v)] = Held(v)
  <2>1. job[v] \in Clients \X Nat /\ Conn(v) \in Clients /\ Blk(v) \in DOMAIN io[Conn(v)]
    BY <1>5 DEF WorkerHolds, Conn
  <2>2. ASSUME v # w, Holding(v)
        PROVE  Conn(v) # Conn(w) \/ Blk(v) # Blk(w)
    <3>1. job[v] # job[w]
      BY <2>2 DEF HoldersDistinct
    <3> QED
      BY <1>1, <2>1, <3>1 DEF Conn, Blk
  <2> QED
    BY <1>3, <2>1, <2>2 DEF Held
<1>6. \A d \in Clients : io[d] = <<>> => io'[d] = <<>>
  BY <1>2, <1>3, EmptySeq
<1> QED
  BY <1>1, <1>3, <1>4, <1>5, <1>6

\* A worker that holds a READ block is the only one concerned with the
\* receive of its connection.
LEMMA SoleOwner ==
    ASSUME IInv, NEW w \in Workers, pc[w] \in {"send", "close", "free"}
    PROVE  /\ Conn(w) \in Clients /\ Blk(w) \in DOMAIN io[Conn(w)]
           /\ InFlight(Conn(w), Blk(w)) /\ handle[Conn(w)] = "live"
           /\ \A m \in DOMAIN io[Conn(w)] : InFlight(Conn(w), m) => m = Blk(w)
           /\ \A v \in Workers : ~Reposting(v, Conn(w))
           /\ \A v \in Workers : pc[v] \in {"send", "close", "free"} /\ Conn(v) = Conn(w) => v = w
<1> USE DEF IInv
<1>1. ASSUME NEW v \in Workers, pc[v] \in {"send", "close", "free"}
      PROVE  /\ Conn(v) \in Clients /\ Blk(v) \in DOMAIN io[Conn(v)] /\ job[v] \in Clients \X Nat
             /\ InFlight(Conn(v), Blk(v)) /\ Holding(v)
  BY <1>1 DEF WorkerHolds, Holding, Held, Conn, InFlight
<1>2. /\ \A m \in DOMAIN io[Conn(w)] : InFlight(Conn(w), m) => m = Blk(w)
      /\ \A v \in Workers : ~Reposting(v, Conn(w))
      /\ handle[Conn(w)] = "live"
  BY <1>1 DEF OneReceive, ReceiveAlive
<1>3. ASSUME NEW v \in Workers, pc[v] \in {"send", "close", "free"}, Conn(v) = Conn(w)
      PROVE  v = w
  <2>1. Blk(v) = Blk(w)
    BY <1>1, <1>2, <1>3
  <2>2. job[v] = job[w]
    BY <1>1, <1>3, <2>1 DEF Conn, Blk
  <2> QED
    BY <1>1, <1>3, <2>2 DEF HoldersDistinct
<1> QED
  BY <1>1, <1>2, <1>3

\* The received block becomes a pending send, or is lost.
LEMMA PostSendStep ==
    ASSUME IInv, NEW w \in Workers, PostSend(w)
    PROVE  IInv'
<1> USE DEF IInv
<1> DEFINE c == Conn(w)
           n == Blk(w)
<1>1. /\ pc[w] = "send" /\ pc' = [pc EXCEPT ![w] = "recv"]
      /\ UNCHANGED <<clientVars, connVars, read, out, job>>
      /\ pc \in [Workers -> PCs] /\ io \in [Clients -> Seq(Block)] /\ sendq \in [Clients -> Seq(Nat)]
  BY DEF PostSend, TypeOK
<1>2. /\ c \in Clients /\ n \in DOMAIN io[c] /\ InFlight(c, n) /\ handle[c] = "live"
      /\ \A m \in DOMAIN io[c] : InFlight(c, m) => m = n
      /\ \A v \in Workers : ~Reposting(v, c)
      /\ \A v \in Workers : pc[v] \in {"send", "close", "free"} /\ Conn(v) = c => v = w
  BY <1>1, SoleOwner
<1>3. io[c][n] \in Block /\ n \in Nat
  BY <1>1, <1>2
<1>4. PICK p \in {"send", "lost"} :
         /\ io' = [io EXCEPT ![c] = [io[c] EXCEPT ![n] =
                      [io[c][n] EXCEPT !.at = p, !.mode = "WRITE"]]]
         /\ p = "send" => sendq' = [sendq EXCEPT ![c] = Append(sendq[c], n)]
         /\ p = "lost" => sendq' = sendq
  BY <1>2, <1>3 DEF PostSend
<1> DEFINE b == [io[c][n] EXCEPT !.at = p, !.mode = "WRITE"]
<1>5. b \in Block /\ b.at = p /\ b.mode = "WRITE"
  BY <1>3 DEF Block, Places
<1>6. /\ job[w] \in Clients \X Nat
      /\ Held(w).at = "held"
      /\ io' \in [Clients -> Seq(Block)]
      /\ \A d \in Clients : DOMAIN io'[d] = DOMAIN io[d]
      /\ io'[c][n] = b
      /\ \A d \in Clients : \A m \in DOMAIN io[d] :
            /\ d # c \/ m # n => io'[d][m] = io[d][m]
            /\ InFlight(d, m)' <=> InFlight(d, m) /\ (d # c \/ m # n)
      /\ \A v \in Workers : pc[v] # "idle" =>
            /\ job[v] \in Clients \X Nat /\ Blk(v) \in DOMAIN io'[Conn(v)]
            /\ v # w /\ Holding(v) => io'[Conn(v)][Blk(v)] = Held(v)
      /\ \A d \in Clients : io[d] = <<>> => io'[d] = <<>>
  <2>1. Holding(w)
    BY <1>1 DEF Holding
  <2>2. io' = [io EXCEPT ![c] = [io[c] EXCEPT ![n] = b]]
    BY <1>4
  <2>3. b \in Block /\ b.at \in {"send", "lost", "freed"}
    BY <1>5
  <2> HIDE DEF b, IInv
  <2> QED BY <2>1, <2>2, <2>3, GiveAway, Zenon
<1> HIDE DEF b
<1>7. /\ job' = job /\ handle' = handle /\ sock' = sock
      /\ \A v \in Workers : v # w => pc'[v] = pc[v]
      /\ pc'[w] = "recv"
  BY <1>1 DEF connVars
<1>8. sendq' \in [Clients -> Seq(Nat)]
  <2>1. Append(sendq[c], n) \in Seq(Nat)
    BY <1>1, <1>2, <1>3
  <2>2. CASE p = "send"  BY <1>1, <1>4, <2>1, <2>2
  <2>3. CASE p = "lost"  BY <1>1, <1>4, <2>3
  <2> QED                BY <2>2, <2>3
<1>9. TypeOK'
  BY <1>1, <1>6, <1>8 DEF TypeOK, clientVars, connVars, PCs
<1>10. WorkerHolds'
  <2> SUFFICES ASSUME NEW v \in Workers, pc'[v] # "idle"
               PROVE  /\ job[v] \in Clients \X Nat
                      /\ Blk(v) \in DOMAIN io'[Conn(v)]
                      /\ pc'[v] # "recv" => io'[Conn(v)][Blk(v)].at = "held"
                      /\ pc'[v] \in {"send", "close", "free"} => io'[Conn(v)][Blk(v)].mode = "READ"
                      /\ pc'[v] = "freeio" => io'[Conn(v)][Blk(v)].mode = "WRITE"
    BY <1>7 DEF WorkerHolds, Holding, Held, Conn, Blk
  <2>1. CASE v = w
    BY <1>1, <1>6, <1>7, <2>1
  <2>2. CASE v # w
    BY <1>6, <1>7, <2>2 DEF WorkerHolds, Holding
  <2> QED BY <2>1, <2>2
<1>11. HoldersDistinct'
  BY <1>7 DEF HoldersDistinct, Holding
<1>12. NothingBeforeAccept'
  BY <1>6, <1>7 DEF NothingBeforeAccept
<1>13. OneReceive'
  <2>1. \A d \in Clients, k, m \in Nat : k \in DOMAIN io'[d] /\ m \in DOMAIN io'[d]
           /\ InFlight(d, k)' /\ InFlight(d, m)' => k = m
    BY <1>6 DEF OneReceive
  <2>2. \A d \in Clients : d = c => \A m \in DOMAIN io'[d] : ~InFlight(d, m)'
    BY <1>2, <1>6
  <2>3. \A v \in Workers, d \in Clients : Reposting(v, d)' <=> Reposting(v, d) \/ (v = w /\ d = c)
    BY <1>1, <1>7 DEF Reposting, Conn
  <2>4. \A d \in Clients : DOMAIN io'[d] \subseteq Nat
    BY <1>6
  <2> QED
    BY <1>2, <1>6, <2>1, <2>2, <2>3, <2>4 DEF OneReceive
<1>14. sock[c] = "open"
  BY <1>1, <1>2 DEF ReceiveAlive
<1>15. ReceiveAlive'
  <2>1. ASSUME NEW d \in Clients, NEW m \in DOMAIN io'[d], InFlight(d, m)'
        PROVE  /\ handle'[d] = "live"
               /\ sock'[d] = "open" \/ \E v \in Workers : pc'[v] = "free" /\ job'[v] = <<d, m>>
    <3>1. m \in DOMAIN io[d] /\ InFlight(d, m)
      BY <1>6, <2>1
    <3>2. handle[d] = "live" /\ (sock[d] = "open" \/ \E v \in Workers : pc[v] = "free" /\ job[v] = <<d, m>>)
      BY <3>1 DEF ReceiveAlive
    <3> QED
      BY <1>1, <1>7, <3>2
  <2>2. ASSUME NEW d \in Clients, NEW v \in Workers
        PROVE  /\ Reposting(v, d)' => handle'[d] = "live" /\ sock'[d] = "open"
               /\ pc'[v] \in {"send", "close"} /\ Conn(v)' = d => sock'[d] = "open"
    BY <1>2, <1>7, <1>14 DEF ReceiveAlive, Reposting, Conn
  <2> QED
    BY <2>1, <2>2 DEF ReceiveAlive
<1>16. SendsQueued'
  <2>1. \A i \in DOMAIN sendq[c] : sendq[c][i] # n
    BY <1>2, <1>6 DEF SendsQueued, Held
  <2>2. \A d \in Clients : \A i \in DOMAIN sendq[d] :
           sendq[d][i] \in DOMAIN io'[d] /\ io'[d][sendq[d][i]].at = "send"
    BY <1>6, <2>1 DEF SendsQueued
  <2>3. \A d \in Clients : \A m \in DOMAIN io'[d] :
           io'[d][m].at = "send" => io'[d][m].mode = "WRITE"
    BY <1>5, <1>6 DEF SendsQueued
  <2>4. CASE p = "lost"
    BY <1>4, <2>2, <2>3, <2>4 DEF SendsQueued
  <2>5. CASE p = "send"
    <3>1. /\ \A d \in Clients : d # c => sendq'[d] = sendq[d]
          /\ sendq'[c] = Append(sendq[c], n)
      BY <1>1, <1>2, <1>4, <2>5
    <3>2. /\ DOMAIN sendq'[c] = DOMAIN sendq[c] \cup {Len(sendq[c]) + 1}
          /\ \A i \in DOMAIN sendq[c] : sendq'[c][i] = sendq[c][i] /\ i # Len(sendq[c]) + 1
          /\ sendq'[c][Len(sendq[c]) + 1] = n
      BY <1>1, <1>2, <1>3, <3>1
    <3>3. n \in DOMAIN io'[c] /\ io'[c][n].at = "send"
      BY <1>2, <1>5, <1>6, <2>5
    <3>4. \A d \in Clients : \A i \in DOMAIN sendq'[d] :
             sendq'[d][i] \in DOMAIN io'[d] /\ io'[d][sendq'[d][i]].at = "send"
      BY <2>2, <3>1, <3>2, <3>3
    <3>5. ASSUME NEW d \in Clients, NEW i \in DOMAIN sendq'[d], NEW j \in DOMAIN sendq'[d],
                 sendq'[d][i] = sendq'[d][j]
          PROVE  i = j
      BY <2>1, <3>1, <3>2, <3>5, SMTT(40) DEF SendsQueued
    <3> QED
      BY <2>3, <3>4, <3>5 DEF SendsQueued
  <2> QED
    BY <2>4, <2>5
<1> QED
  BY <1>9, <1>10, <1>11, <1>12, <1>13, <1>15, <1>16

\* The next receive of the connection is posted with a new block.
LEMMA PostRecvStep ==
    ASSUME IInv, NEW w \in Workers, PostRecv(w)
    PROVE  IInv'
<1> USE DEF IInv
<1>1. /\ pc[w] = "recv" /\ pc' = [pc EXCEPT ![w] = "idle"]
      /\ job' = [job EXCEPT ![w] = NoJob]
      /\ UNCHANGED <<clientVars, connVars, dataVars>>
      /\ pc \in [Workers -> PCs] /\ job \in [Workers -> {NoJob} \cup (Clients \X Nat)]
      /\ io \in [Clients -> Seq(Block)]
  BY DEF PostRecv, TypeOK
<1>2. PICK c \in Clients : c = Conn(w)
  BY <1>1 DEF WorkerHolds, Conn
<1>3. /\ \A m \in DOMAIN io[c] : ~InFlight(c, m)
      /\ \A v \in Workers : Reposting(v, c) => v = w
      /\ handle[c] = "live" /\ sock[c] = "open"
  BY <1>1, <1>2 DEF OneReceive, ReceiveAlive, Reposting
<1>4. PICK p \in {"recv", "lost"} : io' = [io EXCEPT ![c] = Append(io[c], NewRecv(p))]
  BY <1>2 DEF PostRecv
<1> DEFINE b == NewRecv(p)
           k == Len(io[c]) + 1
<1>5. b \in Block /\ b.at \in {"recv", "lost"} /\ b.mode = "READ"
  BY DEF NewRecv, Block, Places
<1>6. /\ io' \in [Clients -> Seq(Block)]
      /\ \A d \in Clients : d # c => io'[d] = io[d]
      /\ DOMAIN io'[c] = DOMAIN io[c] \cup {k} /\ k \notin DOMAIN io[c]
      /\ io'[c][k] = b
      /\ \A d \in Clients : \A m \in DOMAIN io[d] : m \in DOMAIN io'[d] /\ io'[d][m] = io[d][m]
  <2>1. io' = [io EXCEPT ![c] = Append(io[c], b)]
    BY <1>4
  <2> HIDE DEF b, IInv
  <2> QED BY <1>1, <1>5, <2>1, AppendBlock
<1> HIDE DEF b, k
<1>7. /\ handle' = handle /\ sock' = sock /\ sendq' = sendq
      /\ \A v \in Workers : v # w => pc'[v] = pc[v] /\ job'[v] = job[v]
      /\ pc'[w] = "idle"
  BY <1>1 DEF connVars, dataVars
<1>8. TypeOK'
  BY <1>1, <1>6 DEF TypeOK, clientVars, connVars, dataVars, PCs
<1>9. WorkerHolds'
  <2> SUFFICES ASSUME NEW v \in Workers, v # w, pc[v] # "idle"
               PROVE  /\ job[v] \in Clients \X Nat
                      /\ Blk(v) \in DOMAIN io'[Conn(v)]
                      /\ io'[Conn(v)][Blk(v)] = Held(v)
    BY <1>7 DEF WorkerHolds, Holding, Held, Conn, Blk
  <2>1. job[v] \in Clients \X Nat /\ Conn(v) \in Clients /\ Blk(v) \in DOMAIN io[Conn(v)]
    BY DEF WorkerHolds, Conn
  <2> QED
    BY <1>6, <2>1 DEF Held
<1>10. HoldersDistinct'
  BY <1>7 DEF HoldersDistinct, Holding
<1>11. NothingBeforeAccept'
  BY <1>3, <1>6, <1>7 DEF NothingBeforeAccept
<1>12. SendsQueued'
  <2>1. \A d \in Clients : \A m \in DOMAIN io'[d] :
           io'[d][m].at = "send" => io'[d][m].mode = "WRITE"
    BY <1>5, <1>6 DEF SendsQueued
  <2> QED
    BY <1>6, <1>7, <2>1 DEF SendsQueued
<1>13. \A d \in Clients : \A m \in DOMAIN io'[d] :
          InFlight(d, m)' => \/ d = c /\ m = k
                             \/ m \in DOMAIN io[d] /\ InFlight(d, m) /\ d # c
  BY <1>3, <1>6 DEF InFlight
<1>14. \A v \in Workers, d \in Clients :
          Reposting(v, d)' => Reposting(v, d) /\ v # w /\ d # c
  BY <1>1, <1>3, <1>7 DEF Reposting, Conn
<1>15. OneReceive'
  BY <1>6, <1>13, <1>14 DEF OneReceive
<1>16. ReceiveAlive'
  <2>1. ASSUME NEW d \in Clients, NEW m \in DOMAIN io'[d], InFlight(d, m)'
        PROVE  /\ handle'[d] = "live"
               /\ sock'[d] = "open" \/ \E v \in Workers : pc'[v] = "free" /\ job'[v] = <<d, m>>
    <3>1. CASE d = c
      BY <1>3, <1>7, <3>1
    <3>2. CASE d # c
      <4>1. m \in DOMAIN io[d] /\ InFlight(d, m)
        BY <1>13, <2>1, <3>2
      <4>2. handle[d] = "live" /\ (sock[d] = "open" \/ \E v \in Workers : pc[v] = "free" /\ job[v] = <<d, m>>)
        BY <4>1 DEF ReceiveAlive
      <4> QED
        BY <1>1, <1>7, <4>2
    <3> QED BY <3>1, <3>2
  <2>2. ASSUME NEW d \in Clients, NEW v \in Workers
        PROVE  /\ Reposting(v, d)' => handle'[d] = "live" /\ sock'[d] = "open"
               /\ pc'[v] \in {"send", "close"} /\ Conn(v)' = d => sock'[d] = "open"
    BY <1>7, <1>14 DEF ReceiveAlive, Conn
  <2> QED
    BY <2>1, <2>2 DEF ReceiveAlive
<1> QED
  BY <1>8, <1>9, <1>10, <1>11, <1>12, <1>15, <1>16

\* The socket of a connection that has ended is closed.
LEMMA CloseSockStep ==
    ASSUME IInv, NEW w \in Workers, CloseSock(w)
    PROVE  IInv'
<1> USE DEF IInv
<1>1. /\ pc[w] = "close" /\ pc' = [pc EXCEPT ![w] = "free"]
      /\ UNCHANGED <<clientVars, handle, dataVars, io, job>>
      /\ pc \in [Workers -> PCs] /\ sock \in [Clients -> {"none", "bad", "open", "closed"}]
  BY DEF CloseSock, TypeOK
<1>2. PICK c \in Clients :
         /\ c = Conn(w) /\ Blk(w) \in DOMAIN io[c] /\ job[w] = <<c, Blk(w)>>
         /\ \A m \in DOMAIN io[c] : InFlight(c, m) => m = Blk(w)
         /\ \A v \in Workers : ~Reposting(v, c)
         /\ \A v \in Workers : pc[v] \in {"send", "close", "free"} /\ Conn(v) = c => v = w
  <2>1. job[w] \in Clients \X Nat
    BY <1>1 DEF WorkerHolds
  <2> QED
    BY <1>1, <2>1, SoleOwner, SMTT(40) DEF Conn, Blk
<1>3. sock' = [sock EXCEPT ![c] = "closed"]
  BY <1>2 DEF CloseSock
<1>4. /\ io' = io /\ job' = job /\ handle' = handle /\ sendq' = sendq
      /\ \A v \in Workers : v # w => pc'[v] = pc[v]
      /\ pc'[w] = "free"
      /\ \A d \in Clients : d # c => sock'[d] = sock[d]
  BY <1>1, <1>3 DEF dataVars
<1>5. TypeOK'
  BY <1>1, <1>3 DEF TypeOK, clientVars, dataVars, PCs
<1>6. WorkerHolds'
  BY <1>1, <1>4 DEF WorkerHolds, Holding, Held, Conn, Blk
<1>7. HoldersDistinct' /\ SendsQueued' /\ NothingBeforeAccept'
  BY <1>1, <1>4 DEF HoldersDistinct, SendsQueued, NothingBeforeAccept, Holding
<1>8. OneReceive'
  BY <1>4 DEF OneReceive, Reposting, InFlight, Conn
<1>9. ReceiveAlive'
  <2>1. ASSUME NEW d \in Clients, NEW m \in DOMAIN io[d], InFlight(d, m)
        PROVE  /\ handle[d] = "live"
               /\ sock'[d] = "open" \/ \E v \in Workers : pc'[v] = "free" /\ job[v] = <<d, m>>
    <3>1. CASE d = c
      BY <1>2, <1>4, <2>1, <3>1 DEF ReceiveAlive
    <3>2. CASE d # c
      BY <1>1, <1>4, <2>1, <3>2 DEF ReceiveAlive
    <3> QED BY <3>1, <3>2
  <2>2. ASSUME NEW d \in Clients, NEW v \in Workers
        PROVE  /\ pc'[v] = "recv" /\ Conn(v) = d => handle[d] = "live" /\ sock'[d] = "open"
               /\ pc'[v] \in {"send", "close"} /\ Conn(v) = d => sock'[d] = "open"
    BY <1>2, <1>4 DEF ReceiveAlive, Reposting
  <2> QED
    BY <1>4, <2>1, <2>2 DEF ReceiveAlive, Reposting, InFlight, Conn
<1> QED
  BY <1>5, <1>6, <1>7, <1>8, <1>9

\* A worker frees the block it holds and is idle again.
LEMMA FreeBlock ==
    ASSUME IInv, NEW w \in Workers, Holding(w),
           io' = [io EXCEPT ![Conn(w)][Blk(w)].at = "freed"],
           pc' = [pc EXCEPT ![w] = "idle"],
           job' = [job EXCEPT ![w] = NoJob],
           UNCHANGED <<clientVars, sock, dataVars>>
    PROVE  /\ io' \in [Clients -> Seq(Block)]
           /\ pc' \in [Workers -> PCs]
           /\ job' \in [Workers -> {NoJob} \cup (Clients \X Nat)]
           /\ WorkerHolds' /\ HoldersDistinct' /\ SendsQueued' /\ OneReceive'
           /\ \A d \in Clients : io[d] = <<>> => io'[d] = <<>>
           /\ \A d \in Clients : \A m \in DOMAIN io'[d] : InFlight(d, m)' =>
                 /\ m \in DOMAIN io[d] /\ InFlight(d, m)
                 /\ d # Conn(w) \/ m # Blk(w)
           /\ \A v \in Workers : v # w => pc'[v] = pc[v] /\ job'[v] = job[v]
           /\ pc'[w] = "idle"
<1> USE DEF IInv
<1>1. /\ pc \in [Workers -> PCs] /\ job \in [Workers -> {NoJob} \cup (Clients \X Nat)]
      /\ io \in [Clients -> Seq(Block)]
      /\ Conn(w) \in Clients /\ Blk(w) \in DOMAIN io[Conn(w)]
      /\ sendq' = sendq
  BY DEF TypeOK, WorkerHolds, Holding, Conn, dataVars
<1>2. Held(w) \in Block /\ Held(w) = io[Conn(w)][Blk(w)]
  BY <1>1 DEF Held
<1> DEFINE b == [Held(w) EXCEPT !.at = "freed"]
<1>3. b \in Block /\ b.at = "freed"
  BY <1>2 DEF Block, Places
<1>4. io' = [io EXCEPT ![Conn(w)] = [io[Conn(w)] EXCEPT ![Blk(w)] = b]]
  BY <1>1 DEF Held
<1>5. /\ Held(w).at = "held"
      /\ io' \in [Clients -> Seq(Block)]
      /\ \A d \in Clients : DOMAIN io'[d] = DOMAIN io[d]
      /\ io'[Conn(w)][Blk(w)] = b
      /\ \A d \in Clients : \A m \in DOMAIN io[d] :
            /\ d # Conn(w) \/ m # Blk(w) => io'[d][m] = io[d][m]
            /\ InFlight(d, m)' <=> InFlight(d, m) /\ (d # Conn(w) \/ m # Blk(w))
      /\ \A v \in Workers : pc[v] # "idle" =>
            /\ job[v] \in Clients \X Nat /\ Blk(v) \in DOMAIN io'[Conn(v)]
            /\ v # w /\ Holding(v) => io'[Conn(v)][Blk(v)] = Held(v)
      /\ \A d \in Clients : io[d] = <<>> => io'[d] = <<>>
  <2>1. b \in Block /\ b.at \in {"send", "lost", "freed"}
    BY <1>3
  <2> HIDE DEF b, IInv
  <2> QED BY <1>4, <2>1, GiveAway, Zenon
<1> HIDE DEF b
<1>6. \A v \in Workers : /\ v # w => pc'[v] = pc[v] /\ job'[v] = job[v]
                         /\ pc'[w] = "idle"
  BY <1>1
<1>7. pc' \in [Workers -> PCs] /\ job' \in [Workers -> {NoJob} \cup (Clients \X Nat)]
  BY <1>1 DEF PCs
<1>8. WorkerHolds'
  <2> SUFFICES ASSUME NEW v \in Workers, v # w, pc[v] # "idle"
               PROVE  /\ job[v] \in Clients \X Nat
                      /\ Blk(v) \in DOMAIN io'[Conn(v)]
                      /\ pc[v] # "recv" => io'[Conn(v)][Blk(v)].at = "held"
                      /\ pc[v] \in {"send", "close", "free"} => io'[Conn(v)][Blk(v)].mode = "READ"
                      /\ pc[v] = "freeio" => io'[Conn(v)][Blk(v)].mode = "WRITE"
    BY <1>6 DEF WorkerHolds, Holding, Held, Conn, Blk
  <2> QED
    BY <1>5, ZenonT(60) DEF WorkerHolds, Holding
<1>9. HoldersDistinct'
  BY <1>6 DEF HoldersDistinct, Holding
<1>10. SendsQueued'
  <2>1. \A d \in Clients : \A m \in DOMAIN io[d] :
           /\ io[d][m].at = "send" => io'[d][m] = io[d][m]
           /\ io'[d][m].at = "send" => io'[d][m] = io[d][m]
    BY <1>1, <1>2, <1>3, <1>5
  <2>2. \A d \in Clients : \A m \in DOMAIN io'[d] :
           io'[d][m].at = "send" => io'[d][m].mode = "WRITE"
    BY <1>5, <2>1 DEF SendsQueued
  <2>3. ASSUME NEW d \in Clients, NEW i \in DOMAIN sendq[d]
        PROVE  sendq[d][i] \in DOMAIN io'[d] /\ io'[d][sendq[d][i]].at = "send"
    <3>1. sendq[d][i] \in DOMAIN io[d] /\ io[d][sendq[d][i]].at = "send"
      BY DEF SendsQueued
    <3> QED
      BY <1>5, <2>1, <3>1
  <2> QED
    BY <1>1, <2>2, <2>3 DEF SendsQueued
<1>11. \A v \in Workers, d \in Clients : Reposting(v, d)' => Reposting(v, d)
  BY <1>6 DEF Reposting, Conn
<1>12. OneReceive'
  BY <1>5, <1>11 DEF OneReceive
<1> QED
  BY <1>5, <1>6, <1>7, <1>8, <1>9, <1>10, <1>12

\* The block of a completed send is freed; no receive is concerned.
LEMMA FreeIoStep ==
    ASSUME IInv, NEW w \in Workers, FreeIo(w)
    PROVE  IInv'
<1>1. /\ pc[w] = "freeio" /\ Holding(w)
      /\ handle' = handle /\ sock' = sock
      /\ UNCHANGED <<clientVars, sock, dataVars>>
  BY DEF FreeIo, Holding, connVars
<1>2. /\ io' \in [Clients -> Seq(Block)]
      /\ pc' \in [Workers -> PCs]
      /\ job' \in [Workers -> {NoJob} \cup (Clients \X Nat)]
      /\ WorkerHolds' /\ HoldersDistinct' /\ SendsQueued' /\ OneReceive'
      /\ \A d \in Clients : io[d] = <<>> => io'[d] = <<>>
      /\ \A d \in Clients : \A m \in DOMAIN io'[d] : InFlight(d, m)' =>
            m \in DOMAIN io[d] /\ InFlight(d, m)
      /\ \A v \in Workers : v # w => pc'[v] = pc[v] /\ job'[v] = job[v]
      /\ pc'[w] = "idle"
  BY <1>1, FreeBlock DEF FreeIo
<1>3. TypeOK'
  BY <1>1, <1>2 DEF IInv, TypeOK, clientVars, dataVars
<1>4. NothingBeforeAccept'
  BY <1>1, <1>2 DEF IInv, NothingBeforeAccept
<1>5. ReceiveAlive'
  <2>1. ASSUME NEW d \in Clients, NEW m \in DOMAIN io'[d], InFlight(d, m)'
        PROVE  /\ handle'[d] = "live"
               /\ sock'[d] = "open" \/ \E v \in Workers : pc'[v] = "free" /\ job'[v] = <<d, m>>
    <3>1. handle[d] = "live" /\ (sock[d] = "open" \/ \E v \in Workers : pc[v] = "free" /\ job[v] = <<d, m>>)
      BY <1>2, <2>1 DEF IInv, ReceiveAlive
    <3> QED
      BY <1>1, <1>2, <3>1
  <2>2. ASSUME NEW d \in Clients, NEW v \in Workers
        PROVE  /\ Reposting(v, d)' => handle'[d] = "live" /\ sock'[d] = "open"
               /\ pc'[v] \in {"send", "close"} /\ Conn(v)' = d => sock'[d] = "open"
    BY <1>1, <1>2 DEF IInv, ReceiveAlive, Reposting, Conn
  <2> QED
    BY <2>1, <2>2 DEF ReceiveAlive
<1> QED
  BY <1>2, <1>3, <1>4, <1>5 DEF IInv

\* The PER_HANDLE_DATA and the block of the last receive are freed.
LEMMA FreeBothStep ==
    ASSUME IInv, NEW w \in Workers, FreeBoth(w)
    PROVE  IInv'
<1>1. /\ pc[w] = "free" /\ Holding(w)
      /\ sock' = sock /\ UNCHANGED <<clientVars, sock, dataVars>>
  BY DEF FreeBoth, Holding
<1>2. /\ io' \in [Clients -> Seq(Block)]
      /\ pc' \in [Workers -> PCs]
      /\ job' \in [Workers -> {NoJob} \cup (Clients \X Nat)]
      /\ WorkerHolds' /\ HoldersDistinct' /\ SendsQueued' /\ OneReceive'
      /\ \A d \in Clients : io[d] = <<>> => io'[d] = <<>>
      /\ \A d \in Clients : \A m \in DOMAIN io'[d] : InFlight(d, m)' =>
            m \in DOMAIN io[d] /\ InFlight(d, m) /\ (d # Conn(w) \/ m # Blk(w))
      /\ \A v \in Workers : v # w => pc'[v] = pc[v] /\ job'[v] = job[v]
      /\ pc'[w] = "idle"
  BY <1>1, FreeBlock DEF FreeBoth
<1>3. PICK c \in Clients :
         /\ c = Conn(w)
         /\ \A m \in DOMAIN io[c] : InFlight(c, m) => m = Blk(w)
         /\ \A v \in Workers : ~Reposting(v, c)
         /\ \A v \in Workers : pc[v] \in {"send", "close", "free"} /\ Conn(v) = c => v = w
  BY <1>1, SoleOwner
<1>4. handle' = [handle EXCEPT ![c] = "freed"] /\ handle \in [Clients -> {"none", "live", "freed"}]
  BY <1>3 DEF FreeBoth, IInv, TypeOK
<1>5. TypeOK'
  BY <1>1, <1>2, <1>4 DEF IInv, TypeOK, clientVars, dataVars
<1>6. NothingBeforeAccept'
  BY <1>2, <1>4 DEF IInv, NothingBeforeAccept
<1>7. ReceiveAlive'
  <2>1. ASSUME NEW d \in Clients, NEW m \in DOMAIN io'[d], InFlight(d, m)'
        PROVE  /\ handle'[d] = "live"
               /\ sock'[d] = "open" \/ \E v \in Workers : pc'[v] = "free" /\ job'[v] = <<d, m>>
    <3>1. m \in DOMAIN io[d] /\ InFlight(d, m) /\ d # c
      BY <1>2, <1>3, <2>1
    <3>2. handle[d] = "live" /\ (sock[d] = "open" \/ \E v \in Workers : pc[v] = "free" /\ job[v] = <<d, m>>)
      BY <3>1 DEF IInv, ReceiveAlive
    <3>3. ASSUME NEW v \in Workers, pc[v] = "free", job[v] = <<d, m>>
          PROVE  v # w
      BY <1>3, <3>1, <3>3 DEF Conn
    <3> QED
      BY <1>1, <1>2, <1>4, <3>1, <3>2, <3>3
  <2>2. ASSUME NEW d \in Clients, NEW v \in Workers
        PROVE  /\ Reposting(v, d)' => handle'[d] = "live" /\ sock'[d] = "open"
               /\ pc'[v] \in {"send", "close"} /\ Conn(v)' = d => sock'[d] = "open"
    BY <1>1, <1>2, <1>3, <1>4, SMTT(40) DEF IInv, ReceiveAlive, Reposting, Conn
  <2> QED
    BY <2>1, <2>2 DEF ReceiveAlive
<1> QED
  BY <1>2, <1>5, <1>6, <1>7 DEF IInv

-----------------------------------------------------------------------------
\* Every step of the server, its clients and the kernel preserves IInv.
LEMMA NextIInv == IInv /\ [Next]_vars => IInv'
<1> SUFFICES ASSUME IInv, [Next]_vars PROVE IInv'
  OBVIOUS
<1>1. CASE UNCHANGED vars
  <2>1. UNCHANGED <<connVars, workerVars>> /\ io' = io /\ sendq' = sendq
    BY <1>1 DEF vars, dataVars
  <2>2. TypeOK'
    BY <1>1 DEF vars, clientVars, connVars, dataVars, workerVars, IInv, TypeOK
  <2>3. SendsQueued'
    BY <2>1 DEF IInv, SendsQueued
  <2>4. io \in [Clients -> Seq(Block)] /\ \A d \in Clients : \A m \in DOMAIN io[d] : InFlight(d, m)' <=> InFlight(d, m)
    BY <2>1 DEF InFlight, IInv, TypeOK
  <2> QED
    BY <2>1, <2>2, <2>3, <2>4, KernelKeeps DEF IInv
<1>2. ASSUME NEW c \in Clients, Client(c) \/ Accept(c) \/ Kernel(c)
      PROVE  IInv'
  BY <1>2, ClientStep, AcceptStep, RecvStep, SendDoneStep, SendAbortStep DEF Kernel
<1>3. ASSUME NEW w \in Workers, Dequeue(w) \/ Work(w)
      PROVE  IInv'
  BY <1>3, DequeueStep, DerefStep, PostSendStep, PostRecvStep, CloseSockStep, FreeBothStep,
     FreeIoStep DEF Work
<1> QED
  BY <1>1, <1>2, <1>3 DEF Next

\* Invariance of the strengthening that all the safety theorems rest on.
THEOREM Invariance == Spec => []IInv
<1> QED
  BY InitIInv, NextIInv, PTL DEF Spec

\* The state of the server is always well formed.
THEOREM TypeCorrect == Spec => []TypeOK
<1>1. IInv => TypeOK
  BY DEF IInv
<1> QED
  BY <1>1, Invariance, PTL

\* However many workers share the port, a connection has one receive at a
\* time, so one worker at a time decides about it (lines 97-121).
THEOREM ReceiveIsUnique == Spec => []OneReceive
<1>1. IInv => OneReceive
  BY DEF IInv
<1> QED
  BY <1>1, Invariance, PTL

\* No worker sends, receives or closes on a closed socket, and none frees a
\* PER_HANDLE_DATA twice (lines 105-106, 114, 121).
THEOREM SocketUse == Spec => []NoUseAfterClose
<1>1. IInv => NoUseAfterClose
  <2> SUFFICES ASSUME IInv, NEW w \in Workers
               PROVE  /\ pc[w] \in {"send", "recv", "close"} => sock[Conn(w)] = "open"
                      /\ pc[w] = "free" => handle[Conn(w)] = "live"
    BY DEF NoUseAfterClose
  <2>1. pc[w] # "idle" => Conn(w) \in Clients
    BY DEF IInv, WorkerHolds, Conn
  <2>2. pc[w] \in {"send", "recv", "close"} => sock[Conn(w)] = "open"
    BY <2>1 DEF IInv, ReceiveAlive, Reposting
  <2>3. pc[w] = "free" => handle[Conn(w)] = "live"
    BY SoleOwner
  <2> QED
    BY <2>2, <2>3
<1> QED
  BY <1>1, Invariance, PTL

\* A worker that reads a freed PER_HANDLE_DATA (line 98) holds a completed
\* send: no receive is ever dispatched with a stale completion key.
THEOREM StaleKeysAreSends == Spec => []DanglingOnlySends
<1>1. IInv => DanglingOnlySends
  <2> SUFFICES ASSUME IInv, NEW w \in Workers, pc[w] = "deref", handle[Conn(w)] = "freed"
               PROVE  Held(w).mode = "WRITE"
    BY DEF DanglingOnlySends
  <2>1. Conn(w) \in Clients /\ Blk(w) \in DOMAIN io[Conn(w)] /\ Held(w).at = "held"
    BY DEF IInv, WorkerHolds, Holding, Conn
  <2>2. Held(w).mode \in {"READ", "WRITE"}
    <3>1. Held(w) \in Block
      BY <2>1 DEF IInv, TypeOK, Held
    <3> QED
      BY <3>1 DEF Block
  <2>3. ~InFlight(Conn(w), Blk(w))
    BY <2>1 DEF IInv, ReceiveAlive
  <2> QED
    BY <2>1, <2>2, <2>3 DEF InFlight, Held
<1> QED
  BY <1>1, Invariance, PTL

-----------------------------------------------------------------------------
(* The replies.  What the kernel has handed over of a stream is delivered, *)
(* or in a pending send, or in the block that a worker is to send next,    *)
(* and the blocks follow each other without a gap.                         *)

\* The account that EchoConserved gives of one client.
Account(c) == peer[c] # "rst" => Row(c) /\ (sock[c] # "closed" => Front(c))

\* The worker has branched on the block it still holds.
Branch(w) ==
    /\ pc[w] = "send" => Held(w).lo # Held(w).hi
    /\ pc[w] = "close" => Held(w).lo = Held(w).hi
    /\ pc[w] = "free" => sock[Conn(w)] = "closed"

\* The kernel receives into no block that was sent.
Posted(c) == \A n \in DOMAIN io[c] : io[c][n].at = "recv" => io[c][n].mode = "READ"

AInv ==
    /\ \A c \in Clients : Posted(c)
    /\ \A c \in Clients : Account(c) /\ out[c] = Bytes(0, Len(out[c]))
    /\ \A w \in Workers : Branch(w)
    /\ \A c \in Clients : read[c] <= sent[c]
    /\ \A c \in Clients : sock[c] = "closed" => peer[c] \in {"fin", "rst"}

LEMMA InitAInv == Init => AInv
BY DEF Init, AInv, Posted, Bytes, Account, Branch, Row, RowEnd, Ready, Front, InFlight

\* What a step keeps of the blocks that carry bytes of client c.
Keeps(c) ==
    /\ sendq'[c] = sendq[c] /\ out'[c] = out[c] /\ read'[c] = read[c]
    /\ Ready(c)' = Ready(c)
    /\ \A n \in DOMAIN io[c] : io[c][n].at = "send" \/ n \in Ready(c) =>
          io'[c][n].lo = io[c][n].lo /\ io'[c][n].hi = io[c][n].hi

LEMMA RowKept ==
    ASSUME IInv, NEW c \in Clients, Keeps(c)
    PROVE  (Row(c) => Row(c)') /\ RowEnd(c)' = RowEnd(c)
<1>1. /\ sendq'[c] = sendq[c] /\ out'[c] = out[c] /\ read'[c] = read[c]
      /\ sendq[c] \in Seq(Nat)
  BY DEF IInv, TypeOK, Keeps
<1>2. ASSUME NEW i \in 1 .. Len(sendq[c])
      PROVE  Sending(c, i)'.lo = Sending(c, i).lo /\ Sending(c, i)'.hi = Sending(c, i).hi
  <2>1. sendq[c][i] \in DOMAIN io[c] /\ io[c][sendq[c][i]].at = "send"
    BY <1>1 DEF IInv, SendsQueued
  <2> QED
    BY <1>1, <2>1 DEF Keeps, Sending
<1>3. Row(c) => Row(c)'
  <2> SUFFICES ASSUME Row(c), NEW i \in 1 .. Len(sendq[c])
               PROVE  /\ Sending(c, i)'.lo = IF i = 1 THEN Len(out[c]) ELSE Sending(c, i - 1)'.hi
                      /\ Sending(c, i)'.lo < Sending(c, i)'.hi
                      /\ Sending(c, i)'.hi <= read[c]
    BY <1>1 DEF Row
  <2>1. i # 1 => i - 1 \in 1 .. Len(sendq[c])
    BY <1>1
  <2> QED
    BY <1>2, <2>1 DEF Row
<1>4. RowEnd(c)' = RowEnd(c)
  <2>1. sendq[c] # <<>> => Len(sendq[c]) \in 1 .. Len(sendq[c])
    BY <1>1
  <2> QED
    BY <1>1, <1>2, <2>1 DEF RowEnd
<1> QED
  BY <1>3, <1>4

LEMMA AccountKept ==
    ASSUME IInv, NEW c \in Clients, Keeps(c), Account(c),
           peer'[c] # "rst" => peer[c] # "rst" /\ (peer[c] = "fin" => peer'[c] = "fin"),
           sock'[c] # "closed" => sock[c] # "closed"
    PROVE  Account(c)'
<1>1. (Row(c) => Row(c)') /\ RowEnd(c)' = RowEnd(c)
  BY RowKept
<1>2. ASSUME Front(c), peer[c] = "fin" => peer'[c] = "fin" PROVE Front(c)'
  <2>1. read'[c] = read[c] /\ Ready(c)' = Ready(c)
        /\ \A n \in Ready(c) : io'[c][n].lo = io[c][n].lo /\ io'[c][n].hi = io[c][n].hi
    BY DEF Keeps, Ready
  <2> QED
    BY <1>1, <1>2, <2>1 DEF Front
<1> QED
  BY <1>1, <1>2 DEF Account

LEMMA BranchKept ==
    ASSUME NEW v \in Workers, Branch(v),
           pc'[v] \in {"send", "close", "free"} =>
              /\ pc'[v] = pc[v] /\ job'[v] = job[v] /\ Held(v)' = Held(v)
              /\ sock[Conn(v)] = "closed" => sock'[Conn(v)] = "closed"
    PROVE  Branch(v)'
BY DEF Branch, Conn

\* If the blocks of c stay as they are, the bytes of c are kept.
LEMMA SameKeeps ==
    ASSUME NEW c \in Clients, io'[c] = io[c], sendq'[c] = sendq[c], out'[c] = out[c],
           read'[c] = read[c]
    PROVE  Keeps(c)
BY DEF Keeps, Ready, InFlight

\* A worker that holds a block has its place and its client.
LEMMA HeldByWorker ==
    ASSUME IInv, NEW v \in Workers, pc[v] \in {"deref", "send", "close", "free", "freeio"}
    PROVE  /\ Conn(v) \in Clients /\ Blk(v) \in DOMAIN io[Conn(v)]
           /\ Held(v).at = "held" /\ Held(v) = io[Conn(v)][Blk(v)]
BY DEF IInv, WorkerHolds, Holding, Held, Conn

LEMMA ClientAccount ==
    ASSUME IInv, AInv, NEW c \in Clients, Client(c)
    PROVE  AInv'
<1>1. UNCHANGED <<sock, handle, read, sendq, out, io, pc, job>>
  BY DEF Client, Connect, Write, Fin, Reset, connVars, dataVars, workerVars
<1>2. \A d \in Clients :
         /\ peer'[d] # "rst" => peer[d] # "rst" /\ (peer[d] = "fin" => peer'[d] = "fin")
         /\ peer[d] \in {"fin", "rst"} => peer'[d] \in {"fin", "rst"}
         /\ sent[d] \in Nat /\ sent'[d] \in Nat /\ sent[d] <= sent'[d]
  <2>1. CASE Write(c)
    BY <2>1 DEF IInv, TypeOK, Write
  <2>2. CASE Connect(c) \/ Fin(c) \/ Reset(c)
    BY <2>2 DEF IInv, TypeOK, Connect, Fin, Reset
  <2> QED
    BY <2>1, <2>2 DEF Client
<1>3. ASSUME NEW d \in Clients PROVE Account(d)'
  <2>1. Keeps(d)
    BY <1>1, SameKeeps
  <2> QED
    BY <1>1, <1>2, <2>1, AccountKept DEF AInv
<1>4. ASSUME NEW d \in Clients PROVE read'[d] <= sent'[d]
  <2>1. read'[d] = read[d] /\ read[d] \in Nat /\ read[d] <= sent[d]
    BY <1>1 DEF IInv, TypeOK, AInv
  <2> QED
    BY <1>2, <2>1
<1>5. \A w \in Workers : Branch(w)'
  BY <1>1 DEF AInv, Branch, Held, Conn, Blk
<1>6. \A d \in Clients : Posted(d)' /\ (sock'[d] = "closed" => peer'[d] \in {"fin", "rst"})
  BY <1>1, <1>2 DEF AInv, Posted
<1> QED
  BY <1>1, <1>3, <1>4, <1>5, <1>6 DEF AInv

\* Nothing of a client that is being accepted was there before.
LEMMA AcceptAccount ==
    ASSUME IInv, AInv, NEW c \in Clients, Accept(c)
    PROVE  AInv'
<1>1. /\ UNCHANGED <<sent, peer, read, sendq, out, pc, job>> /\ sock[c] = "none"
      /\ io \in [Clients -> Seq(Block)] /\ io[c] = <<>>
  BY DEF Accept, IInv, TypeOK, NothingBeforeAccept, clientVars, dataVars, workerVars
<1>2. PICK p \in {"recv", "lost"}, s \in {"bad", "open"} :
         /\ io' = [io EXCEPT ![c] = Append(io[c], NewRecv(p))]
         /\ sock' = [sock EXCEPT ![c] = s]
  BY DEF Accept
<1>3. /\ \A d \in Clients : d # c => io'[d] = io[d] /\ sock'[d] = sock[d]
      /\ sock'[c] \in {"bad", "open"}
      /\ io'[c] = <<NewRecv(p)>>
  BY <1>1, <1>2 DEF IInv, TypeOK
<1>4. Keeps(c)
  <2>1. DOMAIN io[c] = {} /\ DOMAIN io'[c] = {1} /\ io'[c][1] = NewRecv(p)
    BY <1>1, <1>3
  <2>2. Ready(c) = {}
    BY <2>1 DEF Ready
  <2>3. Ready(c)' = {}
    BY <2>1 DEF Ready, InFlight, NewRecv
  <2> QED
    BY <1>1, <2>1, <2>2, <2>3 DEF Keeps
<1>5. ASSUME NEW d \in Clients PROVE Account(d)'
  <2>1. Keeps(d)
    BY <1>1, <1>3, <1>4, SameKeeps
  <2>2. peer'[d] = peer[d] /\ (sock'[d] # "closed" => sock[d] # "closed")
    BY <1>1, <1>3
  <2> QED
    BY <2>1, <2>2, AccountKept DEF AInv
<1>6. ASSUME NEW w \in Workers PROVE Branch(w)'
  <2>1. CASE pc[w] \in {"send", "close", "free"}
    <3>1. Conn(w) \in Clients /\ Blk(w) \in DOMAIN io[Conn(w)]
      BY <2>1, HeldByWorker
    <3>2. Conn(w) # c
      BY <1>1, <3>1
    <3>3. Held(w)' = Held(w) /\ sock'[Conn(w)] = sock[Conn(w)]
      BY <1>1, <1>3, <3>1, <3>2 DEF Held, Conn, Blk
    <3> QED
      BY <1>1, <3>3, BranchKept DEF AInv
  <2>2. CASE pc[w] \notin {"send", "close", "free"}
    BY <1>1, <2>2 DEF Branch
  <2> QED
    BY <2>1, <2>2
<1>7. \A d \in Clients : sock'[d] = "closed" => peer'[d] \in {"fin", "rst"}
  BY <1>1, <1>3 DEF AInv
<1>8. \A d \in Clients : Posted(d)'
  BY <1>3 DEF AInv, Posted, NewRecv
<1> QED
  BY <1>1, <1>5, <1>6, <1>7, <1>8 DEF AInv


\* Workers are not concerned with what the kernel does.
LEMMA KernelBranch ==
    ASSUME IInv, AInv, UNCHANGED <<sock, pc, job>>,
           \A d \in Clients : \A m \in DOMAIN io[d] : io[d][m].at = "held" => io'[d][m] = io[d][m],
           NEW w \in Workers
    PROVE  Branch(w)'
<1>1. CASE pc[w] \in {"send", "close", "free"}
  <2>1. Conn(w) \in Clients /\ Blk(w) \in DOMAIN io[Conn(w)] /\ Held(w).at = "held"
        /\ Held(w) = io[Conn(w)][Blk(w)]
    BY <1>1, HeldByWorker
  <2>2. Held(w)' = Held(w)
    BY <2>1 DEF Held, Conn, Blk
  <2> QED
    BY <2>2, BranchKept DEF AInv
<1>2. CASE pc[w] \notin {"send", "close", "free"}
  BY <1>2 DEF Branch
<1> QED
  BY <1>1, <1>2

\* The kernel completes a receive with the bytes up to hi.
LEMMA CompleteRecv ==
    ASSUME IInv, NEW c \in Clients, NEW n \in DOMAIN io[c], io[c][n].at = "recv",
           NEW lo \in Nat, NEW hi \in Nat, Complete(c, n, lo, hi)
    PROVE  /\ \A d \in Clients : d # c => io'[d] = io[d]
           /\ DOMAIN io'[c] = DOMAIN io[c]
           /\ io'[c][n].at = "done" /\ io'[c][n].lo = lo /\ io'[c][n].hi = hi
           /\ io'[c][n].mode = io[c][n].mode
           /\ \A m \in DOMAIN io[c] : m # n => io'[c][m] = io[c][m]
<1> DEFINE b == [io[c][n] EXCEPT !.at = "done", !.lo = lo, !.hi = hi]
<1>1. io \in [Clients -> Seq(Block)] /\ io[c] \in Seq(Block) /\ io[c][n] \in Block
  BY DEF IInv, TypeOK
<1>2. b \in Block /\ b.at = "done" /\ b.lo = lo /\ b.hi = hi /\ b.mode = io[c][n].mode
  BY <1>1 DEF Block, Places
<1>3. io' = [io EXCEPT ![c] = [io[c] EXCEPT ![n] = b]]
  BY <1>1 DEF Complete
<1> HIDE DEF b
<1>4. /\ DOMAIN io'[c] = DOMAIN io[c] /\ io'[c][n] = b
      /\ \A m \in DOMAIN io[c] : m # n => io'[c][m] = io[c][m]
  BY <1>1, <1>2, <1>3, UpdateBlock
<1>5. \A d \in Clients : d # c => io'[d] = io[d]
  BY <1>1, <1>3
<1> QED
  BY <1>2, <1>4, <1>5 DEF b

\* Received bytes follow those that came before.
LEMMA RecvAccount ==
    ASSUME IInv, AInv, NEW c \in Clients, RecvData(c) \/ RecvEnd(c)
    PROVE  AInv'
<1>1. PICK n \in DOMAIN io[c], hi \in Nat :
         /\ io[c][n].at = "recv" /\ Complete(c, n, read[c], hi)
         /\ read' = [read EXCEPT ![c] = hi]
         /\ read[c] <= hi /\ hi <= sent[c]
         /\ hi = read[c] => peer[c] \in {"fin", "rst"} \/ sock[c] = "closed"
  <2>1. read \in [Clients -> Nat] /\ read[c] <= sent[c] /\ sent[c] \in Nat
    BY DEF IInv, TypeOK, AInv
  <2>2. CASE RecvData(c)
    <3>1. PICK n \in DOMAIN io[c], k \in 1 .. BufSize :
             /\ io[c][n].at = "recv" /\ read[c] + k <= sent[c]
             /\ Complete(c, n, read[c], read[c] + k)
             /\ read' = [read EXCEPT ![c] = @ + k]
      BY <2>2 DEF RecvData
    <3>2. PICK hi \in Nat : hi = read[c] + k /\ read[c] < hi
      BY <2>1, IocpAssumption
    <3>3. /\ Complete(c, n, read[c], hi) /\ read' = [read EXCEPT ![c] = hi]
          /\ read[c] <= hi /\ hi <= sent[c] /\ hi # read[c]
      BY <2>1, <3>1, <3>2
    <3> QED
      BY <3>1, <3>3
  <2>3. CASE RecvEnd(c)
    <3>1. PICK n \in DOMAIN io[c] : io[c][n].at = "recv" /\ Complete(c, n, read[c], read[c])
      BY <2>3 DEF RecvEnd
    <3>2. PICK hi \in Nat : hi = read[c]
      BY <2>1
    <3>3. /\ Complete(c, n, read[c], hi) /\ read' = [read EXCEPT ![c] = hi]
          /\ read[c] <= hi /\ hi <= sent[c]
      BY <2>1, <2>3, <3>1, <3>2 DEF RecvEnd, dataVars
    <3>4. peer[c] \in {"fin", "rst"} \/ sock[c] = "closed"
      BY <2>3 DEF RecvEnd
    <3> QED
      BY <3>1, <3>3, <3>4
  <2> QED
    BY <2>2, <2>3
<1>2. UNCHANGED <<sent, peer, sock, sendq, out, pc, job>> /\ read \in [Clients -> Nat]
  BY DEF RecvData, RecvEnd, IInv, TypeOK, clientVars, connVars, dataVars, workerVars
<1>3. read[c] \in Nat /\ read'[c] = hi /\ \A d \in Clients : d # c => read'[d] = read[d]
  BY <1>1, <1>2
<1>4. /\ \A d \in Clients : d # c => io'[d] = io[d]
      /\ DOMAIN io'[c] = DOMAIN io[c]
      /\ io'[c][n].at = "done" /\ io'[c][n].lo = read[c] /\ io'[c][n].hi = hi
      /\ io'[c][n].mode = io[c][n].mode
      /\ \A m \in DOMAIN io[c] : m # n => io'[c][m] = io[c][m]
  BY <1>1, <1>3, CompleteRecv
<1>5. sendq[c] \in Seq(Nat) /\ \A i \in 1 .. Len(sendq[c]) : Sending(c, i)' = Sending(c, i)
  <2>1. sendq[c] \in Seq(Nat)
    BY DEF IInv, TypeOK
  <2>2. ASSUME NEW i \in 1 .. Len(sendq[c]) PROVE Sending(c, i)' = Sending(c, i)
    <3>1. sendq[c][i] \in DOMAIN io[c] /\ io[c][sendq[c][i]].at = "send"
      BY <2>1 DEF IInv, SendsQueued
    <3> QED
      BY <1>1, <1>2, <1>4, <3>1 DEF Sending
  <2> QED
    BY <2>1, <2>2
<1>6. Row(c) => Row(c)'
  <2> SUFFICES ASSUME Row(c), NEW i \in 1 .. Len(sendq[c])
               PROVE  /\ Sending(c, i)'.lo = IF i = 1 THEN Len(out[c]) ELSE Sending(c, i - 1)'.hi
                      /\ Sending(c, i)'.lo < Sending(c, i)'.hi
                      /\ Sending(c, i)'.hi <= hi
    BY <1>2, <1>3 DEF Row
  <2>1. i # 1 => i - 1 \in 1 .. Len(sendq[c])
    BY <1>5
  <2>2. Sending(c, i).hi \in Nat
    <3>1. sendq[c][i] \in DOMAIN io[c] /\ io[c] \in Seq(Block)
      BY <1>5 DEF IInv, TypeOK, SendsQueued
    <3>2. Sending(c, i) \in Block
      BY <3>1 DEF Sending
    <3> QED
      BY <3>2 DEF Block
  <2>3. Sending(c, i).hi <= hi
    BY <1>1, <1>3, <2>2 DEF Row
  <2> QED
    BY <1>5, <2>1, <2>3 DEF Row
<1>7. RowEnd(c)' = RowEnd(c)
  <2>1. sendq[c] # <<>> => Len(sendq[c]) \in 1 .. Len(sendq[c])
    BY <1>5
  <2> QED
    BY <1>2, <1>5, <2>1 DEF RowEnd
<1>8. ASSUME peer[c] # "rst", sock[c] # "closed", Front(c) PROVE Front(c)'
  <2>1. InFlight(c, n)
    BY <1>1 DEF AInv, Posted, InFlight
  <2>2. Ready(c) = {}
    BY <1>1, <2>1 DEF IInv, OneReceive, Ready
  <2>3. Ready(c)' = {n}
    BY <1>1, <1>4, <2>1, <2>2 DEF Ready, InFlight
  <2>4. RowEnd(c)' = read[c]
    BY <1>7, <1>8, <2>2 DEF Front
  <2>5. peer'[c] = peer[c] /\ (hi = read[c] => peer[c] = "fin")
    BY <1>1, <1>2, <1>8
  <2> QED
    BY <1>1, <1>3, <1>4, <2>3, <2>4, <2>5 DEF Front
<1>9. ASSUME NEW d \in Clients PROVE Account(d)'
  <2>1. CASE d = c
    BY <1>2, <1>6, <1>8, <2>1 DEF AInv, Account
  <2>2. CASE d # c
    <3>1. Keeps(d)
      BY <1>2, <1>3, <1>4, <2>2, SameKeeps
    <3> QED
      BY <1>2, <3>1, AccountKept DEF AInv
  <2> QED
    BY <2>1, <2>2
<1>10. \A w \in Workers : Branch(w)'
  <2>1. \A d \in Clients : \A m \in DOMAIN io[d] : io[d][m].at = "held" => io'[d][m] = io[d][m]
    BY <1>1, <1>4
  <2> QED
    BY <1>2, <2>1, KernelBranch
<1>11. \A d \in Clients : read'[d] <= sent'[d]
  BY <1>1, <1>2, <1>3 DEF AInv
<1>12. \A d \in Clients : Posted(d)'
  BY <1>4 DEF AInv, Posted
<1> QED
  BY <1>2, <1>9, <1>10, <1>11, <1>12 DEF AInv


\* The pieces of a stream: their type and length.
LEMMA BytesLen ==
    ASSUME NEW from \in Nat, NEW to \in Nat, from <= to
    PROVE  Bytes(from, to) \in Seq(Nat) /\ Len(Bytes(from, to)) = to - from
<1>1. to - from \in Nat
  OBVIOUS
<1>2. Bytes(from, to) \in Seq(Nat) /\ DOMAIN Bytes(from, to) = 1 .. to - from
  BY <1>1 DEF Bytes
<1>3. /\ Len(Bytes(from, to)) \in Nat
      /\ 1 .. Len(Bytes(from, to)) = 1 .. to - from
  BY <1>2
<1>4. ASSUME NEW m \in Nat, NEW n \in Nat, 1 .. m = 1 .. n PROVE m <= n
  <2>1. m = 0 \/ m \in 1 .. m
    OBVIOUS
  <2>2. m = 0 \/ m \in 1 .. n
    BY <1>4, <2>1
  <2> QED
    BY <2>2
<1>5. Len(Bytes(from, to)) <= to - from /\ to - from <= Len(Bytes(from, to))
  BY <1>1, <1>3, <1>4
<1> QED
  BY <1>1, <1>2, <1>3, <1>5

\* Two adjacent pieces make one.
LEMMA BytesJoin ==
    ASSUME NEW m \in Nat, NEW n \in Nat, m <= n
    PROVE  Bytes(0, m) \o Bytes(m, n) = Bytes(0, n)
<1>1. PICK s \in Seq(Nat) : s = Bytes(0, m) /\ Len(s) = m
  <2>1. 0 \in Nat /\ 0 <= m /\ m - 0 = m
    OBVIOUS
  <2> QED
    BY <2>1, BytesLen
<1>2. PICK t \in Seq(Nat) : t = Bytes(m, n) /\ Len(t) = n - m
  BY BytesLen
<1>3. PICK u \in Seq(Nat) : u = Bytes(0, n) /\ Len(u) = n
  <2>1. 0 \in Nat /\ 0 <= n /\ n - 0 = n
    OBVIOUS
  <2> QED
    BY <2>1, BytesLen
<1>4. s \o t \in Seq(Nat) /\ Len(s \o t) = Len(u)
  BY <1>1, <1>2, <1>3, ConcatProperties
<1>5. ASSUME NEW i \in 1 .. n PROVE (s \o t)[i] = u[i]
  <2>1. u[i] = i
    BY <1>3 DEF Bytes
  <2>2. CASE i <= m
    <3>1. i \in 1 .. m /\ (s \o t)[i] = s[i]
      BY <1>1, <1>2, <2>2, ConcatProperties
    <3> QED
      BY <1>1, <2>1, <3>1 DEF Bytes
  <2>3. CASE ~(i <= m)
    <3>1. i - m \in 1 .. n - m /\ (s \o t)[i] = t[i - m]
      BY <1>1, <1>2, <2>3, ConcatProperties
    <3>2. t[i - m] = m + (i - m)
      BY <1>2, <3>1 DEF Bytes
    <3> QED
      BY <2>1, <3>1, <3>2
  <2> QED
    BY <2>2, <2>3
<1>6. s \o t = u
  BY <1>3, <1>4, <1>5, SeqEqual
<1> QED
  BY <1>1, <1>2, <1>3, <1>6

\* What the oldest pending send delivers goes on where the replies end.
LEMMA SendDelivers ==
    ASSUME IInv, AInv, NEW c \in Clients, SendDone(c)
    PROVE  LET n == Sending(c, 1).hi
           IN  /\ n \in Nat /\ Len(out[c]) < n /\ n <= read[c]
               /\ out' = [out EXCEPT ![c] = out[c] \o Bytes(Len(out[c]), n)]
               /\ Len(out'[c]) = n /\ out'[c] = Bytes(0, n)
<1> DEFINE b == Sending(c, 1)
<1>1. /\ sendq[c] \in Seq(Nat) /\ sendq[c] # <<>> /\ peer[c] # "rst"
      /\ out' = [out EXCEPT ![c] = @ \o Bytes(io[c][Head(sendq[c])].lo, io[c][Head(sendq[c])].hi)]
      /\ out \in [Clients -> Seq(Nat)]
  BY DEF SendDone, IInv, TypeOK
<1>2. 1 \in 1 .. Len(sendq[c]) /\ Head(sendq[c]) = sendq[c][1]
  BY <1>1
<1>3. b.lo = Len(out[c]) /\ b.lo < b.hi /\ b.hi <= read[c]
  BY <1>1, <1>2 DEF AInv, Account, Row
<1>4. out' = [out EXCEPT ![c] = @ \o Bytes(b.lo, b.hi)]
  BY <1>1, <1>2 DEF Sending
<1>5. b.hi \in Nat
  <2>1. sendq[c][1] \in DOMAIN io[c] /\ io[c] \in Seq(Block)
    BY <1>1, <1>2 DEF IInv, SendsQueued, TypeOK
  <2>2. b \in Block
    BY <2>1 DEF Sending
  <2> QED
    BY <2>2 DEF Block
<1>6. PICK n \in Nat : n = b.hi
  BY <1>5
<1> HIDE DEF b
<1>7. Len(out[c]) \in Nat /\ out[c] \in Seq(Nat) /\ Len(out[c]) < n /\ Len(out[c]) <= n
  BY <1>1, <1>3, <1>6
<1>8. PICK new \in Seq(Nat) : new = Bytes(Len(out[c]), n) /\ Len(new) = n - Len(out[c])
  BY <1>7, BytesLen
<1>9. Len(out[c] \o new) = n
  <2>1. Len(out[c] \o new) = Len(out[c]) + Len(new)
    BY <1>7, SMTT(60)
  <2> QED
    BY <1>7, <1>8, <2>1
<1>10. out' = [out EXCEPT ![c] = out[c] \o new] /\ out'[c] = out[c] \o new
  BY <1>1, <1>3, <1>4, <1>6, <1>8
<1>11. out'[c] = Bytes(0, n)
  <2>1. out[c] = Bytes(0, Len(out[c]))
    BY DEF AInv
  <2> QED
    BY <1>7, <1>8, <1>10, <2>1, BytesJoin
<1> QED
  BY <1>3, <1>6, <1>7, <1>8, <1>9, <1>10, <1>11 DEF b

\* The rest of the row moves up.
LEMMA SendDoneAccount ==
    ASSUME IInv, AInv, NEW c \in Clients, SendDone(c)
    PROVE  AInv'
<1> DEFINE n == Head(sendq[c])
           b == [io[c][n] EXCEPT !.at = "done"]
           t == Tail(sendq[c])
<1>1. /\ io \in [Clients -> Seq(Block)] /\ sendq[c] \in Seq(Nat) /\ sendq[c] # <<>>
      /\ peer[c] # "rst"
      /\ sendq' = [sendq EXCEPT ![c] = t] /\ sendq \in [Clients -> Seq(Nat)]
      /\ io' = [io EXCEPT ![c] = [io[c] EXCEPT ![n] = b]]
      /\ UNCHANGED <<sent, peer, sock, read, pc, job>>
  BY DEF SendDone, IInv, TypeOK, clientVars, connVars, workerVars
<1>2. /\ n = sendq[c][1] /\ 1 \in DOMAIN sendq[c]
      /\ t \in Seq(Nat) /\ Len(t) = Len(sendq[c]) - 1 /\ Len(sendq[c]) \in Nat \ {0}
      /\ \A i \in 1 .. Len(t) : i + 1 \in 2 .. Len(sendq[c]) /\ t[i] = sendq[c][i + 1] /\ i \in Nat
  BY <1>1
<1>3. n \in DOMAIN io[c] /\ io[c][n] \in Block /\ io[c][n].at = "send" /\ io[c][n].mode = "WRITE"
  <2>1. n \in DOMAIN io[c] /\ io[c][n].at = "send" /\ io[c][n].mode = "WRITE"
    BY <1>2 DEF IInv, SendsQueued
  <2> QED
    BY <1>1, <2>1
<1>4. b \in Block /\ b.at = "done" /\ b.mode = "WRITE"
  BY <1>3 DEF Block, Places
<1>5. /\ \A d \in Clients : DOMAIN io'[d] = DOMAIN io[d]
      /\ io'[c][n] = b
      /\ \A d \in Clients : \A m \in DOMAIN io[d] : d # c \/ m # n => io'[d][m] = io[d][m]
  <2> HIDE DEF b, n
  <2> QED BY <1>1, <1>3, <1>4, UpdateBlock
<1>6. \A d \in Clients : d # c => io'[d] = io[d] /\ sendq'[d] = sendq[d] /\ out'[d] = out[d]
  BY <1>1, SendDelivers DEF IInv, TypeOK
<1>7. sendq'[c] = t
  BY <1>1
<1> HIDE DEF b, n, t
<1>8. Sending(c, 1).hi = Len(out'[c])
  BY SendDelivers
<1>9. ASSUME NEW i \in 1 .. Len(t) PROVE Sending(c, i)' = Sending(c, i + 1)
  <2>1. sendq'[c][i] = sendq[c][i + 1] /\ i + 1 \in DOMAIN sendq[c] /\ i + 1 # 1
    BY <1>1, <1>2, <1>7
  <2>2. sendq[c][i + 1] # n /\ sendq[c][i + 1] \in DOMAIN io[c]
    BY <1>2, <2>1 DEF IInv, SendsQueued
  <2> QED
    BY <1>5, <2>1, <2>2 DEF Sending
<1>10. Row(c)
  BY <1>1 DEF AInv, Account
<1>11. Row(c)'
  <2> SUFFICES ASSUME NEW i \in 1 .. Len(t)
               PROVE  /\ Sending(c, i)'.lo = IF i = 1 THEN Len(out'[c]) ELSE Sending(c, i - 1)'.hi
                      /\ Sending(c, i)'.lo < Sending(c, i)'.hi
                      /\ Sending(c, i)'.hi <= read[c]
    BY <1>1, <1>7 DEF Row
  <2>1. i + 1 \in 1 .. Len(sendq[c]) /\ i + 1 # 1 /\ i + 1 - 1 = i /\ i \in Nat
    BY <1>2
  <2>2. /\ Sending(c, i + 1).lo = Sending(c, i).hi
        /\ Sending(c, i + 1).lo < Sending(c, i + 1).hi
        /\ Sending(c, i + 1).hi <= read[c]
    BY <1>10, <2>1 DEF Row
  <2>3. i # 1 => i - 1 \in 1 .. Len(t) /\ i - 1 + 1 = i
    BY <1>2
  <2>4. i # 1 => Sending(c, i - 1)' = Sending(c, i)
    BY <1>9, <2>3
  <2> QED
    BY <1>8, <1>9, <2>2, <2>4
<1>12. RowEnd(c)' = RowEnd(c)
  <2>1. CASE t = <<>>
    <3>1. Len(sendq[c]) = 1
      BY <1>2, <2>1
    <3> QED
      BY <1>1, <1>7, <1>8, <2>1, <3>1 DEF RowEnd
  <2>2. CASE t # <<>>
    <3>1. PICK k \in 1 .. Len(t) : k = Len(t) /\ k + 1 = Len(sendq[c])
      BY <1>2, <2>2
    <3>2. Sending(c, k)' = Sending(c, k + 1)
      BY <1>9
    <3>3. RowEnd(c)' = Sending(c, k)'.hi
      BY <1>7, <2>2, <3>1 DEF RowEnd, Sending
    <3> QED
      BY <1>1, <3>1, <3>2, <3>3 DEF RowEnd
  <2> QED
    BY <2>1, <2>2
<1>13. Front(c) => Front(c)'
  <2>1. Ready(c)' = Ready(c) /\ \A m \in Ready(c) : m # n /\ io'[c][m] = io[c][m]
    BY <1>3, <1>4, <1>5 DEF Ready, InFlight
  <2> QED
    BY <1>1, <1>12, <2>1 DEF Front
<1>14. ASSUME NEW d \in Clients PROVE Account(d)'
  <2>1. CASE d = c
    BY <1>1, <1>11, <1>13, <2>1 DEF AInv, Account
  <2>2. CASE d # c
    <3>1. Keeps(d)
      BY <1>1, <1>6, <2>2, SameKeeps
    <3> QED
      BY <1>1, <3>1, AccountKept DEF AInv
  <2> QED
    BY <2>1, <2>2
<1>15. \A w \in Workers : Branch(w)'
  <2>1. \A d \in Clients : \A m \in DOMAIN io[d] : io[d][m].at = "held" => io'[d][m] = io[d][m]
    BY <1>3, <1>5
  <2> QED
    BY <1>1, <2>1, KernelBranch
<1>16. \A d \in Clients : Posted(d)'
  BY <1>4, <1>5 DEF AInv, Posted
<1>17. \A d \in Clients : out'[d] = Bytes(0, Len(out'[d]))
  BY <1>6, SendDelivers DEF AInv
<1> QED
  BY <1>1, <1>14, <1>15, <1>16, <1>17 DEF AInv

\* The row is cleared only on a connection that is gone.
LEMMA SendAbortAccount ==
    ASSUME IInv, AInv, NEW c \in Clients, SendAbort(c)
    PROVE  AInv'
<1>1. /\ UNCHANGED <<sent, peer, sock, read, out, pc, job>>
      /\ peer[c] = "rst" \/ sock[c] = "closed"
      /\ sendq' = [sendq EXCEPT ![c] = <<>>] /\ sendq \in [Clients -> Seq(Nat)]
      /\ io \in [Clients -> Seq(Block)]
  BY DEF SendAbort, IInv, TypeOK, clientVars, connVars, workerVars
<1>2. /\ \A d \in Clients : d # c => io'[d] = io[d] /\ sendq'[d] = sendq[d]
      /\ sendq'[c] = <<>>
  BY <1>1 DEF SendAbort
<1>3. DOMAIN io'[c] = DOMAIN io[c] /\ \A m \in DOMAIN io[c] :
         \/ io'[c][m] = io[c][m]
         \/ io[c][m].at = "send" /\ io'[c][m] = [io[c][m] EXCEPT !.at = "done"]
  <2> DEFINE mv(m) == IF io[c][m].at = "send" THEN [io[c][m] EXCEPT !.at = "done"] ELSE io[c][m]
  <2>1. io'[c] = [m \in DOMAIN io[c] |-> mv(m)]
    BY <1>1 DEF SendAbort
  <2> QED
    BY <2>1
<1>4. \A m \in DOMAIN io[c] :
         /\ io[c][m].at = "held" => io'[c][m] = io[c][m]
         /\ io'[c][m].at = "recv" => io'[c][m] = io[c][m]
  <2> SUFFICES ASSUME NEW m \in DOMAIN io[c], io[c][m].at = "send",
                      io'[c][m] = [io[c][m] EXCEPT !.at = "done"]
               PROVE  io'[c][m].at = "done"
    BY <1>3
  <2>1. io[c][m] \in Block
    BY <1>1
  <2> QED
    BY <2>1 DEF Block
<1>5. ASSUME NEW d \in Clients PROVE Account(d)'
  <2>1. CASE d = c
    <3>1. Row(c)'
      BY <1>2 DEF Row
    <3> QED
      BY <1>1, <2>1, <3>1 DEF Account
  <2>2. CASE d # c
    <3>1. Keeps(d)
      BY <1>1, <1>2, <2>2, SameKeeps
    <3> QED
      BY <1>1, <3>1, AccountKept DEF AInv
  <2> QED
    BY <2>1, <2>2
<1>6. \A w \in Workers : Branch(w)'
  <2>1. ASSUME NEW d \in Clients, NEW m \in DOMAIN io[d], io[d][m].at = "held"
        PROVE  io'[d][m] = io[d][m]
    <3>1. CASE d = c
      BY <1>4, <2>1, <3>1
    <3>2. CASE d # c
      BY <1>2, <3>2
    <3> QED
      BY <3>1, <3>2
  <2> QED
    BY <1>1, <2>1, KernelBranch
<1>7. ASSUME NEW d \in Clients PROVE Posted(d)'
  <2>1. CASE d = c
    BY <1>3, <1>4, <2>1 DEF AInv, Posted
  <2>2. CASE d # c
    BY <1>2, <2>2 DEF AInv, Posted
  <2> QED
    BY <2>1, <2>2
<1> QED
  BY <1>1, <1>5, <1>6, <1>7 DEF AInv


\* Taking a block out of the port leaves the bytes in it alone.
LEMMA DequeueAccount ==
    ASSUME IInv, AInv, NEW w \in Workers, Dequeue(w)
    PROVE  AInv'
<1>1. PICK c \in Clients : \E n \in DOMAIN io[c] :
         /\ io[c][n].at = "done"
         /\ io' = [io EXCEPT ![c][n].at = "held"]
         /\ job' = [job EXCEPT ![w] = <<c, n>>]
  BY DEF Dequeue
<1>2. PICK n \in DOMAIN io[c] :
         /\ io[c][n].at = "done"
         /\ io' = [io EXCEPT ![c][n].at = "held"]
         /\ job' = [job EXCEPT ![w] = <<c, n>>]
  BY <1>1
<1>3. /\ pc' = [pc EXCEPT ![w] = "deref"] /\ UNCHANGED <<sent, peer, sock, read, sendq, out>>
      /\ io \in [Clients -> Seq(Block)] /\ io[c] \in Seq(Block) /\ io[c][n] \in Block
      /\ pc \in [Workers -> PCs] /\ job \in [Workers -> {NoJob} \cup (Clients \X Nat)]
  BY DEF Dequeue, IInv, TypeOK, clientVars, connVars, dataVars
<1> DEFINE b == [io[c][n] EXCEPT !.at = "held"]
<1>4. /\ b \in Block /\ b.at = "held" /\ b.mode = io[c][n].mode
      /\ b.lo = io[c][n].lo /\ b.hi = io[c][n].hi
  BY <1>3 DEF Block, Places
<1>5. io' = [io EXCEPT ![c] = [io[c] EXCEPT ![n] = b]]
  BY <1>2, <1>3
<1>6. /\ \A d \in Clients : DOMAIN io'[d] = DOMAIN io[d]
      /\ io'[c][n] = b
      /\ \A d \in Clients : \A m \in DOMAIN io[d] : d # c \/ m # n => io'[d][m] = io[d][m]
  <2> HIDE DEF b
  <2> QED BY <1>3, <1>4, <1>5, UpdateBlock
<1> HIDE DEF b
<1>7. ASSUME NEW d \in Clients PROVE Account(d)' /\ Posted(d)'
  <2>1. Ready(d)' = Ready(d)
    BY <1>2, <1>4, <1>6 DEF Ready, InFlight
  <2>2. Keeps(d)
    BY <1>3, <1>4, <1>6, <2>1 DEF Keeps
  <2>3. Account(d)'
    BY <1>3, <2>2, AccountKept DEF AInv
  <2>4. Posted(d)'
    BY <1>4, <1>6 DEF AInv, Posted
  <2> QED
    BY <2>3, <2>4
<1>8. ASSUME NEW v \in Workers PROVE Branch(v)'
  <2>1. CASE v = w
    BY <1>3, <2>1 DEF Branch
  <2>2. CASE v # w /\ pc[v] \in {"send", "close", "free"}
    <3>1. /\ Conn(v) \in Clients /\ Blk(v) \in DOMAIN io[Conn(v)]
          /\ Held(v).at = "held" /\ Held(v) = io[Conn(v)][Blk(v)]
      BY <2>2, HeldByWorker
    <3>2. Conn(v) # c \/ Blk(v) # n
      BY <1>2, <3>1
    <3>3. io'[Conn(v)][Blk(v)] = Held(v)
      BY <1>6, <3>1, <3>2
    <3>4. pc'[v] = pc[v] /\ job'[v] = job[v]
      BY <1>2, <1>3, <2>2
    <3>5. Held(v)' = Held(v)
      BY <3>3, <3>4 DEF Held, Conn, Blk
    <3> QED
      BY <1>3, <3>4, <3>5, BranchKept DEF AInv
  <2>3. CASE v # w /\ pc[v] \notin {"send", "close", "free"}
    BY <1>3, <2>3 DEF Branch
  <2> QED
    BY <2>1, <2>2, <2>3
<1> QED
  BY <1>3, <1>7, <1>8 DEF AInv

\* The branch is taken on the block that is held.
LEMMA DerefAccount ==
    ASSUME IInv, AInv, NEW w \in Workers, Deref(w)
    PROVE  AInv'
<1>1. UNCHANGED <<sent, peer, sock, read, sendq, out, io, job>> /\ pc \in [Workers -> PCs]
  BY DEF Deref, IInv, TypeOK, clientVars, connVars, dataVars
<1>2. /\ \A v \in Workers : v # w => pc'[v] = pc[v]
      /\ pc'[w] \in {"freeio", "close", "send"}
      /\ pc'[w] = "send" => Held(w).lo # Held(w).hi
      /\ pc'[w] = "close" => Held(w).lo = Held(w).hi
  BY <1>1 DEF Deref
<1>3. \A v \in Workers : Held(v)' = Held(v) /\ Conn(v)' = Conn(v)
  BY <1>1 DEF Held, Conn, Blk
<1>4. \A v \in Workers : Branch(v)'
  BY <1>1, <1>2, <1>3 DEF AInv, Branch
<1>5. ASSUME NEW d \in Clients PROVE Account(d)' /\ Posted(d)'
  <2>1. Keeps(d)
    BY <1>1, SameKeeps
  <2> QED
    BY <1>1, <2>1, AccountKept DEF AInv, Posted
<1> QED
  BY <1>1, <1>4, <1>5 DEF AInv

\* A worker that holds a block and then no longer has it does not disturb the
\* others, who hold other blocks.
LEMMA OthersBranch ==
    ASSUME IInv, AInv, NEW w \in Workers, Holding(w),
           \A v \in Workers : v # w => pc'[v] = pc[v] /\ job'[v] = job[v],
           UNCHANGED sock,
           \A d \in Clients : \A m \in DOMAIN io[d] :
              d # Conn(w) \/ m # Blk(w) => io'[d][m] = io[d][m],
           NEW v \in Workers, v # w
    PROVE  Branch(v)'
<1>1. CASE pc[v] \in {"send", "close", "free"}
  <2>1. /\ Conn(v) \in Clients /\ Blk(v) \in DOMAIN io[Conn(v)]
        /\ Held(v) = io[Conn(v)][Blk(v)]
    BY <1>1, HeldByWorker
  <2>2. job[v] # job[w]
    BY <1>1 DEF IInv, HoldersDistinct, Holding
  <2>3. Conn(v) # Conn(w) \/ Blk(v) # Blk(w)
    BY <1>1, <2>2 DEF IInv, WorkerHolds, Holding, Conn, Blk
  <2>4. io'[Conn(v)][Blk(v)] = Held(v)
    BY <2>1, <2>3
  <2>5. Held(v)' = Held(v)
    BY <2>4 DEF Held, Conn, Blk
  <2> QED
    BY <2>5, BranchKept DEF AInv
<1>2. CASE pc[v] \notin {"send", "close", "free"}
  BY <1>2 DEF Branch
<1> QED
  BY <1>1, <1>2

\* The block a worker sends comes last in the row.
LEMMA PostSendAccount ==
    ASSUME IInv, AInv, NEW w \in Workers, PostSend(w)
    PROVE  AInv'
<1>1. /\ pc[w] = "send" /\ pc' = [pc EXCEPT ![w] = "recv"]
      /\ UNCHANGED <<sent, peer, sock, read, out, job>>
      /\ pc \in [Workers -> PCs] /\ io \in [Clients -> Seq(Block)]
      /\ sendq \in [Clients -> Seq(Nat)]
  BY DEF PostSend, IInv, TypeOK, clientVars, connVars
<1>1a. PICK c \in Clients, n \in Nat : c = Conn(w) /\ n = Blk(w) /\ n \in DOMAIN io[c]
  <2>1. Conn(w) \in Clients /\ Blk(w) \in DOMAIN io[Conn(w)] /\ io[Conn(w)] \in Seq(Block)
    BY <1>1, HeldByWorker
  <2>2. Blk(w) \in Nat
    BY <2>1
  <2> QED
    BY <2>1, <2>2
<1>2. /\ InFlight(c, n)
      /\ \A m \in DOMAIN io[c] : InFlight(c, m) => m = n
      /\ sock[c] = "open" /\ Held(w).at = "held" /\ Held(w) = io[c][n]
  BY <1>1, <1>1a, SoleOwner, HeldByWorker DEF IInv, ReceiveAlive
<1>3. io[c][n] \in Block /\ n \in Nat /\ io[c] \in Seq(Block)
  BY <1>1, <1>1a
<1>4. PICK p \in {"send", "lost"} :
         /\ io' = [io EXCEPT ![c] = [io[c] EXCEPT ![n] =
                      [io[c][n] EXCEPT !.at = p, !.mode = "WRITE"]]]
         /\ p = "send" => sendq' = [sendq EXCEPT ![c] = Append(sendq[c], n)]
         /\ p = "lost" => sendq' = sendq /\ peer[c] = "rst"
  BY <1>1a, <1>2, <1>3 DEF PostSend
<1> DEFINE b == [io[c][n] EXCEPT !.at = p, !.mode = "WRITE"]
<1>5. /\ b \in Block /\ b.at = p /\ b.mode = "WRITE"
      /\ b.lo = io[c][n].lo /\ b.hi = io[c][n].hi
  BY <1>3 DEF Block, Places
<1>6. /\ \A d \in Clients : DOMAIN io'[d] = DOMAIN io[d]
      /\ io'[c][n] = b
      /\ \A d \in Clients : \A m \in DOMAIN io[d] : d # c \/ m # n => io'[d][m] = io[d][m]
  <2>1. io' = [io EXCEPT ![c] = [io[c] EXCEPT ![n] = b]]
    BY <1>4
  <2> HIDE DEF b
  <2> QED BY <1>1, <1>1a, <1>5, <2>1, UpdateBlock
<1>7. \A d \in Clients : d # c => io'[d] = io[d] /\ sendq'[d] = sendq[d]
  BY <1>1, <1>4
<1> HIDE DEF b
<1>8. ASSUME p = "send", peer[c] # "rst" PROVE Row(c)' /\ Front(c)'
  <2>1. PICK k \in Nat : k = Len(sendq[c]) + 1
    BY <1>1, <1>2
  <2>2. /\ sendq[c] \in Seq(Nat) /\ sendq'[c] = Append(sendq[c], n)
        /\ Len(sendq'[c]) = k /\ sendq'[c][k] = n
        /\ \A i \in 1 .. Len(sendq[c]) : sendq'[c][i] = sendq[c][i]
        /\ sendq'[c] # <<>> /\ k - 1 = Len(sendq[c])
    BY <1>1, <1>2, <1>3, <1>4, <1>8, <2>1
  <2>3. ASSUME NEW i \in 1 .. Len(sendq[c]) PROVE Sending(c, i)' = Sending(c, i)
    <3>1. sendq[c][i] \in DOMAIN io[c] /\ io[c][sendq[c][i]].at = "send"
      BY <1>2, <2>2 DEF IInv, SendsQueued
    <3>2. sendq[c][i] # n
      BY <1>2, <3>1
    <3> QED
      BY <1>2, <1>6, <2>2, <3>1, <3>2 DEF Sending
  <2>4. Sending(c, k)' = b
    BY <1>6, <2>2 DEF Sending
  <2>5. Row(c) /\ Front(c) /\ n \in Ready(c)
    BY <1>1a, <1>2, <1>8 DEF AInv, Account, Ready
  <2>6. b.lo = RowEnd(c) /\ b.hi = read[c] /\ b.lo < b.hi
    <3>1. io[c][n].lo = RowEnd(c) /\ io[c][n].hi = read[c] /\ RowEnd(c) <= read[c]
      BY <2>5 DEF Front
    <3>2. io[c][n].lo # io[c][n].hi
      BY <1>1, <1>2 DEF AInv, Branch
    <3>3. io[c][n].lo \in Nat /\ io[c][n].hi \in Nat
      BY <1>3 DEF Block
    <3> QED
      BY <1>5, <3>1, <3>2, <3>3
  <2>7. Row(c)'
    <3> SUFFICES ASSUME NEW i \in 1 .. k
                 PROVE  /\ Sending(c, i)'.lo = IF i = 1 THEN Len(out[c]) ELSE Sending(c, i - 1)'.hi
                        /\ Sending(c, i)'.lo < Sending(c, i)'.hi
                        /\ Sending(c, i)'.hi <= read[c]
      BY <1>1, <2>2 DEF Row
    <3>1. CASE i = k
      <4>1. i # 1 => i - 1 \in 1 .. Len(sendq[c]) /\ i - 1 = Len(sendq[c])
        BY <2>1, <3>1
      <4>2. RowEnd(c) = IF i = 1 THEN Len(out[c]) ELSE Sending(c, i - 1).hi
        BY <2>2, <3>1, <4>1 DEF RowEnd
      <4>3. read[c] \in Nat /\ Sending(c, i)' = b
        BY <1>2, <2>4, <3>1 DEF IInv, TypeOK
      <4> QED
        BY <2>3, <2>6, <4>1, <4>2, <4>3
    <3>2. CASE i # k
      <4>1. i \in 1 .. Len(sendq[c]) /\ (i # 1 => i - 1 \in 1 .. Len(sendq[c]))
        BY <2>1, <2>2, <3>2
      <4> QED
        BY <2>3, <2>5, <4>1 DEF Row
    <3> QED
      BY <3>1, <3>2
  <2>8. RowEnd(c)' = read[c]
    BY <2>2, <2>4, <2>6 DEF RowEnd, Sending
  <2>9. Ready(c)' = {}
    BY <1>2, <1>5, <1>6, <1>8 DEF Ready, InFlight
  <2> QED
    BY <1>1, <2>7, <2>8, <2>9 DEF Front
<1>9. ASSUME NEW d \in Clients PROVE Account(d)'
  <2>1. CASE d = c
    BY <1>1, <1>4, <1>8, <2>1 DEF Account
  <2>2. CASE d # c
    <3>1. Keeps(d)
      BY <1>1, <1>7, <2>2, SameKeeps
    <3> QED
      BY <1>1, <3>1, AccountKept DEF AInv
  <2> QED
    BY <2>1, <2>2
<1>10. ASSUME NEW v \in Workers PROVE Branch(v)'
  <2>1. CASE v = w
    BY <1>1, <2>1 DEF Branch
  <2>2. CASE v # w
    BY <1>1, <1>1a, <1>6, <2>2, OthersBranch DEF Holding
  <2> QED
    BY <2>1, <2>2
<1>11. \A d \in Clients : Posted(d)'
  BY <1>5, <1>6 DEF AInv, Posted
<1> QED
  BY <1>1, <1>9, <1>10, <1>11 DEF AInv


\* A new receive has no bytes yet.
LEMMA PostRecvAccount ==
    ASSUME IInv, AInv, NEW w \in Workers, PostRecv(w)
    PROVE  AInv'
<1>1. /\ pc[w] = "recv" /\ pc' = [pc EXCEPT ![w] = "idle"]
      /\ job' = [job EXCEPT ![w] = NoJob]
      /\ UNCHANGED <<sent, peer, sock, read, sendq, out>>
      /\ pc \in [Workers -> PCs] /\ job \in [Workers -> {NoJob} \cup (Clients \X Nat)]
      /\ io \in [Clients -> Seq(Block)]
  BY DEF PostRecv, IInv, TypeOK, clientVars, connVars, dataVars
<1>2. PICK c \in Clients : c = Conn(w)
  BY <1>1 DEF IInv, WorkerHolds, Conn
<1>3. PICK p \in {"recv", "lost"} : io' = [io EXCEPT ![c] = Append(io[c], NewRecv(p))]
  BY <1>2 DEF PostRecv
<1> DEFINE b == NewRecv(p)
           k == Len(io[c]) + 1
<1>4. b \in Block /\ b.at \in {"recv", "lost"} /\ b.mode = "READ"
  BY DEF NewRecv, Block, Places
<1>5. /\ \A d \in Clients : d # c => io'[d] = io[d]
      /\ DOMAIN io'[c] = DOMAIN io[c] \cup {k} /\ k \notin DOMAIN io[c]
      /\ io'[c][k] = b
      /\ \A d \in Clients : \A m \in DOMAIN io[d] : m \in DOMAIN io'[d] /\ io'[d][m] = io[d][m]
  <2>1. io' = [io EXCEPT ![c] = Append(io[c], b)]
    BY <1>3
  <2> HIDE DEF b
  <2> QED BY <1>1, <1>4, <2>1, AppendBlock
<1> HIDE DEF b, k
<1>6. ASSUME NEW d \in Clients PROVE Account(d)' /\ Posted(d)'
  <2>1. Ready(d)' = Ready(d)
    <3>1. CASE d # c
      BY <1>5, <3>1 DEF Ready, InFlight
    <3>2. CASE d = c
      <4>1. b.at \notin {"done", "held"}
        BY <1>4
      <4> QED
        BY <1>5, <3>2, <4>1 DEF Ready, InFlight
    <3> QED
      BY <3>1, <3>2
  <2>2. Keeps(d)
    BY <1>1, <1>5, <2>1 DEF Keeps, Ready
  <2>3. Account(d)'
    BY <1>1, <2>2, AccountKept DEF AInv
  <2>4. Posted(d)'
    BY <1>4, <1>5 DEF AInv, Posted
  <2> QED
    BY <2>3, <2>4
<1>7. ASSUME NEW v \in Workers PROVE Branch(v)'
  <2>1. CASE v = w
    BY <1>1, <2>1 DEF Branch
  <2>2. CASE v # w /\ pc[v] \in {"send", "close", "free"}
    <3>1. /\ Conn(v) \in Clients /\ Blk(v) \in DOMAIN io[Conn(v)]
          /\ Held(v) = io[Conn(v)][Blk(v)]
      BY <2>2, HeldByWorker
    <3>2. pc'[v] = pc[v] /\ job'[v] = job[v] /\ io'[Conn(v)][Blk(v)] = Held(v)
      BY <1>1, <1>5, <2>2, <3>1
    <3>3. Held(v)' = Held(v)
      BY <3>2 DEF Held, Conn, Blk
    <3> QED
      BY <1>1, <3>2, <3>3, BranchKept DEF AInv
  <2>3. CASE v # w /\ pc[v] \notin {"send", "close", "free"}
    BY <1>1, <2>3 DEF Branch
  <2> QED
    BY <2>1, <2>2, <2>3
<1> QED
  BY <1>1, <1>6, <1>7 DEF AInv

\* A connection is closed after a receive of no bytes: its client has left.
LEMMA CloseSockAccount ==
    ASSUME IInv, AInv, NEW w \in Workers, CloseSock(w)
    PROVE  AInv'
<1>1. /\ pc[w] = "close" /\ pc' = [pc EXCEPT ![w] = "free"] /\ pc \in [Workers -> PCs]
      /\ UNCHANGED <<sent, peer, read, sendq, out, io, job>>
      /\ sock \in [Clients -> {"none", "bad", "open", "closed"}]
  BY DEF CloseSock, IInv, TypeOK, clientVars, dataVars
<1>2. PICK c \in Clients : c = Conn(w) /\ sock' = [sock EXCEPT ![c] = "closed"]
  BY <1>1, HeldByWorker DEF CloseSock
<1>3. sock'[c] = "closed" /\ \A d \in Clients : d # c => sock'[d] = sock[d]
  BY <1>1, <1>2
<1>4. peer[c] \in {"fin", "rst"}
  <2> SUFFICES ASSUME peer[c] # "rst" PROVE peer[c] = "fin"
    OBVIOUS
  <2>1. /\ Blk(w) \in DOMAIN io[c] /\ InFlight(c, Blk(w)) /\ sock[c] = "open"
        /\ Held(w).at = "held" /\ Held(w) = io[c][Blk(w)]
    BY <1>1, <1>2, SoleOwner, HeldByWorker DEF IInv, ReceiveAlive
  <2>2. Blk(w) \in Ready(c) /\ Front(c)
    BY <2>1 DEF Ready, AInv, Account
  <2>3. Held(w).lo = Held(w).hi
    BY <1>1 DEF AInv, Branch
  <2> QED
    BY <2>1, <2>2, <2>3 DEF Front
<1>5. \A d \in Clients : sock'[d] = "closed" => peer'[d] \in {"fin", "rst"}
  BY <1>1, <1>3, <1>4 DEF AInv
<1>6. ASSUME NEW d \in Clients PROVE Account(d)' /\ Posted(d)'
  <2>1. Keeps(d)
    BY <1>1, SameKeeps
  <2>2. sock'[d] # "closed" => sock[d] # "closed"
    BY <1>3
  <2> QED
    BY <1>1, <2>1, <2>2, AccountKept DEF AInv, Posted
<1>7. ASSUME NEW v \in Workers PROVE Branch(v)'
  <2>1. Held(v)' = Held(v) /\ Conn(v)' = Conn(v)
    BY <1>1 DEF Held, Conn, Blk
  <2>2. CASE v = w
    BY <1>1, <1>2, <1>3, <2>1, <2>2 DEF Branch
  <2>3. CASE v # w
    <3>1. pc[v] \in {"send", "close", "free"} => Conn(v) \in Clients
      BY HeldByWorker
    <3>2. pc[v] = "free" /\ sock[Conn(v)] = "closed" => sock'[Conn(v)] = "closed"
      BY <1>3, <3>1
    <3> QED
      BY <1>1, <2>1, <2>3, <3>2 DEF AInv, Branch
  <2> QED
    BY <2>2, <2>3
<1> QED
  BY <1>1, <1>5, <1>6, <1>7 DEF AInv

\* A freed block is that of a delivered send, or of a connection already closed.
LEMMA FreeAccount ==
    ASSUME IInv, AInv, NEW w \in Workers, FreeIo(w) \/ FreeBoth(w)
    PROVE  AInv'
<1>1. /\ pc[w] \in {"freeio", "free"} /\ pc' = [pc EXCEPT ![w] = "idle"]
      /\ job' = [job EXCEPT ![w] = NoJob]
      /\ UNCHANGED <<sent, peer, sock, read, sendq, out>>
      /\ pc \in [Workers -> PCs] /\ job \in [Workers -> {NoJob} \cup (Clients \X Nat)]
      /\ io \in [Clients -> Seq(Block)]
  BY DEF FreeIo, FreeBoth, IInv, TypeOK, clientVars, connVars, dataVars
<1>2. PICK c \in Clients, n \in Nat :
         /\ c = Conn(w) /\ n = Blk(w) /\ n \in DOMAIN io[c]
         /\ Held(w) = io[c][n] /\ io[c][n].at = "held"
  <2>1. Conn(w) \in Clients /\ Blk(w) \in DOMAIN io[Conn(w)] /\ io[Conn(w)] \in Seq(Block)
    BY <1>1, HeldByWorker
  <2>2. Blk(w) \in Nat
    BY <2>1
  <2> QED
    BY <1>1, <2>1, <2>2, HeldByWorker
<1>3. io[c] \in Seq(Block) /\ io[c][n] \in Block
  BY <1>1, <1>2
<1> DEFINE b == [io[c][n] EXCEPT !.at = "freed"]
<1>4. b \in Block /\ b.at = "freed"
  BY <1>3 DEF Block, Places
<1>5. /\ \A d \in Clients : DOMAIN io'[d] = DOMAIN io[d]
      /\ io'[c][n] = b
      /\ \A d \in Clients : \A m \in DOMAIN io[d] : d # c \/ m # n => io'[d][m] = io[d][m]
  <2>1. io' = [io EXCEPT ![c] = [io[c] EXCEPT ![n] = b]]
    BY <1>2, <1>3 DEF FreeIo, FreeBoth
  <2> HIDE DEF b
  <2> QED BY <1>1, <1>2, <1>4, <2>1, UpdateBlock
<1> HIDE DEF b
<1>6. pc[w] = "free" => sock[c] = "closed"
  BY <1>2 DEF AInv, Branch
<1>7. pc[w] = "freeio" => io[c][n].mode = "WRITE"
  BY <1>2 DEF IInv, WorkerHolds
<1>8. ASSUME NEW d \in Clients PROVE Account(d)'
  <2>1. CASE d # c \/ pc[w] = "freeio"
    <3>1. Ready(d)' = Ready(d)
      BY <1>2, <1>4, <1>5, <1>7, <2>1 DEF Ready, InFlight
    <3>2. \A m \in DOMAIN io[d] : io[d][m].at = "send" \/ m \in Ready(d) => io'[d][m] = io[d][m]
      BY <1>2, <1>5, <1>7, <2>1 DEF Ready, InFlight
    <3>3. Keeps(d)
      BY <1>1, <3>1, <3>2 DEF Keeps
    <3> QED
      BY <1>1, <3>3, AccountKept DEF AInv
  <2>2. CASE d = c /\ pc[w] = "free"
    <3>1. sendq[c] \in Seq(Nat) /\ \A i \in 1 .. Len(sendq[c]) : Sending(c, i)' = Sending(c, i)
      <4>1. sendq[c] \in Seq(Nat)
        BY DEF IInv, TypeOK
      <4>2. ASSUME NEW i \in 1 .. Len(sendq[c]) PROVE Sending(c, i)' = Sending(c, i)
        <5>1. sendq[c][i] \in DOMAIN io[c] /\ io[c][sendq[c][i]].at = "send"
          BY <4>1 DEF IInv, SendsQueued
        <5> QED
          BY <1>1, <1>2, <1>5, <5>1 DEF Sending
      <4> QED
        BY <4>1, <4>2
    <3>2. Row(c) => Row(c)'
      <4>1. \A i \in 1 .. Len(sendq[c]) : i # 1 => i - 1 \in 1 .. Len(sendq[c])
        BY <3>1
      <4> QED
        BY <1>1, <3>1, <4>1 DEF Row
    <3> QED
      BY <1>1, <1>6, <2>2, <3>2 DEF AInv, Account
  <2> QED
    BY <1>1, <2>1, <2>2
<1>9. ASSUME NEW v \in Workers PROVE Branch(v)'
  <2>1. CASE v = w
    BY <1>1, <2>1 DEF Branch
  <2>2. CASE v # w
    <3>1. \A u \in Workers : u # w => pc'[u] = pc[u] /\ job'[u] = job[u]
      BY <1>1
    <3> QED
      BY <1>1, <1>2, <1>5, <2>2, <3>1, OthersBranch DEF Holding
  <2> QED
    BY <2>1, <2>2
<1>10. \A d \in Clients : Posted(d)'
  BY <1>4, <1>5 DEF AInv, Posted
<1> QED
  BY <1>1, <1>8, <1>9, <1>10 DEF AInv

LEMMA NextAInv == IInv /\ AInv /\ [Next]_vars => AInv'
<1> SUFFICES ASSUME IInv, AInv, [Next]_vars PROVE AInv'
  OBVIOUS
<1>1. CASE UNCHANGED vars
  BY <1>1 DEF vars, clientVars, connVars, dataVars, workerVars, AInv, Account, Posted,
     Branch, Row, Sending, RowEnd, Ready, Front, InFlight, Held, Conn, Blk
<1>2. ASSUME NEW c \in Clients, Client(c) \/ Accept(c) \/ Kernel(c)
      PROVE  AInv'
  BY <1>2, ClientAccount, AcceptAccount, RecvAccount, SendDoneAccount, SendAbortAccount
     DEF Kernel
<1>3. ASSUME NEW w \in Workers, Dequeue(w) \/ Work(w)
      PROVE  AInv'
  BY <1>3, DequeueAccount, DerefAccount, PostSendAccount, PostRecvAccount,
     CloseSockAccount, FreeAccount DEF Work
<1> QED
  BY <1>1, <1>2, <1>3 DEF Next


-----------------------------------------------------------------------------
(* Every step is one of EchoService or changes nothing that it speaks of.  *)

Phases == [c \in Clients |-> Phase(c)]

\* Neither the phase of a client nor its stream changes.
LEMMA Stutter ==
    ASSUME UNCHANGED <<sent, out>>, \A c \in Clients : Phase(c)' = Phase(c)
    PROVE  [Echo!Next]_(Echo!vars)
BY DEF Echo!vars

\* A step that changes the phase of one client.
LEMMA PhaseStep ==
    ASSUME NEW c \in Clients, \A d \in Clients : d # c => Phase(d)' = Phase(d)
    PROVE  Phases' = [Phases EXCEPT ![c] = Phase(c)']
BY DEF Phases

LEMMA ClientImplements ==
    ASSUME IInv, AInv, NEW c \in Clients, Client(c)
    PROVE  [Echo!Next]_(Echo!vars)
<1>1. UNCHANGED <<sock, out>>
  BY DEF Client, Connect, Write, Fin, Reset, connVars, dataVars
<1>2. peer \in [Clients -> {"idle", "up", "fin", "rst"}] /\ sent \in [Clients -> Nat]
      /\ (sock[c] = "closed" => peer[c] \in {"fin", "rst"})
  BY DEF IInv, TypeOK, AInv
<1>3. \A d \in Clients : d # c => Phase(d)' = Phase(d)
  BY <1>1, <1>2 DEF Client, Connect, Write, Fin, Reset, Phase
<1>4. CASE Connect(c)
  <2>1. UNCHANGED sent /\ Phase(c)' = Phase(c)
    BY <1>1, <1>2, <1>4 DEF Connect, Phase
  <2> QED
    BY <1>1, <1>3, <2>1, Stutter
<1>5. CASE Write(c)
  <2>1. UNCHANGED Phases
    BY <1>1, <1>5 DEF Write, Phases, Phase
  <2>2. Phases[c] = "here"
    BY <1>2, <1>5 DEF Write, Phases, Phase
  <2>3. sent' = [sent EXCEPT ![c] = sent'[c]] /\ sent'[c] \in Nat /\ sent'[c] > sent[c]
    BY <1>2, <1>5 DEF Write
  <2>4. Echo!Ask(c)
    BY <1>1, <2>1, <2>2, <2>3 DEF Echo!Ask, Phases
  <2> QED
    BY <2>4 DEF Echo!Next
<1>6. CASE Fin(c)
  <2>1. Phases[c] = "here" /\ UNCHANGED sent
    BY <1>2, <1>6 DEF Fin, Phases, Phase
  <2>2. Phase(c)' = "left"
    BY <1>1, <1>2, <1>6 DEF Fin, Phase
  <2>3. Phases' = [Phases EXCEPT ![c] = "left"]
    BY <1>3, <2>2, PhaseStep
  <2>4. Echo!Leave(c)
    BY <1>1, <2>1, <2>3 DEF Echo!Leave, Phases
  <2> QED
    BY <2>4 DEF Echo!Next
<1>7. CASE Reset(c)
  <2>1. Phase(c)' = "gone" /\ UNCHANGED sent
    BY <1>2, <1>7 DEF Reset, Phase
  <2>2. CASE Phase(c) = "gone"
    <3>1. \A d \in Clients : Phase(d)' = Phase(d)
      BY <1>3, <2>1, <2>2
    <3> QED
      BY <1>1, <2>1, <3>1, Stutter
  <2>3. CASE Phase(c) # "gone"
    <3>1. Phases' = [Phases EXCEPT ![c] = "gone"] /\ Phases[c] # "gone"
      BY <1>3, <2>1, <2>3, PhaseStep DEF Phases
    <3>2. Echo!Abort(c)
      BY <1>1, <2>1, <3>1 DEF Echo!Abort, Phases
    <3> QED
      BY <3>2 DEF Echo!Next
  <2> QED
    BY <2>2, <2>3
<1> QED
  BY <1>4, <1>5, <1>6, <1>7 DEF Client

\* A send that is delivered is an Echo.
LEMMA SendImplements ==
    ASSUME IInv, AInv, NEW c \in Clients, SendDone(c)
    PROVE  [Echo!Next]_(Echo!vars)
<1>1. UNCHANGED <<sent, peer, sock>>
  BY DEF SendDone, clientVars, connVars
<1>2. PICK n \in Nat :
         /\ Len(out[c]) < n /\ n <= read[c]
         /\ out' = [out EXCEPT ![c] = out[c] \o Bytes(Len(out[c]), n)]
  BY SendDelivers
<1>3. n \in (Len(out[c]) + 1) .. sent[c]
  <2>1. /\ out[c] \in Seq(Nat) /\ read[c] \in Nat /\ sent[c] \in Nat
        /\ read[c] <= sent[c]
    BY DEF IInv, TypeOK, AInv
  <2>2. Len(out[c]) \in Nat
    BY <2>1
  <2> QED
    BY <1>2, <2>1, <2>2
<1>4. Bytes(Len(out[c]), n) = Echo!Bytes(Len(out[c]), n)
  BY DEF Bytes, Echo!Bytes
<1>5. out' = [out EXCEPT ![c] = @ \o Echo!Bytes(Len(@), n)]
  BY <1>2, <1>4
<1>6. UNCHANGED Phases
  BY <1>1 DEF Phases, Phase
<1>7. Echo!Echo(c)
  BY <1>1, <1>3, <1>5, <1>6 DEF Echo!Echo, Phases
<1> QED
  BY <1>7 DEF Echo!Next

\* Closing the socket of a client that has left is a Drop.
LEMMA CloseImplements ==
    ASSUME IInv, AInv, NEW w \in Workers, CloseSock(w)
    PROVE  [Echo!Next]_(Echo!vars)
<1>1. /\ pc[w] = "close" /\ UNCHANGED <<sent, peer, out>>
      /\ sock \in [Clients -> {"none", "bad", "open", "closed"}]
  BY DEF CloseSock, IInv, TypeOK, clientVars, dataVars
<1>2. PICK c \in Clients : c = Conn(w) /\ sock' = [sock EXCEPT ![c] = "closed"]
  BY <1>1, HeldByWorker DEF CloseSock
<1>3. sock'[c] = "closed" /\ \A d \in Clients : d # c => sock'[d] = sock[d]
  BY <1>1, <1>2
<1>4. sock[c] = "open"
  BY <1>1, <1>2 DEF IInv, ReceiveAlive
<1>5. peer[c] \in {"fin", "rst"}
  <2>1. AInv'
    BY CloseSockAccount
  <2> QED
    BY <1>1, <1>3, <2>1 DEF AInv
<1>6. Phase(c)' = "gone" /\ \A d \in Clients : d # c => Phase(d)' = Phase(d)
  BY <1>1, <1>3 DEF Phase
<1>7. CASE peer[c] = "rst"
  <2>1. \A d \in Clients : Phase(d)' = Phase(d)
    BY <1>6, <1>7 DEF Phase
  <2> QED
    BY <1>1, <2>1, Stutter
<1>8. CASE peer[c] = "fin"
  <2>1. Phases[c] = "left"
    BY <1>4, <1>8 DEF Phases, Phase
  <2>2. Phases' = [Phases EXCEPT ![c] = "gone"]
    BY <1>6, PhaseStep
  <2>3. Echo!Drop(c)
    BY <1>1, <2>1, <2>2 DEF Echo!Drop, Phases
  <2> QED
    BY <2>3 DEF Echo!Next
<1> QED
  BY <1>5, <1>7, <1>8

\* All else goes on behind the back of the clients.
LEMMA StepImplements == IInv /\ AInv /\ [Next]_vars => [Echo!Next]_(Echo!vars)
<1> SUFFICES ASSUME IInv, AInv, [Next]_vars PROVE [Echo!Next]_(Echo!vars)
  OBVIOUS
<1>1. ASSUME UNCHANGED <<sent, peer, sock, out>> PROVE [Echo!Next]_(Echo!vars)
  <2>1. UNCHANGED <<sent, out>> /\ \A c \in Clients : Phase(c)' = Phase(c)
    BY <1>1 DEF Phase
  <2> QED
    BY <2>1, Stutter
<1>2. CASE UNCHANGED vars
  BY <1>1, <1>2 DEF vars, clientVars, connVars, dataVars
<1>3. ASSUME NEW c \in Clients, Client(c) PROVE [Echo!Next]_(Echo!vars)
  BY <1>3, ClientImplements
<1>4. ASSUME NEW c \in Clients, Accept(c) PROVE [Echo!Next]_(Echo!vars)
  <2>1. /\ UNCHANGED <<sent, peer, out>> /\ sock[c] = "none"
        /\ \A d \in Clients : d # c => sock'[d] = sock[d]
        /\ sock'[c] \in {"bad", "open"}
    BY <1>4 DEF Accept, IInv, TypeOK, clientVars, dataVars
  <2>2. \A d \in Clients : Phase(d)' = Phase(d)
    BY <2>1 DEF Phase
  <2> QED
    BY <2>1, <2>2, Stutter
<1>5. ASSUME NEW c \in Clients, Kernel(c) PROVE [Echo!Next]_(Echo!vars)
  <2>1. CASE SendDone(c)
    BY <2>1, SendImplements
  <2>2. CASE RecvData(c) \/ RecvEnd(c) \/ SendAbort(c)
    BY <1>1, <2>2 DEF RecvData, RecvEnd, SendAbort, clientVars, connVars, dataVars
  <2> QED
    BY <1>5, <2>1, <2>2 DEF Kernel
<1>6. ASSUME NEW w \in Workers, Dequeue(w) \/ Work(w) PROVE [Echo!Next]_(Echo!vars)
  <2>1. CASE CloseSock(w)
    BY <2>1, CloseImplements
  <2>2. CASE Dequeue(w) \/ Deref(w) \/ PostSend(w) \/ PostRecv(w) \/ FreeBoth(w) \/ FreeIo(w)
    BY <1>1, <2>2 DEF Dequeue, Deref, PostSend, PostRecv, FreeBoth, FreeIo,
       clientVars, connVars, dataVars
  <2> QED
    BY <1>6, <2>1, <2>2 DEF Work
<1> QED
  BY <1>2, <1>3, <1>4, <1>5, <1>6 DEF Next

LEMMA InitImplements == Init => Echo!Init
BY DEF Init, Echo!Init, Phase

\* The account of the replies holds at all times.
THEOREM Accounted == Spec => []AInv
<1> QED
  BY InitAInv, NextAInv, Invariance, PTL DEF Spec

\* Replies, pending sends and the received block make up what has been read,
\* without a gap and in its order, whatever worker handled what (lines 97-126).
THEOREM ConservesEcho == Spec => []EchoConserved
<1>1. AInv => EchoConserved
  BY DEF AInv, Account, EchoConserved
<1> QED
  BY Accounted, <1>1, PTL

\* The safety part of ImplementsEcho: however the workers share the port and
\* the client's connection, each client is sent the bytes it sent, in their
\* order, and only clients that have left are dropped (lines 97-126).
THEOREM ImplementsEchoSafely == Spec => Echo!Safety
<1> QED
  BY InitImplements, StepImplements, Invariance, Accounted, PTL DEF Spec, Echo!Safety
=============================================================================
