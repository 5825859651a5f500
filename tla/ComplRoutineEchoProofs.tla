------------------------ MODULE ComplRoutineEchoProofs ------------------------
(***************************************************************************)
(* Proofs about ComplRoutineEcho, for any clients, any number of bytes and *)
(* any buffer size.                                                        *)
(*                                                                         *)
(* OneActivity and NoUseAfterFree are two sides of one argument.  The      *)
(* activity of a connection is a token: it is the operation in progress,   *)
(* or the routine that waits to run, and each step that ends the one       *)
(* begins the other.  Only the routine of a receive of no bytes gives the  *)
(* token up, and with it socket and block.                                 *)
(*                                                                         *)
(* That every reply is the stream that was sent needs the same token: who  *)
(* holds it tells how far the replies are behind what has been read.       *)
(***************************************************************************)
EXTENDS ComplRoutineEcho, TLAPS

\* What an activity of c relies on.
Held(c) == blk[c] = "live" /\ sock[c] = "open" /\ win[c] \in 1 .. BufSize

\* No two routines of one connection wait.
Distinct == \A i, j \in 1 .. Len(apcs) : apcs[i].c = apcs[j].c => i = j

\* While a routine waits nothing else goes on for its connection.
Waits ==
    \A i \in 1 .. Len(apcs) :
       op[apcs[i].c] = "none" /\ Held(apcs[i].c) /\ apcs[i].bytes <= BufSize

Works == \A c \in Clients : op[c] # "none" => Held(c)

\* An open connection that has not been reset has its activity.
Alive ==
    \A c \in Clients :
       sock[c] = "open" /\ peer[c] # "rst" =>
          op[c] # "none" \/ \E i \in 1 .. Len(apcs) : apcs[i].c = c

\* The last receive is among what has been read.
LastRead == \A c \in Clients : bytes[c] <= read[c]

IInv == TypeOK /\ Distinct /\ Waits /\ Works /\ Alive /\ LastRead

LEMMA Initial == Init => IInv
    BY ComplRoutineAssumption
    DEF Init, IInv, TypeOK, Distinct, Waits, Works, Alive, LastRead

\* A piece of a stream consists of numbers.
LEMMA BytesType == ASSUME NEW from \in Nat, NEW to \in Nat, from <= to
                   PROVE  Bytes(from, to) \in Seq(Nat)
<1>1. to - from \in Nat /\ \A i \in 1 .. to - from : from + i \in Nat
    OBVIOUS
<1> QED
    BY <1>1 DEF Bytes

\* What the kernel does to finish an operation passes the token from the
\* operation to its routine.
LEMMA FinishStep ==
    ASSUME IInv, NEW c \in Clients, op[c] # "none",
           NEW routine \in {"Read", "Write"}, NEW n \in Nat, n <= BufSize,
           Finish(c, routine, n)
    PROVE  Distinct' /\ Waits' /\ Works' /\ Alive' /\ apcs' \in Seq(Apc)
<1> DEFINE a == [c |-> c, routine |-> routine, bytes |-> n]
<1> USE DEF IInv, TypeOK, Finish
<1>1. a \in Apc /\ apcs \in Seq(Apc)
    BY DEF Apc
<1>2. apcs' = Append(apcs, a)
    OBVIOUS
<1>3. /\ apcs' \in Seq(Apc) /\ Len(apcs') = Len(apcs) + 1
      /\ \A i \in 1 .. Len(apcs) : apcs'[i] = apcs[i]
      /\ apcs'[Len(apcs) + 1] = a
      /\ Len(apcs) \in Nat
    BY <1>1, <1>2
<1>4. \A i \in 1 .. Len(apcs) : apcs[i].c # c /\ apcs[i].c \in Clients
  <2> SUFFICES ASSUME NEW i \in 1 .. Len(apcs) PROVE apcs[i].c # c /\ apcs[i].c \in Clients
      OBVIOUS
  <2>1. apcs[i] \in Apc
      BY <1>1
  <2>2. op[apcs[i].c] = "none"
      BY DEF Waits
  <2> QED
      BY <2>1, <2>2 DEF Apc
<1>5. Held(c)
    BY DEF Works
<1>6. \A d \in Clients : Held(d)' <=> Held(d)
    BY DEF Held, connVars
<1>7. op' = [op EXCEPT ![c] = "none"] /\ sock' = sock /\ peer' = peer
    BY DEF clientVars
<1> HIDE DEF Finish
<1>8. Distinct'
  <2> SUFFICES ASSUME NEW i \in 1 .. Len(apcs'), NEW j \in 1 .. Len(apcs'),
                      apcs'[i].c = apcs'[j].c
               PROVE  i = j
      BY DEF Distinct
  <2>1. a.c = c
      OBVIOUS
  <2>2. CASE i \in 1 .. Len(apcs) /\ j \in 1 .. Len(apcs)
      BY <2>2, <1>3 DEF Distinct
  <2>3. CASE i = Len(apcs) + 1 \/ j = Len(apcs) + 1
    <3>1. apcs'[Len(apcs) + 1].c = c
        BY <2>1, <1>3
    <3>2. \A k \in 1 .. Len(apcs) : apcs'[k].c # c
        BY <1>3, <1>4
    <3>3. \A k \in 1 .. Len(apcs') : k \in 1 .. Len(apcs) \/ k = Len(apcs) + 1
        BY <1>3
    <3> HIDE DEF a
    <3> QED
        BY <2>3, <3>1, <3>2, <3>3
  <2> QED
      BY <1>3, <2>2, <2>3
<1>9. Waits'
  <2> SUFFICES ASSUME NEW i \in 1 .. Len(apcs')
               PROVE  (op[apcs[i].c] = "none" /\ Held(apcs[i].c) /\ apcs[i].bytes <= BufSize)'
      BY DEF Waits
  <2>1. CASE i = Len(apcs) + 1
      BY <2>1, <1>3, <1>5, <1>6, <1>7
  <2>2. CASE i \in 1 .. Len(apcs)
    <3>1. apcs'[i] = apcs[i] /\ apcs[i].c \in Clients /\ apcs[i].c # c
        BY <2>2, <1>3, <1>4
    <3> QED
        BY <2>2, <3>1, <1>6, <1>7 DEF Waits
  <2> QED
      BY <1>3, <2>1, <2>2
<1>10. Works'
    BY <1>6, <1>7 DEF Works
<1>11. Alive'
  <2> SUFFICES ASSUME NEW d \in Clients, sock'[d] = "open", peer'[d] # "rst", op'[d] = "none"
               PROVE  \E i \in 1 .. Len(apcs') : apcs'[i].c = d
      BY DEF Alive
  <2>1. CASE d = c
      BY <2>1, <1>3
  <2>2. CASE d # c
    <3>1. PICK i \in 1 .. Len(apcs) : apcs[i].c = d
        BY <2>2, <1>7 DEF Alive
    <3> QED
        BY <3>1, <1>3
  <2> QED
      BY <2>1, <2>2
<1> QED
    BY <1>3, <1>8, <1>9, <1>10, <1>11

LEMMA ClientStep == ASSUME IInv, NEW c \in Clients, Client(c) PROVE IInv'
<1>1. UNCHANGED <<connVars, read, bytes, apcs, out, main>>
    BY DEF Client, Connect, Write, Fin, Reset
<1>2. sent' \in [Clients -> Nat] /\ peer' \in [Clients -> {"idle", "up", "fin", "rst"}]
  <2>1. CASE Write(c)
      BY <2>1 DEF IInv, TypeOK, Write
  <2>2. CASE Connect(c) \/ Fin(c) \/ Reset(c)
      BY <2>2 DEF IInv, TypeOK, Connect, Fin, Reset
  <2> QED
      BY <2>1, <2>2 DEF Client
<1>6. TypeOK'
    BY <1>1, <1>2 DEF IInv, TypeOK, connVars
<1>3. \A d \in Clients : peer'[d] # "rst" => peer[d] # "rst"
    BY DEF IInv, TypeOK, Client, Connect, Write, Fin, Reset
<1>4. Distinct' /\ Waits' /\ Works' /\ LastRead'
    BY <1>1 DEF IInv, Distinct, Waits, Works, LastRead, Held, connVars
<1>5. Alive'
    BY <1>1, <1>3 DEF IInv, Alive, connVars
<1> QED
    BY <1>4, <1>5, <1>6 DEF IInv

LEMMA KernelStep == ASSUME IInv, NEW c \in Clients, Kernel(c) PROVE IInv'
<1> USE DEF IInv
<1>1. CASE RecvData(c)
  <2>1. PICK k \in 0 .. win[c] :
           /\ read[c] + k <= sent[c] /\ Finish(c, "Read", k)
           /\ read' = [read EXCEPT ![c] = @ + k] /\ bytes' = [bytes EXCEPT ![c] = k]
      BY <1>1 DEF RecvData
  <2>2. op[c] # "none" /\ k \in Nat /\ k <= BufSize
    <3>1. op[c] # "none"
        BY <1>1 DEF RecvData
    <3>2. win[c] \in 1 .. BufSize
        BY <3>1 DEF Works, Held
    <3> QED
        BY <3>1, <3>2, ComplRoutineAssumption
  <2>3. Distinct' /\ Waits' /\ Works' /\ Alive' /\ apcs' \in Seq(Apc)
      BY <2>1, <2>2, FinishStep
  <2>4. TypeOK'
      BY <1>1, <2>1, <2>2, <2>3 DEF TypeOK, RecvData, Finish, clientVars
  <2>5. LastRead'
      BY <2>1, <2>2 DEF LastRead, TypeOK
  <2> QED
      BY <2>3, <2>4, <2>5
<1>2. CASE RecvEnd(c) \/ SendAbort(c)
  <2>1. PICK routine \in {"Read", "Write"} : Finish(c, routine, 0)
      BY <1>2 DEF RecvEnd, SendAbort
  <2>2. op[c] # "none" /\ UNCHANGED <<read, bytes, out>>
      BY <1>2 DEF RecvEnd, SendAbort
  <2>3. Distinct' /\ Waits' /\ Works' /\ Alive' /\ apcs' \in Seq(Apc)
      BY <2>1, <2>2, ComplRoutineAssumption, FinishStep
  <2>4. TypeOK'
      BY <2>1, <2>2, <2>3 DEF TypeOK, Finish, clientVars
  <2> QED
      BY <2>2, <2>3, <2>4 DEF LastRead
<1>3. CASE SendDone(c)
  <2>1. op[c] # "none" /\ Finish(c, "Write", win[c]) /\ UNCHANGED <<read, bytes>>
      BY <1>3 DEF SendDone
  <2>2. win[c] \in Nat /\ win[c] <= BufSize
      BY <2>1, ComplRoutineAssumption DEF Works, Held, TypeOK
  <2>3. Distinct' /\ Waits' /\ Works' /\ Alive' /\ apcs' \in Seq(Apc)
      BY <2>1, <2>2, FinishStep
  <2> DEFINE first == read[c] - bytes[c]
  <2>4. first \in Nat /\ first + win[c] \in Nat /\ first <= first + win[c]
      BY <2>2 DEF TypeOK, LastRead
  <2>5. Bytes(first, first + win[c]) \in Seq(Nat)
      BY <2>4, BytesType
  <2>6. out' = [out EXCEPT ![c] = @ \o Bytes(first, first + win[c])]
      BY <1>3 DEF SendDone
  <2>7. out' \in [Clients -> Seq(Nat)]
    <3> DEFINE new == out[c] \o Bytes(first, first + win[c])
    <3>1. new \in Seq(Nat)
        BY <2>5 DEF TypeOK
    <3>2. out' = [out EXCEPT ![c] = new]
        BY <2>6
    <3> HIDE DEF new
    <3> QED
        BY <3>1, <3>2 DEF TypeOK
  <2>8. TypeOK'
      BY <2>1, <2>3, <2>7 DEF TypeOK, Finish, clientVars
  <2> QED
      BY <2>1, <2>3, <2>8 DEF LastRead
<1> QED
    BY <1>1, <1>2, <1>3 DEF Kernel

\* Start begins an operation unless the connection has been reset.
LEMMA StartStep ==
    ASSUME TypeOK, NEW c \in Clients, NEW kind \in {"recv", "send"}, Start(c, kind)
    PROVE  /\ op' \in [Clients -> {"none", "recv", "send"}]
           /\ \A d \in Clients : d # c => op'[d] = op[d]
           /\ op'[c] # "none" <=> peer[c] # "rst"
    BY DEF TypeOK, Start

\* The routine at the head of the queue takes the token on.
LEMMA RoutineStep == ASSUME IInv, RunApc PROVE IInv'
<1> USE DEF IInv
<1>a. apcs \in Seq(Apc) /\ apcs # <<>>
    BY DEF RunApc, TypeOK
<1>b. PICK a \in Apc : a = Head(apcs)
    BY <1>a
<1> DEFINE c == a.c
<1>1. /\ apcs \in Seq(Apc) /\ apcs # <<>> /\ apcs' = Tail(apcs)
      /\ UNCHANGED <<sent, peer, read, bytes, out, main>>
    BY DEF RunApc, TypeOK, clientVars
<1>2. /\ Len(apcs) \in Nat \ {0} /\ a = apcs[1] /\ a \in Apc
      /\ apcs' \in Seq(Apc) /\ Len(apcs') = Len(apcs) - 1
      /\ \A i \in 1 .. Len(apcs') : apcs'[i] = apcs[i + 1] /\ i + 1 \in 1 .. Len(apcs)
    BY <1>1, <1>b
<1>3. c \in Clients /\ a.bytes \in Nat
    BY <1>2 DEF Apc
<1>4. op[c] = "none" /\ Held(c) /\ a.bytes <= BufSize
    BY <1>2 DEF Waits
<1>5. \A i \in 1 .. Len(apcs') : apcs'[i].c # c /\ apcs'[i].c \in Clients
  <2> SUFFICES ASSUME NEW i \in 1 .. Len(apcs') PROVE apcs'[i].c # c /\ apcs'[i].c \in Clients
      OBVIOUS
  <2>1. i + 1 \in 1 .. Len(apcs) /\ apcs'[i] = apcs[i + 1] /\ 1 \in 1 .. Len(apcs) /\ i + 1 # 1
      BY <1>2
  <2>2. apcs[i + 1].c # apcs[1].c
      BY <2>1 DEF Distinct
  <2>3. apcs[i + 1] \in Apc
      BY <1>1, <2>1
  <2> QED
      BY <1>2, <2>1, <2>2, <2>3 DEF Apc
<1>6. Distinct'
  <2> SUFFICES ASSUME NEW i \in 1 .. Len(apcs'), NEW j \in 1 .. Len(apcs'),
                      apcs'[i].c = apcs'[j].c
               PROVE  i = j
      BY DEF Distinct
  <2>1. i + 1 = j + 1
      BY <1>2 DEF Distinct
  <2> QED
      BY <2>1, <1>2
<1>7. \A d \in Clients : d # c /\ (\E i \in 1 .. Len(apcs) : apcs[i].c = d)
           => \E i \in 1 .. Len(apcs') : apcs'[i].c = d
  <2> SUFFICES ASSUME NEW d \in Clients, d # c, NEW i \in 1 .. Len(apcs), apcs[i].c = d
               PROVE  \E j \in 1 .. Len(apcs') : apcs'[j].c = d
      OBVIOUS
  <2>1. i # 1 /\ i - 1 \in 1 .. Len(apcs') /\ apcs'[i - 1] = apcs[i]
      BY <1>2
  <2> QED
      BY <2>1
\* What remains is to be shown of c: the rest of the state is that of others.
<1>8. ASSUME \A d \in Clients : d # c => op'[d] = op[d] /\ (Held(d)' <=> Held(d)) /\ sock'[d] = sock[d],
             op'[c] # "none" => Held(c)',
             sock'[c] = "open" /\ peer[c] # "rst" => op'[c] # "none",
             TypeOK'
      PROVE  IInv'
  <2>1. Waits'
    <3> SUFFICES ASSUME NEW i \in 1 .. Len(apcs')
                 PROVE  (op[apcs[i].c] = "none" /\ Held(apcs[i].c) /\ apcs[i].bytes <= BufSize)'
        BY DEF Waits
    <3>1. apcs'[i] = apcs[i + 1] /\ i + 1 \in 1 .. Len(apcs)
        BY <1>2
    <3> QED
        BY <3>1, <1>5, <1>8 DEF Waits
  <2>2. Works'
    <3> SUFFICES ASSUME NEW d \in Clients, op'[d] # "none" PROVE Held(d)'
        BY DEF Works
    <3>1. CASE d = c
        BY <3>1, <1>8
    <3>2. CASE d # c
      <4>1. op[d] # "none" /\ (Held(d)' <=> Held(d))
          BY <3>2, <1>8
      <4> QED
          BY <4>1 DEF Works
    <3> QED
        BY <3>1, <3>2
  <2>3. Alive'
      BY <1>1, <1>7, <1>8 DEF Alive
  <2> QED
      BY <1>1, <1>6, <1>8, <2>1, <2>2, <2>3 DEF LastRead
<1>9. CASE a.routine = "Read" /\ ReadCompRoutine(c, a.bytes) /\ a.bytes = 0
  <2>1. /\ sock' = [sock EXCEPT ![c] = "closed"] /\ blk' = [blk EXCEPT ![c] = "freed"]
        /\ UNCHANGED <<win, op>>
      BY <1>9 DEF ReadCompRoutine
  <2>2. TypeOK'
      BY <1>1, <1>2, <1>3, <2>1 DEF TypeOK
  <2>3. \A d \in Clients : d # c => op'[d] = op[d] /\ (Held(d)' <=> Held(d)) /\ sock'[d] = sock[d]
      BY <2>1 DEF Held, TypeOK
  <2>4. sock'[c] = "closed" /\ op'[c] = "none"
      BY <1>3, <1>4, <2>1 DEF TypeOK
  <2> QED
      BY <1>8, <2>2, <2>3, <2>4
<1>10. CASE a.routine = "Read" /\ ReadCompRoutine(c, a.bytes) /\ a.bytes > 0
  <2>1. win' = [win EXCEPT ![c] = a.bytes] /\ Start(c, "send") /\ UNCHANGED <<sock, blk>>
      BY <1>10, <1>3 DEF ReadCompRoutine
  <2>2. /\ op' \in [Clients -> {"none", "recv", "send"}]
        /\ \A d \in Clients : d # c => op'[d] = op[d]
        /\ op'[c] # "none" <=> peer[c] # "rst"
      BY <1>3, <2>1, StartStep
  <2>3. TypeOK'
      BY <1>1, <1>2, <1>3, <2>1, <2>2 DEF TypeOK
  <2>4. \A d \in Clients : d # c => op'[d] = op[d] /\ (Held(d)' <=> Held(d)) /\ sock'[d] = sock[d]
      BY <2>1, <2>2 DEF Held, TypeOK
  <2>5. Held(c)'
    <3>1. win'[c] = a.bytes
        BY <1>3, <2>1 DEF TypeOK
    <3>2. a.bytes \in 1 .. BufSize
        BY <1>3, <1>4, <1>10, ComplRoutineAssumption
    <3>3. blk'[c] = "live" /\ sock'[c] = "open"
        BY <1>4, <2>1 DEF Held
    <3> QED
        BY <3>1, <3>2, <3>3 DEF Held
  <2> QED
      BY <1>8, <2>2, <2>3, <2>4, <2>5
<1>11. CASE a.routine = "Write" /\ WriteCompRoutine(c)
  <2>1. Start(c, "recv") /\ UNCHANGED <<sock, blk, win>>
      BY <1>11 DEF WriteCompRoutine
  <2>2. /\ op' \in [Clients -> {"none", "recv", "send"}]
        /\ \A d \in Clients : d # c => op'[d] = op[d]
        /\ op'[c] # "none" <=> peer[c] # "rst"
      BY <1>3, <2>1, StartStep
  <2>3. TypeOK'
      BY <1>1, <1>2, <2>1, <2>2 DEF TypeOK
  <2>4. \A d \in Clients : (Held(d)' <=> Held(d)) /\ sock'[d] = sock[d]
      BY <2>1 DEF Held
  <2>5. Held(c)'
      BY <1>3, <1>4, <2>4
  <2> QED
      BY <1>8, <2>2, <2>3, <2>4, <2>5
<1>12. \/ a.routine = "Read" /\ ReadCompRoutine(c, a.bytes)
       \/ a.routine = "Write" /\ WriteCompRoutine(c)
    BY <1>b DEF RunApc
<1> QED
    BY <1>3, <1>9, <1>10, <1>11, <1>12

LEMMA AcceptStep == ASSUME IInv, NEW c \in Clients, Accept(c) PROVE IInv'
<1> USE DEF IInv
<1>1. /\ sock[c] = "none" /\ UNCHANGED <<sent, peer, read, bytes, apcs, out>> /\ main' = "sleep"
      /\ sock' = [sock EXCEPT ![c] = "open"] /\ blk' = [blk EXCEPT ![c] = "live"]
      /\ win' = [win EXCEPT ![c] = BufSize] /\ Start(c, "recv")
    BY DEF Accept, clientVars
<1>2. /\ op' \in [Clients -> {"none", "recv", "send"}]
      /\ \A d \in Clients : d # c => op'[d] = op[d]
      /\ op'[c] # "none" <=> peer[c] # "rst"
    BY <1>1, StartStep
<1>3. TypeOK'
    BY <1>1, <1>2, ComplRoutineAssumption DEF TypeOK
<1>4. \A i \in 1 .. Len(apcs) : apcs[i].c # c /\ apcs[i].c \in Clients
  <2> SUFFICES ASSUME NEW i \in 1 .. Len(apcs) PROVE apcs[i].c # c /\ apcs[i].c \in Clients
      OBVIOUS
  <2>1. apcs[i] \in Apc
      BY DEF TypeOK
  <2>2. sock[apcs[i].c] = "open"
      BY DEF Waits, Held
  <2> QED
      BY <1>1, <2>1, <2>2 DEF Apc
<1>5. Held(c)'
    BY <1>1, ComplRoutineAssumption DEF Held, TypeOK
<1>6. \A d \in Clients : d # c => (Held(d)' <=> Held(d)) /\ sock'[d] = sock[d]
    BY <1>1 DEF Held, TypeOK
<1>7. Distinct' /\ LastRead'
    BY <1>1 DEF Distinct, LastRead
<1>8. Waits'
    BY <1>1, <1>2, <1>4, <1>6 DEF Waits
<1>9. Works'
    BY <1>2, <1>5, <1>6 DEF Works
<1>10. Alive'
    BY <1>1, <1>2, <1>6 DEF Alive
<1> QED
    BY <1>3, <1>7, <1>8, <1>9, <1>10

LEMMA Inductive == ASSUME IInv, [Next]_vars PROVE IInv'
<1>1. ASSUME NEW c \in Clients, Client(c) PROVE IInv'
    BY <1>1, ClientStep
<1>2. ASSUME NEW c \in Clients, Kernel(c) PROVE IInv'
    BY <1>2, KernelStep
<1>3. ASSUME NEW c \in Clients, Accept(c) PROVE IInv'
    BY <1>3, AcceptStep
<1>4. CASE RunApc
    BY <1>4, RoutineStep
<1>5. CASE Wake \/ AcceptNone \/ AcceptError \/ UNCHANGED vars
  <2>1. UNCHANGED <<clientVars, connVars, read, bytes, apcs, out>> /\ main' \in {"accept", "sleep", "exited", main}
      BY <1>5 DEF Wake, AcceptNone, AcceptError, vars
  <2> QED
      BY <2>1 DEF IInv, TypeOK, Distinct, Waits, Works, Alive, LastRead, Held, clientVars, connVars
<1> QED
    BY <1>1, <1>2, <1>3, <1>4, <1>5 DEF Next, Thread

\* The inductive invariant, from which the others follow.
THEOREM Invariance == Spec => []IInv
<1> QED
    BY Initial, Inductive, PTL DEF Spec

\* The variables take the values that their declarations promise.
THEOREM TypeCorrect == Spec => []TypeOK
<1>1. IInv => TypeOK
    BY DEF IInv
<1> QED
    BY Invariance, <1>1, PTL

\* An open connection has one operation or one waiting routine (lines 60-119),
\* and a receive never runs out of window (line 107).
THEOREM OneAtATime == Spec => []OneActivity
<1>1. IInv => OneActivity
  <2> SUFFICES ASSUME IInv, NEW c \in Clients
               PROVE  /\ \A i, j \in Queued(c) : i = j
                      /\ op[c] # "none" => Queued(c) = {}
                      /\ sock[c] = "open" /\ peer[c] # "rst" => op[c] # "none" \/ Queued(c) # {}
                      /\ op[c] = "recv" => win[c] \in 1 .. BufSize
      BY DEF OneActivity
  <2>1. DOMAIN apcs = 1 .. Len(apcs)
      BY DEF IInv, TypeOK
  <2> QED
      BY <2>1 DEF IInv, Distinct, Waits, Works, Alive, Held, Queued
<1> QED
    BY Invariance, <1>1, PTL

\* Neither the kernel nor a routine ever refers to a freed block or a closed
\* socket (lines 94-115).
THEOREM BlocksLive == Spec => []NoUseAfterFree
<1>1. IInv => NoUseAfterFree
  <2>1. IInv => DOMAIN apcs = 1 .. Len(apcs)
      BY DEF IInv, TypeOK
  <2> QED
      BY <2>1 DEF IInv, Waits, Works, Held, Queued, NoUseAfterFree
<1> QED
    BY Invariance, <1>1, PTL

-----------------------------------------------------------------------------
(* The replies.  What has been read of a stream is either echoed already,  *)
(* or in the buffer and on its way back, and the activity of a connection  *)
(* tells which.                                                            *)

\* What a routine that waits to run brings to its connection.
Carries(a) ==
    \/ /\ a.routine = "Read"
       /\ Len(out[a.c]) + a.bytes = read[a.c]
       /\ IF a.bytes = 0 THEN peer[a.c] \in {"fin", "rst"} ELSE a.bytes = bytes[a.c]
    \/ /\ a.routine = "Write"
       /\ peer[a.c] = "rst" \/ Len(out[a.c]) = read[a.c]

Carried == \A i \in 1 .. Len(apcs) : Carries(apcs[i])

Counted ==
    \A c \in Clients :
       /\ read[c] <= sent[c]
       /\ sock[c] = "none" => read[c] = 0 /\ Len(out[c]) = 0
       /\ op[c] = "recv" => Len(out[c]) = read[c]
       /\ op[c] = "send" => win[c] = bytes[c] /\ Len(out[c]) + bytes[c] = read[c]

\* Who is disconnected has left; who breaks off early was free to.
Ends ==
    \A c \in Clients :
       /\ sock[c] = "closed" => peer[c] \in {"fin", "rst"}
       /\ sock[c] = "none" /\ peer[c] = "rst" => EarlyReset

AInv == Carried /\ Counted /\ Ends

LEMMA AInitial == Init => AInv
    BY DEF Init, AInv, Carried, Counted, Ends

LEMMA BytesLen == ASSUME NEW from \in Nat, NEW to \in Nat, from <= to
                  PROVE  Len(Bytes(from, to)) = to - from
<1>1. to - from \in Nat
    OBVIOUS
<1>2. DOMAIN Bytes(from, to) = 1 .. to - from
    BY DEF Bytes
<1>3. Bytes(from, to) \in Seq(Nat)
    BY BytesType
<1>4. Len(Bytes(from, to)) \in Nat /\ DOMAIN Bytes(from, to) = 1 .. Len(Bytes(from, to))
    BY <1>3
<1>5. ASSUME NEW m \in Nat, NEW n \in Nat, 1 .. m = 1 .. n PROVE m = n
  <2>1. m <= n
    <3>1. m = 0 \/ m \in 1 .. m
        OBVIOUS
    <3>2. m = 0 \/ m \in 1 .. n
        BY <3>1, <1>5
    <3> QED
        BY <3>2
  <2>2. n <= m
    <3>1. n = 0 \/ n \in 1 .. n
        OBVIOUS
    <3>2. n = 0 \/ n \in 1 .. m
        BY <3>1, <1>5
    <3> QED
        BY <3>2
  <2> QED
      BY <2>1, <2>2
<1> QED
    BY <1>1, <1>2, <1>4, <1>5

\* A waiting routine is that of a client.
LEMMA Waiting == ASSUME TypeOK, NEW i \in 1 .. Len(apcs) PROVE apcs[i] \in Apc /\ apcs[i].c \in Clients
<1>1. apcs[i] \in Apc
    BY DEF TypeOK
<1> QED
    BY <1>1 DEF Apc

\* A step that is nothing to the client of a routine leaves the routine valid.
LEMMA CarriesOn ==
    ASSUME NEW a \in Apc, Carries(a),
           out'[a.c] = out[a.c], read'[a.c] = read[a.c], bytes'[a.c] = bytes[a.c],
           peer[a.c] \in {"fin", "rst"} => peer'[a.c] \in {"fin", "rst"},
           peer[a.c] = "rst" => peer'[a.c] = "rst"
    PROVE  Carries(a)'
    BY DEF Carries

LEMMA ClientAccounts == ASSUME IInv, AInv, NEW c \in Clients, Client(c) PROVE AInv'
<1> USE DEF IInv, AInv
<1>1. UNCHANGED <<sock, blk, op, win, read, bytes, apcs, out, main>>
    BY DEF Client, Connect, Write, Fin, Reset, connVars
<1>2. \A d \in Clients :
         /\ peer[d] \in {"fin", "rst"} => peer'[d] \in {"fin", "rst"}
         /\ peer[d] = "rst" => peer'[d] = "rst"
         /\ peer'[d] = "rst" => peer[d] = "rst" \/ EarlyReset \/ sock[d] # "none"
         /\ sent[d] <= sent'[d]
  <2>1. CASE Write(c)
      BY <2>1 DEF TypeOK, Write
  <2>2. CASE Connect(c) \/ Fin(c)
      BY <2>2 DEF TypeOK, Connect, Fin
  <2>3. CASE Reset(c)
      BY <2>3 DEF TypeOK, Reset
  <2> QED
      BY <2>1, <2>2, <2>3 DEF Client
<1>3. Carried'
  <2> SUFFICES ASSUME NEW i \in 1 .. Len(apcs) PROVE Carries(apcs[i])'
      BY <1>1 DEF Carried
  <2>1. apcs'[i] = apcs[i] /\ apcs[i] \in Apc /\ apcs[i].c \in Clients /\ Carries(apcs[i])
      BY <1>1, Waiting DEF Carried
  <2> QED
      BY <1>1, <1>2, <2>1 DEF Carries
<1>4. Counted'
  <2> SUFFICES ASSUME NEW d \in Clients PROVE read[d] <= sent'[d]
      BY <1>1 DEF Counted
  <2>1. read[d] <= sent[d] /\ sent[d] <= sent'[d] /\ read[d] \in Nat /\ sent[d] \in Nat /\ sent'[d] \in Nat
      BY <1>2, ClientStep DEF Counted, TypeOK
  <2> QED
      BY <2>1
<1>5. Ends'
    BY <1>1, <1>2 DEF Ends
<1> QED
    BY <1>3, <1>4, <1>5

\* A step that leaves the counts, or the work, of the other clients alone.
OthersCounts(c) ==
    \A d \in Clients \ {c} : read'[d] = read[d] /\ bytes'[d] = bytes[d] /\ out'[d] = out[d]

OthersWork(c) ==
    \A d \in Clients \ {c} : op'[d] = op[d] /\ win'[d] = win[d] /\ sock'[d] = sock[d]

\* An operation that finishes leaves its account to its routine.
LEMMA FinishAccounts ==
    ASSUME IInv, AInv, NEW c \in Clients, op[c] # "none",
           NEW routine \in {"Read", "Write"}, NEW n \in Nat, n <= BufSize,
           Finish(c, routine, n),
           Carries([c |-> c, routine |-> routine, bytes |-> n])',
           OthersCounts(c), read'[c] <= sent[c]
    PROVE  AInv'
<1> DEFINE a == [c |-> c, routine |-> routine, bytes |-> n]
<1> USE DEF IInv, AInv
<1>1. /\ apcs' = Append(apcs, a) /\ apcs \in Seq(Apc) /\ a \in Apc /\ Carries(a)'
      /\ op' = [op EXCEPT ![c] = "none"]
      /\ UNCHANGED <<sent, peer, sock, blk, win, main>>
    BY DEF Finish, clientVars, TypeOK, Apc
<1>2. sock[c] = "open"
    BY DEF Works, Held
<1>3. Carried'
  <2> SUFFICES ASSUME NEW i \in 1 .. Len(apcs') PROVE Carries(apcs[i])'
      BY DEF Carried
  <2>1. CASE i = Len(apcs) + 1
    <3>1. apcs'[i] = a
        BY <2>1, <1>1
    <3> QED
        BY <3>1, <1>1 DEF Carries
  <2>2. CASE i \in 1 .. Len(apcs)
    <3>1. apcs'[i] = apcs[i] /\ apcs[i] \in Apc /\ apcs[i].c \in Clients /\ Carries(apcs[i])
        BY <2>2, <1>1, Waiting DEF Carried
    <3>2. apcs[i].c # c
        BY <2>2 DEF Waits
    <3> QED
        BY <3>1, <3>2, <1>1 DEF Carries, OthersCounts
  <2>3. Len(apcs') = Len(apcs) + 1 /\ Len(apcs) \in Nat
      BY <1>1
  <2> QED
      BY <2>1, <2>2, <2>3
<1>4. Counted'
  <2> SUFFICES ASSUME NEW d \in Clients
               PROVE  /\ read'[d] <= sent'[d]
                      /\ sock'[d] = "none" => read'[d] = 0 /\ Len(out'[d]) = 0
                      /\ op'[d] = "recv" => Len(out'[d]) = read'[d]
                      /\ op'[d] = "send" => win'[d] = bytes'[d] /\ Len(out'[d]) + bytes'[d] = read'[d]
      BY DEF Counted
  <2>1. CASE d = c
      BY <2>1, <1>1, <1>2 DEF TypeOK
  <2>2. CASE d # c
    <3>1. op'[d] = op[d]
        BY <2>2, <1>1 DEF TypeOK
    <3> QED
        BY <2>2, <3>1, <1>1 DEF Counted, OthersCounts
  <2> QED
      BY <2>1, <2>2
<1>5. Ends'
    BY <1>1 DEF Ends
<1> QED
    BY <1>3, <1>4, <1>5

\* What a finished send has delivered is what the receive before it got.
LEMMA SendDelivers ==
    ASSUME IInv, AInv, NEW c \in Clients, SendDone(c)
    PROVE  /\ win[c] \in 1 .. BufSize /\ Len(out[c]) + win[c] = read[c]
           /\ out' = [out EXCEPT ![c] = @ \o Bytes(Len(@), read[c])]
           /\ Len(out'[c]) = read[c]
<1>1. win[c] \in 1 .. BufSize
    BY DEF IInv, SendDone, Works, Held
<1>2. win[c] = bytes[c] /\ Len(out[c]) + bytes[c] = read[c] /\ out[c] \in Seq(Nat) /\ read[c] \in Nat /\ bytes[c] \in Nat
    BY DEF IInv, AInv, TypeOK, Counted, SendDone
<1>3. read[c] - bytes[c] = Len(out[c]) /\ read[c] - bytes[c] + win[c] = read[c] /\ Len(out[c]) \in Nat
    BY <1>2
<1>4. out' = [out EXCEPT ![c] = out[c] \o Bytes(Len(out[c]), read[c])]
    BY <1>3 DEF SendDone
<1>5. Len(out[c]) <= read[c]
    BY <1>2, <1>3
<1>6. PICK b \in Seq(Nat) : b = Bytes(Len(out[c]), read[c]) /\ Len(b) = read[c] - Len(out[c])
    BY <1>2, <1>3, <1>5, BytesType, BytesLen
<1>7. Len(out[c] \o b) = read[c]
  <2>1. Len(out[c] \o b) = Len(out[c]) + Len(b)
      BY <1>2
  <2> QED
      BY <2>1, <1>2, <1>3, <1>6
<1>8. out'[c] = out[c] \o b
    BY <1>4, <1>6 DEF IInv, TypeOK
<1> QED
    BY <1>1, <1>2, <1>4, <1>7, <1>8

LEMMA KernelAccounts == ASSUME IInv, AInv, NEW c \in Clients, Kernel(c) PROVE AInv'
<1> USE DEF IInv, AInv
<1>a. /\ op[c] # "none" => win[c] \in 1 .. BufSize
      /\ read[c] \in Nat /\ sent[c] \in Nat /\ read[c] <= sent[c] /\ out[c] \in Seq(Nat)
    BY DEF Works, Held, TypeOK, Counted
<1>1. CASE RecvData(c)
  <2>1. PICK k \in 0 .. win[c] :
           /\ read[c] + k <= sent[c] /\ Finish(c, "Read", k)
           /\ k = 0 => win[c] = 0
           /\ read' = [read EXCEPT ![c] = @ + k] /\ bytes' = [bytes EXCEPT ![c] = k]
      BY <1>1 DEF RecvData
  <2>2. op[c] = "recv" /\ UNCHANGED out
      BY <1>1 DEF RecvData
  <2>3. k \in Nat /\ k # 0 /\ k <= BufSize
      BY <1>a, <2>1, <2>2, ComplRoutineAssumption
  <2>4. read'[c] = read[c] + k /\ bytes'[c] = k /\ Len(out[c]) = read[c]
      BY <2>1, <2>2 DEF TypeOK, Counted
  <2>5. Carries([c |-> c, routine |-> "Read", bytes |-> k])'
      BY <2>2, <2>3, <2>4 DEF Carries
  <2>6. OthersCounts(c)
      BY <2>1, <2>2 DEF OthersCounts, TypeOK
  <2> QED
      BY <2>1, <2>2, <2>3, <2>4, <2>5, <2>6, FinishAccounts
<1>2. CASE RecvEnd(c)
  <2>1. op[c] = "recv" /\ Finish(c, "Read", 0) /\ peer[c] \in {"fin", "rst"}
        /\ UNCHANGED <<peer, read, bytes, out>>
      BY <1>2 DEF RecvEnd, Finish, clientVars
  <2>2. Len(out[c]) = read[c]
      BY <2>1 DEF Counted
  <2>3. Carries([c |-> c, routine |-> "Read", bytes |-> 0])'
      BY <1>a, <2>1, <2>2 DEF Carries
  <2>4. OthersCounts(c)
      BY <2>1 DEF OthersCounts
  <2> QED
      BY <1>a, <2>1, <2>3, <2>4, ComplRoutineAssumption, FinishAccounts
<1>3. CASE SendDone(c)
  <2>1. op[c] = "send" /\ Finish(c, "Write", win[c]) /\ UNCHANGED <<read, bytes>>
      BY <1>3 DEF SendDone
  <2>2. /\ win[c] \in Nat /\ win[c] <= BufSize /\ Len(out'[c]) = read[c]
        /\ \A d \in Clients \ {c} : out'[d] = out[d]
      BY <1>3, SendDelivers, ComplRoutineAssumption DEF TypeOK
  <2>3. PICK n \in Nat : n = win[c] /\ n <= BufSize
      BY <2>2
  <2>4. Carries([c |-> c, routine |-> "Write", bytes |-> n])'
      BY <2>1, <2>2 DEF Carries
  <2>5. read'[c] <= sent[c]
      BY <1>a, <2>1
  <2>6. OthersCounts(c)
      BY <2>1, <2>2 DEF OthersCounts
  <2> QED
      BY <2>1, <2>3, <2>4, <2>5, <2>6, FinishAccounts
<1>4. CASE SendAbort(c)
  <2>1. op[c] = "send" /\ Finish(c, "Write", 0) /\ peer[c] = "rst"
        /\ UNCHANGED <<peer, read, bytes, out>>
      BY <1>4 DEF SendAbort, Finish, clientVars
  <2>2. Carries([c |-> c, routine |-> "Write", bytes |-> 0])'
      BY <2>1 DEF Carries
  <2>3. OthersCounts(c)
      BY <2>1 DEF OthersCounts
  <2> QED
      BY <1>a, <2>1, <2>2, <2>3, ComplRoutineAssumption, FinishAccounts
<1> QED
    BY <1>1, <1>2, <1>3, <1>4 DEF Kernel

\* The routine at the head of the queue passes its account on.
LEMMA RoutineAccounts == ASSUME IInv, AInv, RunApc PROVE AInv'
<1> USE DEF IInv, AInv
<1>1. /\ apcs \in Seq(Apc) /\ Len(apcs) \in Nat \ {0} /\ apcs' = Tail(apcs)
      /\ UNCHANGED <<sent, peer, read, bytes, out, main>>
    BY DEF RunApc, TypeOK, clientVars
<1>2. PICK a \in Apc : a = Head(apcs)
    BY <1>1
<1> DEFINE c == a.c
<1>3. /\ a = apcs[1] /\ c \in Clients /\ a.bytes \in Nat
      /\ Len(apcs') = Len(apcs) - 1
      /\ \A i \in 1 .. Len(apcs') : apcs'[i] = apcs[i + 1] /\ i + 1 \in 1 .. Len(apcs)
    BY <1>1, <1>2 DEF Apc
<1>4. Carries(a) /\ op[c] = "none" /\ sock[c] = "open"
    BY <1>1, <1>3 DEF Carried, Waits, Held
<1>5. Carried'
  <2> SUFFICES ASSUME NEW i \in 1 .. Len(apcs') PROVE Carries(apcs[i])'
      BY DEF Carried
  <2>1. apcs'[i] = apcs[i + 1] /\ Carries(apcs[i + 1])
      BY <1>3 DEF Carried
  <2> QED
      BY <1>1, <2>1 DEF Carries
\* What remains is to be shown of c.
<1>6. ASSUME OthersWork(c),
             sock'[c] = "open" \/ (sock'[c] = "closed" /\ peer[c] \in {"fin", "rst"}),
             op'[c] = "recv" => Len(out[c]) = read[c],
             op'[c] = "send" => win'[c] = bytes[c] /\ Len(out[c]) + bytes[c] = read[c]
      PROVE  AInv'
  <2>1. Counted'
      BY <1>1, <1>3, <1>6 DEF Counted, OthersWork
  <2>2. Ends'
      BY <1>1, <1>3, <1>6 DEF Ends, OthersWork
  <2> QED
      BY <1>5, <2>1, <2>2
<1>7. CASE a.routine = "Read" /\ ReadCompRoutine(c, a.bytes) /\ a.bytes = 0
  <2>1. /\ sock' = [sock EXCEPT ![c] = "closed"] /\ UNCHANGED <<win, op>>
      BY <1>7 DEF ReadCompRoutine
  <2>2. peer[c] \in {"fin", "rst"}
      BY <1>4, <1>7 DEF Carries
  <2>3. OthersWork(c) /\ sock'[c] = "closed" /\ op'[c] = "none"
      BY <1>3, <1>4, <2>1 DEF OthersWork, TypeOK
  <2> QED
      BY <1>6, <2>2, <2>3
<1>8. CASE a.routine = "Read" /\ ReadCompRoutine(c, a.bytes) /\ a.bytes > 0
  <2>1. win' = [win EXCEPT ![c] = a.bytes] /\ Start(c, "send") /\ UNCHANGED sock
      BY <1>3, <1>8 DEF ReadCompRoutine
  <2>2. a.bytes = bytes[c] /\ Len(out[c]) + a.bytes = read[c]
      BY <1>3, <1>4, <1>8 DEF Carries
  <2>3. op'[c] # "recv" /\ \A d \in Clients : d # c => op'[d] = op[d]
      BY <1>3, <2>1 DEF Start, TypeOK
  <2>4. sock'[c] = "open" /\ win'[c] = bytes[c]
      BY <1>3, <1>4, <2>1, <2>2 DEF TypeOK
  <2>5. OthersWork(c)
      BY <2>1, <2>3 DEF OthersWork, TypeOK
  <2>6. Len(out[c]) + bytes[c] = read[c]
      BY <2>2
  <2> QED
      BY <1>6, <2>3, <2>4, <2>5, <2>6
<1>9. CASE a.routine = "Write" /\ WriteCompRoutine(c)
  <2>1. Start(c, "recv") /\ UNCHANGED <<sock, win>>
      BY <1>9 DEF WriteCompRoutine
  <2>2. peer[c] = "rst" \/ Len(out[c]) = read[c]
      BY <1>4, <1>9 DEF Carries
  <2>3. /\ op'[c] # "send" /\ (op'[c] = "recv" => peer[c] # "rst")
        /\ \A d \in Clients : d # c => op'[d] = op[d]
      BY <1>3, <2>1 DEF Start, TypeOK
  <2>4. sock'[c] = "open"
      BY <1>4, <2>1
  <2>5. OthersWork(c)
      BY <2>1, <2>3 DEF OthersWork
  <2>6. op'[c] = "recv" => Len(out[c]) = read[c]
      BY <2>2, <2>3
  <2> QED
      BY <1>6, <2>3, <2>4, <2>5, <2>6
<1>10. \/ a.routine = "Read" /\ ReadCompRoutine(c, a.bytes)
       \/ a.routine = "Write" /\ WriteCompRoutine(c)
    BY <1>2 DEF RunApc
<1> QED
    BY <1>3, <1>7, <1>8, <1>9, <1>10

LEMMA AcceptAccounts == ASSUME IInv, AInv, NEW c \in Clients, Accept(c) PROVE AInv'
<1> USE DEF IInv, AInv
<1>1. /\ sock[c] = "none" /\ UNCHANGED <<sent, peer, read, bytes, apcs, out>>
      /\ sock' = [sock EXCEPT ![c] = "open"] /\ win' = [win EXCEPT ![c] = BufSize]
      /\ Start(c, "recv")
    BY DEF Accept, clientVars
<1>2. op'[c] # "send" /\ \A d \in Clients : d # c => op'[d] = op[d]
    BY <1>1 DEF Start, TypeOK
<1>3. Carried'
    BY <1>1 DEF Carried, Carries
<1>4. Counted'
  <2> SUFFICES ASSUME NEW d \in Clients
               PROVE  /\ read[d] <= sent[d]
                      /\ sock'[d] = "none" => read[d] = 0 /\ Len(out[d]) = 0
                      /\ op'[d] = "recv" => Len(out[d]) = read[d]
                      /\ op'[d] = "send" => win'[d] = bytes[d] /\ Len(out[d]) + bytes[d] = read[d]
      BY <1>1 DEF Counted
  <2>1. CASE d = c
      BY <1>1, <1>2, <2>1 DEF Counted, TypeOK
  <2>2. CASE d # c
      BY <1>1, <1>2, <2>2 DEF Counted, TypeOK
  <2> QED
      BY <2>1, <2>2
<1>5. Ends'
    BY <1>1 DEF Ends, TypeOK
<1> QED
    BY <1>3, <1>4, <1>5

LEMMA Accounts == ASSUME IInv, AInv, [Next]_vars PROVE AInv'
<1>1. ASSUME NEW c \in Clients, Client(c) PROVE AInv'
    BY <1>1, ClientAccounts
<1>2. ASSUME NEW c \in Clients, Kernel(c) PROVE AInv'
    BY <1>2, KernelAccounts
<1>3. ASSUME NEW c \in Clients, Accept(c) PROVE AInv'
    BY <1>3, AcceptAccounts
<1>4. CASE RunApc
    BY <1>4, RoutineAccounts
<1>5. CASE Wake \/ AcceptNone \/ AcceptError \/ UNCHANGED vars
  <2>1. UNCHANGED <<clientVars, connVars, read, bytes, apcs, out>>
      BY <1>5 DEF Wake, AcceptNone, AcceptError, vars
  <2> QED
      BY <2>1 DEF AInv, Carried, Carries, Counted, Ends, clientVars, connVars
<1> QED
    BY <1>1, <1>2, <1>3, <1>4, <1>5 DEF Next, Thread

-----------------------------------------------------------------------------
(* Every step is one of EchoService or changes nothing that it speaks of.  *)

Phases == [c \in Clients |-> Phase(c)]

\* Neither the phase of a client nor its stream changes.
LEMMA Stutter ==
    ASSUME UNCHANGED <<sent, out>>, \A c \in Clients : Phase(c)' = Phase(c)
    PROVE  [Echo!Next]_(Echo!vars)
    BY DEF Echo!vars

\* A step that changes the phase of one client.
LEMMA PhaseStep ==
    ASSUME NEW c \in Clients, \A d \in Clients : d # c => Phase(d)' = Phase(d)
    PROVE  Phases' = [Phases EXCEPT ![c] = Phase(c)']
    BY DEF Phases

LEMMA ClientImplements ==
    ASSUME IInv, AInv, main # "exited", NEW c \in Clients, Client(c)
    PROVE  [Echo!Next]_(Echo!vars)
<1> USE DEF IInv, AInv
<1>1. UNCHANGED <<sock, out, main>>
    BY DEF Client, Connect, Write, Fin, Reset, connVars
<1>2. \A d \in Clients : d # c => Phase(d)' = Phase(d)
    BY <1>1 DEF Client, Connect, Write, Fin, Reset, Phase, TypeOK
<1>3. CASE Connect(c)
  <2>1. UNCHANGED sent /\ Phase(c)' = Phase(c)
      BY <1>1, <1>3 DEF Connect, Phase, TypeOK
  <2> QED
      BY <1>1, <1>2, <2>1, Stutter
<1>4. CASE Write(c)
  <2>1. UNCHANGED Phases
      BY <1>1, <1>4 DEF Write, Phases, Phase
  <2>2. Phases[c] = "here"
      BY <1>4 DEF Write, Phases, Phase, Ends
  <2>3. sent' = [sent EXCEPT ![c] = sent'[c]] /\ sent'[c] \in Nat /\ sent'[c] > sent[c]
      BY <1>4 DEF Write, TypeOK
  <2>4. Echo!Ask(c)
      BY <1>1, <2>1, <2>2, <2>3 DEF Echo!Ask, Phases
  <2> QED
      BY <2>4 DEF Echo!Next
<1>5. CASE Fin(c)
  <2>1. Phases[c] = "here" /\ UNCHANGED sent
      BY <1>5 DEF Fin, Phases, Phase, Ends
  <2>2. Phase(c)' = "left"
      BY <1>1, <1>5 DEF Fin, Phase, Ends, TypeOK
  <2>3. Phases' = [Phases EXCEPT ![c] = "left"]
      BY <1>2, <2>2, PhaseStep
  <2>4. Echo!Leave(c)
      BY <1>1, <2>1, <2>3 DEF Echo!Leave, Phases
  <2> QED
      BY <2>4 DEF Echo!Next
<1>6. CASE Reset(c)
  <2>1. Phase(c)' = "gone" /\ UNCHANGED sent
      BY <1>6 DEF Reset, Phase, TypeOK
  <2>2. CASE Phase(c) = "gone"
    <3>1. \A d \in Clients : Phase(d)' = Phase(d)
        BY <1>2, <2>1, <2>2
    <3> QED
        BY <1>1, <2>1, <3>1, Stutter
  <2>3. CASE Phase(c) # "gone"
    <3>1. Phases' = [Phases EXCEPT ![c] = "gone"] /\ Phases[c] # "gone"
        BY <1>2, <2>1, <2>3, PhaseStep DEF Phases
    <3>2. Echo!Abort(c)
        BY <1>1, <2>1, <3>1 DEF Echo!Abort, Phases
    <3> QED
        BY <3>2 DEF Echo!Next
  <2> QED
      BY <2>2, <2>3
<1> QED
    BY <1>3, <1>4, <1>5, <1>6 DEF Client

LEMMA KernelImplements ==
    ASSUME IInv, AInv, NEW c \in Clients, Kernel(c)
    PROVE  [Echo!Next]_(Echo!vars)
<1>1. UNCHANGED <<sent, peer, sock, main>>
    BY DEF Kernel, RecvData, RecvEnd, SendDone, SendAbort, Finish, clientVars
<1>2. \A d \in Clients : Phase(d)' = Phase(d)
    BY <1>1 DEF Phase
<1>3. CASE SendDone(c)
  <2> DEFINE n == read[c]
  <2>1. /\ win[c] \in Nat \ {0} /\ Len(out[c]) + win[c] = n
        /\ out' = [out EXCEPT ![c] = @ \o Bytes(Len(@), n)]
    <3>1. win[c] \in 1 .. BufSize /\ Len(out[c]) + win[c] = n
          /\ out' = [out EXCEPT ![c] = @ \o Bytes(Len(@), n)]
        BY <1>3, SendDelivers
    <3> QED
        BY <3>1, ComplRoutineAssumption
  <2>2. n <= sent[c] /\ n \in Nat /\ sent[c] \in Nat /\ Len(out[c]) \in Nat
      BY DEF IInv, AInv, TypeOK, Counted
  <2>3. n \in (Len(out[c]) + 1) .. sent[c]
      BY <2>1, <2>2
  <2>4. Bytes(Len(out[c]), n) = Echo!Bytes(Len(out[c]), n)
      BY DEF Bytes, Echo!Bytes
  <2>5. out' = [out EXCEPT ![c] = @ \o Echo!Bytes(Len(@), n)]
      BY <2>1, <2>4
  <2>6. UNCHANGED Phases
      BY <1>2 DEF Phases
  <2>7. Echo!Echo(c)
      BY <1>1, <2>3, <2>5, <2>6 DEF Echo!Echo, Phases
  <2> QED
      BY <2>7 DEF Echo!Next
<1>4. CASE RecvData(c) \/ RecvEnd(c) \/ SendAbort(c)
  <2>1. UNCHANGED out
      BY <1>4 DEF RecvData, RecvEnd, SendAbort
  <2> QED
      BY <1>1, <1>2, <2>1, Stutter
<1> QED
    BY <1>3, <1>4 DEF Kernel

LEMMA RoutineImplements ==
    ASSUME IInv, AInv, main # "exited", RunApc
    PROVE  [Echo!Next]_(Echo!vars)
<1> USE DEF IInv, AInv
<1>1. apcs \in Seq(Apc) /\ Len(apcs) \in Nat \ {0} /\ UNCHANGED <<sent, peer, out, main>>
    BY DEF RunApc, TypeOK, clientVars
<1>2. PICK a \in Apc : a = Head(apcs) /\ a = apcs[1]
    BY <1>1
<1> DEFINE c == a.c
<1>3. c \in Clients /\ sock[c] = "open" /\ Carries(a)
    BY <1>1, <1>2 DEF Carried, Waits, Held, Apc
<1>4. CASE UNCHANGED sock
  <2>1. \A d \in Clients : Phase(d)' = Phase(d)
      BY <1>1, <1>4 DEF Phase
  <2> QED
      BY <1>1, <2>1, Stutter
<1>5. CASE a.routine = "Read" /\ a.bytes = 0 /\ sock' = [sock EXCEPT ![c] = "closed"]
  <2>1. \A d \in Clients : d # c => Phase(d)' = Phase(d)
      BY <1>1, <1>5 DEF Phase, TypeOK
  <2>2. Phase(c)' = "gone" /\ peer[c] \in {"fin", "rst"}
      BY <1>1, <1>3, <1>5 DEF Phase, TypeOK, Carries
  <2>3. CASE peer[c] = "rst"
    <3>1. \A d \in Clients : Phase(d)' = Phase(d)
        BY <2>1, <2>2, <2>3 DEF Phase
    <3> QED
        BY <1>1, <3>1, Stutter
  <2>4. CASE peer[c] = "fin"
    <3>1. Phases[c] = "left"
        BY <1>3, <2>4 DEF Phases, Phase
    <3>2. Phases' = [Phases EXCEPT ![c] = "gone"]
        BY <1>3, <2>1, <2>2, PhaseStep
    <3>3. Echo!Drop(c)
        BY <1>1, <3>1, <3>2 DEF Echo!Drop, Phases
    <3> QED
        BY <1>3, <3>3 DEF Echo!Next
  <2> QED
      BY <2>2, <2>3, <2>4
<1>6. \/ UNCHANGED sock
      \/ a.routine = "Read" /\ a.bytes = 0 /\ sock' = [sock EXCEPT ![c] = "closed"]
    BY <1>2 DEF RunApc, ReadCompRoutine, WriteCompRoutine
<1> QED
    BY <1>4, <1>5, <1>6

LEMMA AcceptImplements ==
    ASSUME IInv, AInv, NEW c \in Clients, Accept(c)
    PROVE  [Echo!Next]_(Echo!vars)
<1>1. /\ sock[c] = "none" /\ sock' = [sock EXCEPT ![c] = "open"] /\ main = "accept" /\ main' = "sleep"
      /\ UNCHANGED <<sent, peer, out>>
    BY DEF Accept, clientVars
<1>2. \A d \in Clients : Phase(d)' = Phase(d)
    BY <1>1 DEF IInv, TypeOK, Phase
<1> QED
    BY <1>1, <1>2, Stutter

\* The process may end only where the service allows it.
LEMMA ErrorImplements ==
    ASSUME AInv, AcceptError
    PROVE  [Echo!Next]_(Echo!vars)
<1>1. EarlyReset /\ UNCHANGED <<sent, out>> /\ main' = "exited"
    BY DEF AInv, Ends, AcceptError, clientVars
<1>2. Phases' = [c \in Clients |-> "gone"]
    BY <1>1 DEF Phases, Phase
<1>3. Echo!Halt
    BY <1>1, <1>2 DEF Echo!Halt, Phases
<1> QED
    BY <1>3 DEF Echo!Next

LEMMA StepImplements == ASSUME IInv, AInv, [Next]_vars PROVE [Echo!Next]_(Echo!vars)
<1>1. CASE UNCHANGED vars
  <2>1. UNCHANGED <<sent, out>> /\ \A c \in Clients : Phase(c)' = Phase(c)
      BY <1>1 DEF vars, clientVars, connVars, Phase
  <2> QED
      BY <2>1, Stutter
<1>2. CASE Next
  <2>1. main # "exited"
      BY <1>2 DEF Next
  <2>2. ASSUME NEW c \in Clients, Client(c) PROVE [Echo!Next]_(Echo!vars)
      BY <2>1, <2>2, ClientImplements
  <2>3. ASSUME NEW c \in Clients, Kernel(c) PROVE [Echo!Next]_(Echo!vars)
      BY <2>3, KernelImplements
  <2>4. ASSUME NEW c \in Clients, Accept(c) PROVE [Echo!Next]_(Echo!vars)
      BY <2>4, AcceptImplements
  <2>5. CASE RunApc
      BY <2>1, <2>5, RoutineImplements
  <2>6. CASE AcceptError
      BY <2>6, ErrorImplements
  <2>7. CASE Wake \/ AcceptNone
    <3>1. UNCHANGED <<sent, out>> /\ \A c \in Clients : Phase(c)' = Phase(c)
        BY <2>1, <2>7 DEF Wake, AcceptNone, clientVars, connVars, Phase
    <3> QED
        BY <3>1, Stutter
  <2> QED
      BY <1>2, <2>2, <2>3, <2>4, <2>5, <2>6, <2>7 DEF Next, Thread
<1> QED
    BY <1>1, <1>2

LEMMA InitImplements == Init => Echo!Init
    BY DEF Init, Echo!Init, Phase

\* The account holds at all times: nothing read is lost or echoed twice.
THEOREM Accounted == Spec => []AInv
<1>1. AInv /\ IInv /\ [Next]_vars => AInv'
    BY Accounts
<1> QED
    BY AInitial, <1>1, Invariance, PTL DEF Spec

\* The safety part of ImplementsEcho: whatever the clients do, the server
\* answers with the bytes it was sent, in their order, and drops only clients
\* who have left (lines 85-120).
THEOREM ImplementsEchoSafely == Spec => Echo!Safety
<1>1. IInv /\ AInv /\ [Next]_vars => [Echo!Next]_(Echo!vars)
    BY StepImplements
<1> QED
    BY InitImplements, <1>1, Invariance, Accounted, PTL DEF Spec, Echo!Safety
=============================================================================
