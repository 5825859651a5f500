--------------------------- MODULE WebServerProofs ---------------------------
(***************************************************************************)
(* Proofs about WebServer, for any clients, requests, handles and streams. *)
(*                                                                         *)
(* As long as no thread with a bad request runs on its handle, a thread    *)
(* owns the handle from accept to closesocket, and no other thread that is *)
(* still to use its handle has the same one.  So what its client gets is   *)
(* decided by its own place in the code.                                   *)
(***************************************************************************)
EXTENDS WebServer, TLAPS

BadRun(c) == pc[c] \notin {"none", "recv"} /\ Bad(job[c])

Harmed(d) == \E c \in Clients \ {d} : BadRun(c) /\ hnd[c] = hnd[d]

\* The thread of d is in front of its first closesocket.
Owning(d) ==
    \/ pc[d] = "recv"
    \/ pc[d] = "error" /\ (why[d] = "no file" => ~Bad(job[d]))
    \/ pc[d] \in {"open", "data"} /\ ~Bad(job[d])

Own(d) ==
    /\ sock[hnd[d]] = d
    /\ \A c \in Clients \ {d} : pc[c] \notin {"none", "done"} => hnd[c] # hnd[d]

\* The error is what is due to d.
ErrorDue(d) == Bad(req[d]) \/ ~req[d].there \/ files = MaxFiles

\* What d has received while its thread owns the handle: with what the thread is
\* still to send, the answer.
Progress(d) ==
    /\ pc[d] \in {"recv", "open"} => got[d] = <<>>
    /\ pc[d] = "data" => got[d] \o todo[d] = OkAnswer(d) /\ req[d].there
    /\ pc[d] = "error" => got[d] \o todo[d] = ErrorAnswer(d) /\ ErrorDue(d)
    /\ pc[d] = "error" => (why[d] = "no file" <=> ~Bad(req[d]))

\* The state of a client whose thread has been left alone.
Fine(d) ==
    /\ pc[d] = "recv" => at[d] \in {"connected", "sent", "gone"}
    /\ pc[d] # "recv" => at[d] \in {"read", "gone"} /\ job[d] = req[d]
    /\ pc[d] = "close" => Bad(job[d])
    /\ Owning(d) => Own(d) /\ Progress(d)
    /\ ~Owning(d) => conn[d] = "closed" /\ got[d] \in Answers(d)

\* Clients before their accept.
Pristine ==
    \A d \in Clients :
       /\ pc[d] = "none" <=> conn[d] \in {"none", "backlog"}
       /\ pc[d] = "none" => got[d] = <<>> /\ at[d] \in {"idle", "connected", "sent", "gone"}
       /\ conn[d] = "none" <=> at[d] = "idle"
       /\ at[d] \in {"idle", "connected", "gone"} => req[d] = NoText

\* A socket is that of the client it was made for, under one handle.
OneHandle ==
    \A h \in Handles, d \in Clients : sock[h] = d => conn[d] = "open" /\ hnd[d] = h

Reasons == \A d \in Clients : pc[d] = "error" => why[d] # "none"

Alone == \A d \in Clients : pc[d] = "none" \/ Harmed(d) \/ Fine(d)

IInv == TypeOK /\ Pristine /\ OneHandle /\ Reasons /\ Alone

LEMMA Initial == Init => IInv
<1> SUFFICES ASSUME Init PROVE IInv
    OBVIOUS
<1>1. (CHOOSE h \in Handles : TRUE) \in Handles
    BY WebServerAssumption
<1>2. TypeOK
    BY <1>1, WebServerAssumption DEF Init, TypeOK, NoText, Texts, Labels
<1> QED
    BY <1>2, WebServerAssumption DEF Init, IInv, Pristine, OneHandle, Reasons, Alone

-----------------------------------------------------------------------------
(* Sequences of pieces. *)

LEMMA SameElements ==
    ASSUME NEW S, NEW s \in Seq(S), NEW t \in Seq(S), Len(s) = Len(t),
           \A i \in 1 .. Len(s) : s[i] = t[i]
    PROVE  s = t
    OBVIOUS

\* Moving the head of what is left to the end of what is done changes nothing.
LEMMA MoveOn ==
    ASSUME NEW S, NEW s \in Seq(S), NEW t \in Seq(S), t # <<>>
    PROVE  /\ Head(t) \in S /\ Tail(t) \in Seq(S)
           /\ Append(s, Head(t)) \o Tail(t) = s \o t
<1>1. Len(t) \in Nat \ {0} /\ Head(t) = t[1] /\ t[1] \in S /\ Head(t) \in S
    OBVIOUS
<1>2. /\ Tail(t) \in Seq(S) /\ Len(Tail(t)) = Len(t) - 1
      /\ \A i \in 1 .. Len(t) - 1 : Tail(t)[i] = t[i + 1]
    OBVIOUS
<1>3. PICK a \in Seq(S) : a = Append(s, t[1])
  <2>1. Append(s, t[1]) \in Seq(S)
      BY <1>1
  <2> QED
      BY <2>1
<1>4. /\ Len(a) = Len(s) + 1 /\ a[Len(s) + 1] = t[1]
      /\ \A i \in 1 .. Len(s) : a[i] = s[i]
    BY <1>1, <1>3
<1>5. PICK b \in Seq(S) : b = Tail(t)
    BY <1>2
<1>6. /\ a \o b \in Seq(S) /\ Len(a \o b) = Len(a) + Len(b)
      /\ \A i \in 1 .. Len(a) : (a \o b)[i] = a[i]
      /\ \A i \in Len(a) + 1 .. Len(a) + Len(b) : (a \o b)[i] = b[i - Len(a)]
    OBVIOUS
<1>7. /\ s \o t \in Seq(S) /\ Len(s \o t) = Len(s) + Len(t)
      /\ \A i \in 1 .. Len(s) : (s \o t)[i] = s[i]
      /\ \A i \in Len(s) + 1 .. Len(s) + Len(t) : (s \o t)[i] = t[i - Len(s)]
    OBVIOUS
<1>8. ASSUME NEW i \in 1 .. Len(s) + Len(t) PROVE (a \o b)[i] = (s \o t)[i]
  <2>1. CASE i <= Len(s)
      BY <1>4, <1>6, <1>7, <2>1
  <2>2. CASE i = Len(s) + 1
      BY <1>1, <1>4, <1>6, <1>7, <2>2
  <2>3. CASE i > Len(s) + 1
    <3>1. (a \o b)[i] = b[i - (Len(s) + 1)]
        BY <1>1, <1>2, <1>4, <1>5, <1>6, <2>3
    <3>2. b[i - (Len(s) + 1)] = t[i - Len(s)]
        BY <1>1, <1>2, <1>5, <2>3
    <3>3. (s \o t)[i] = t[i - Len(s)]
        BY <1>7, <2>3
    <3> QED
        BY <3>1, <3>2, <3>3
  <2>4. i <= Len(s) \/ i = Len(s) + 1 \/ i > Len(s) + 1
      OBVIOUS
  <2> QED
      BY <2>1, <2>2, <2>3, <2>4
<1>9. Len(a \o b) = Len(s) + Len(t)
    BY <1>1, <1>2, <1>4, <1>5, <1>6
<1>10. a \o b = s \o t
    BY <1>6, <1>7, <1>8, <1>9, SameElements
<1> QED
    BY <1>1, <1>2, <1>3, <1>5, <1>10

LEMMA Whole ==
    ASSUME NEW S, NEW s \in Seq(S)
    PROVE  <<>> \o s = s /\ s \o <<>> = s
    OBVIOUS

LEMMA Beginning ==
    ASSUME NEW S, NEW s \in Seq(S), NEW t \in Seq(S)
    PROVE  IsPrefix(s, s \o t)
<1>1. PICK r : r = s \o t
    OBVIOUS
<1>2. r \in Seq(S) /\ Len(s) <= Len(r) /\ \A i \in 1 .. Len(s) : r[i] = s[i]
    BY <1>1
<1>3. SubSeq(s, 1, Len(s)) = SubSeq(r, 1, Len(s))
    BY <1>2
<1> QED
    BY <1>1, <1>2, <1>3 DEF IsPrefix

LEMMA PartTypes ==
    ASSUME NEW r
    PROVE  ErrorParts \in Seq(Parts) /\ OkParts(r) \in Seq(Parts)
<1>1. ASSUME NEW k \in Parts PROVE Header(k) \in Seq(Parts)
  <2>1. HeaderLines \in Nat /\ Header(k) \in [1 .. HeaderLines -> Parts]
      BY WebServerAssumption DEF Header
  <2> QED
      BY <2>1
<1>2. "200 html" \in Parts /\ "200 plain" \in Parts /\ "400" \in Parts /\ "error text" \in Parts
    BY DEF Parts
<1>3. ASSUME NEW h \in Seq(Parts), NEW t \in Seq(Parts) PROVE h \o t \in Seq(Parts)
    OBVIOUS
<1>4. \A x \in Parts : <<x>> \in Seq(Parts)
    OBVIOUS
<1>5. ErrorParts \in Seq(Parts)
    BY <1>1, <1>2, <1>3, <1>4 DEF ErrorParts
<1>6. File \in Seq(Parts)
  <2>1. Len(File) \in Nat /\ DOMAIN File = 1 .. Len(File) /\ File = [i \in DOMAIN File |-> File[i]]
      BY WebServerAssumption
  <2>2. \A i \in DOMAIN File : File[i] \in Parts
      BY DEF Parts
  <2>3. File \in [1 .. Len(File) -> Parts]
      BY <2>1, <2>2
  <2> QED
      BY <2>1, <2>3
<1>7. OkParts(r) = Header("200 html") \o File \/ OkParts(r) = Header("200 plain") \o File
    BY DEF OkParts
<1>8. OkParts(r) \in Seq(Parts)
    BY <1>1, <1>2, <1>3, <1>6, <1>7
<1> QED
    BY <1>5, <1>8

LEMMA PieceTypes ==
    ASSUME NEW d \in Clients, NEW parts \in Seq(Parts)
    PROVE  Pieces(d, parts) \in Seq(Sendings)
<1> DEFINE f == [i \in 1 .. Len(parts) |-> [part |-> parts[i], by |-> d]]
<1>1. Pieces(d, parts) = f
    BY DEF Pieces
<1>2. \A i \in 1 .. Len(parts) : parts[i] \in Parts /\ [part |-> parts[i], by |-> d] \in Sendings
    BY DEF Sendings
<1>3. Len(parts) \in Nat /\ f \in [1 .. Len(parts) -> Sendings]
    BY <1>2
<1> HIDE DEF f
<1>4. f \in Seq(Sendings)
    BY <1>3
<1> QED
    BY <1>1, <1>4

LEMMA AnswerTypes ==
    ASSUME NEW d \in Clients
    PROVE  OkAnswer(d) \in Seq(Sendings) /\ ErrorAnswer(d) \in Seq(Sendings)
    BY PieceTypes, PartTypes DEF OkAnswer, ErrorAnswer

\* The answers due, by what is asked for.
LEMMA Due ==
    ASSUME NEW d \in Clients
    PROVE  /\ ErrorDue(d) => ErrorAnswer(d) \in Answers(d)
           /\ ~Bad(req[d]) /\ req[d].there => OkAnswer(d) \in Answers(d)
    BY DEF ErrorDue, Answers

LEMMA EmptyPrefix == ASSUME NEW d \in Clients PROVE \E a \in Answers(d) : IsPrefix(<<>>, a)
<1>1. \A a \in Seq(Sendings) : IsPrefix(<<>>, a)
  <2>1. ASSUME NEW a \in Seq(Sendings) PROVE IsPrefix(<<>>, a)
    <3>1. <<>> \in Seq(Sendings)
        OBVIOUS
    <3>2. IsPrefix(<<>>, <<>> \o a)
        BY <2>1, <3>1, Beginning
    <3>3. <<>> \o a = a
        BY <2>1, Whole
    <3> QED
        BY <3>2, <3>3
  <2> QED
      BY <2>1
<1> QED
    BY <1>1, AnswerTypes DEF Answers

\* A client whose thread has been left alone has its answer, or a part of it.
LEMMA FineIsProper == ASSUME IInv, NEW d \in Clients, Fine(d), pc[d] # "none" PROVE Proper(d)
<1>1. got[d] \in Seq(Sendings) /\ todo[d] \in Seq(Sendings)
    BY DEF IInv, TypeOK
<1>2. IsPrefix(got[d], got[d] \o todo[d]) /\ IsPrefix(got[d], got[d])
  <2>1. IsPrefix(got[d], got[d] \o todo[d])
      BY <1>1, Beginning
  <2>2. <<>> \in Seq(Sendings)
      OBVIOUS
  <2>3. IsPrefix(got[d], got[d] \o <<>>)
      BY <1>1, <2>2, Beginning
  <2>4. got[d] \o <<>> = got[d]
      BY <1>1, Whole
  <2> QED
      BY <2>1, <2>3, <2>4
<1>3. CASE ~Owning(d)
  <2>1. got[d] \in Answers(d)
      BY <1>3 DEF Fine
  <2> QED
      BY <1>2, <2>1 DEF Proper
<1>4. CASE Owning(d)
  <2>1. conn[d] = "open" /\ Progress(d)
      BY <1>4 DEF Fine, Own, IInv, OneHandle, TypeOK
  <2>2. \E a \in Answers(d) : IsPrefix(got[d], a)
    <3>1. CASE pc[d] \in {"recv", "open"}
        BY <2>1, <3>1, EmptyPrefix DEF Progress
    <3>2. CASE pc[d] = "error"
        BY <1>2, <2>1, <3>2, Due DEF Progress
    <3>3. CASE pc[d] = "data"
        BY <1>2, <1>4, <2>1, <3>3, Due DEF Progress, Owning, Fine
    <3> QED
        BY <1>4, <3>1, <3>2, <3>3 DEF Owning
  <2> QED
      BY <2>1, <2>2 DEF Proper
<1> QED
    BY <1>3, <1>4

-----------------------------------------------------------------------------
(* What a step of the thread of c changes. *)

Apart(c) ==
    \A e \in Clients \ {c} : pc'[e] = pc[e] /\ job'[e] = job[e] /\ why'[e] = why[e] /\ todo'[e] = todo[e]

\* Only the client whose socket the handle is notices.
Reach(c) ==
    \A e \in Clients :
       sock[hnd[c]] # e => got'[e] = got[e] /\ conn'[e] = conn[e] /\ at'[e] = at[e]

Reading(c) ==
    \A e \in Clients : at'[e] = at[e] \/ (at[e] = "sent" /\ at'[e] = "read")

Effect(c) ==
    /\ pc[c] \notin {"none", "done"} /\ pc'[c] \notin {"none", "recv"}
    /\ hnd' = hnd /\ req' = req /\ files <= files'
    /\ Apart(c) /\ Reach(c) /\ Reading(c)
    /\ (sock' = sock /\ conn' = conn) \/ CloseSocket(c)
    /\ pc[c] # "recv" => job'[c] = job[c]
    /\ pc'[c] = "error" => why'[c] # "none"

LEMMA Appended == ASSUME NEW S, NEW s \in Seq(S), NEW x \in S PROVE Append(s, x) \in Seq(S)
    OBVIOUS

LEMMA Streams == ASSUME TypeOK PROVE files \in 0 .. MaxFiles /\ files \in Nat /\ files <= files
<1>1. files \in 0 .. MaxFiles /\ MaxFiles \in Nat
    BY WebServerAssumption DEF TypeOK
<1> QED
    BY <1>1

LEMMA SendTypes ==
    ASSUME TypeOK, NEW c \in Clients, SendPiece(c)
    PROVE  /\ Head(todo[c]) \in Sendings /\ Tail(todo[c]) \in Seq(Sendings)
           /\ todo' \in [Clients -> Seq(Sendings)] /\ got' \in [Clients -> Seq(Sendings)]
           /\ \A e \in Clients : sock[hnd[c]] # e => got'[e] = got[e]
<1>1. Head(todo[c]) \in Sendings /\ Tail(todo[c]) \in Seq(Sendings)
  <2>1. todo[c] \in Seq(Sendings) /\ todo[c] # <<>>
      BY DEF TypeOK, SendPiece
  <2> QED
      BY <2>1, MoveOn
<1>2. ASSUME NEW e \in Clients PROVE got'[e] \in Seq(Sendings)
  <2>1. got[e] \in Seq(Sendings)
      BY DEF TypeOK
  <2>2. got'[e] = IF sock[hnd[c]] = e THEN Append(got[e], Head(todo[c])) ELSE got[e]
      BY DEF SendPiece
  <2>3. Append(got[e], Head(todo[c])) \in Seq(Sendings)
      BY <1>1, <2>1, Appended
  <2> QED
      BY <2>1, <2>2, <2>3
<1>3. got' \in [Clients -> Seq(Sendings)]
    BY <1>2 DEF SendPiece
<1>4. todo' \in [Clients -> Seq(Sendings)]
    BY <1>1 DEF SendPiece, TypeOK
<1> QED
    BY <1>1, <1>3, <1>4 DEF SendPiece

LEMMA AnswerErrorTypes ==
    ASSUME TypeOK, NEW c \in Clients, NEW w \in {"no HTTP", "method", "no file"}, AnswerError(c, w)
    PROVE  /\ pc' \in [Clients -> Labels] /\ pc'[c] = "error"
           /\ why' \in [Clients -> {"none", "no HTTP", "method", "no file"}] /\ why'[c] = w
           /\ todo' \in [Clients -> Seq(Sendings)]
           /\ \A e \in Clients \ {c} : pc'[e] = pc[e] /\ why'[e] = why[e] /\ todo'[e] = todo[e]
<1>1. Pieces(c, ErrorParts) \in Seq(Sendings)
    BY PieceTypes, PartTypes
<1>2. todo' \in [Clients -> Seq(Sendings)]
    BY <1>1 DEF AnswerError, TypeOK
<1> QED
    BY <1>2 DEF AnswerError, Goto, TypeOK, Labels

LEMMA CloseTypes ==
    ASSUME TypeOK, NEW c \in Clients, CloseSocket(c)
    PROVE  /\ sock' \in [Handles -> Clients \cup {Free}]
           /\ conn' \in [Clients -> {"none", "backlog", "open", "closed"}]
           /\ \A e \in Clients : sock[hnd[c]] # e => conn'[e] = conn[e]
    BY DEF TypeOK, CloseSocket

LEMMA RecvStep ==
    ASSUME IInv, NEW c \in Clients, Recv(c), UNCHANGED alive
    PROVE  TypeOK' /\ Effect(c)
<1> USE DEF IInv
<1>1. PICK r \in Texts : Judge(c, r)
    BY WebServerAssumption DEF Recv, TypeOK, NoText, Texts
<1>2. /\ at' \in [Clients -> {"idle", "connected", "sent", "read", "gone"}] /\ Reading(c)
      /\ \A e \in Clients : sock[hnd[c]] # e => at'[e] = at[e]
    BY DEF Recv, TypeOK, Reading
<1>3. /\ job' \in [Clients -> Texts] /\ pc' \in [Clients -> Labels]
      /\ why' \in [Clients -> {"none", "no HTTP", "method", "no file"}]
      /\ todo' \in [Clients -> Seq(Sendings)]
      /\ pc'[c] \in {"error", "open"} /\ (pc'[c] = "error" => why'[c] # "none") /\ Apart(c)
  <2>1. job' \in [Clients -> Texts] /\ \A e \in Clients \ {c} : job'[e] = job[e]
      BY <1>1 DEF Judge, TypeOK
  <2>2. CASE AnswerError(c, "no HTTP") \/ AnswerError(c, "method")
      BY <2>1, <2>2, AnswerErrorTypes DEF Apart
  <2>3. CASE Goto(c, "open") /\ UNCHANGED <<why, todo>>
      BY <2>1, <2>3 DEF Goto, TypeOK, Labels, Apart
  <2> QED
      BY <1>1, <2>2, <2>3 DEF Judge
<1>4. UNCHANGED <<alive, sock, files, hnd, req, conn, got>>
    BY DEF Recv
<1>5. TypeOK'
    BY <1>2, <1>3, <1>4 DEF TypeOK
<1> QED
    BY <1>2, <1>3, <1>4, <1>5, Streams DEF Effect, Recv, Reach

LEMMA SendStep ==
    ASSUME IInv, NEW c \in Clients, SendPiece(c), UNCHANGED alive
    PROVE  TypeOK' /\ Effect(c)
<1> USE DEF IInv
<1>1. UNCHANGED <<alive, sock, files, pc, hnd, job, why, at, req, conn>>
    BY DEF SendPiece, clientVars
<1>2. TypeOK'
    BY <1>1, SendTypes DEF TypeOK
<1>3. Apart(c)
    BY <1>1 DEF Apart, SendPiece
<1>4. pc[c] \in {"error", "data"}
    BY DEF SendPiece
<1> QED
    BY <1>1, <1>2, <1>3, <1>4, SendTypes, Streams DEF Effect, Reach, Reading, Reasons

\* ErrClose and Close.
LEMMA CloseStep ==
    ASSUME IInv, NEW c \in Clients, CloseSocket(c), pc[c] \in {"error", "data", "close"},
           NEW l \in {"close", "open", "done"}, Goto(c, l),
           UNCHANGED <<alive, files, hnd, job, why, todo, clientVars, got>>
    PROVE  TypeOK' /\ Effect(c)
<1> USE DEF IInv
<1>1. pc' \in [Clients -> Labels] /\ pc'[c] = l /\ Apart(c)
    BY DEF Goto, TypeOK, Labels, Apart
<1>2. TypeOK'
    BY <1>1, CloseTypes DEF TypeOK, clientVars
<1> QED
    BY <1>1, <1>2, CloseTypes, Streams DEF Effect, Reach, Reading, clientVars

LEMMA OpenStep ==
    ASSUME IInv, NEW c \in Clients, Open(c), UNCHANGED alive
    PROVE  TypeOK' /\ Effect(c)
<1> USE DEF IInv
<1>1. /\ pc' \in [Clients -> Labels] /\ pc'[c] \in {"data", "error"}
      /\ why' \in [Clients -> {"none", "no HTTP", "method", "no file"}]
      /\ pc'[c] = "error" => why'[c] = "no file"
      /\ todo' \in [Clients -> Seq(Sendings)]
      /\ \A e \in Clients \ {c} : pc'[e] = pc[e] /\ why'[e] = why[e] /\ todo'[e] = todo[e]
  <2>1. CASE AnswerError(c, "no file")
      BY <2>1, AnswerErrorTypes
  <2>2. CASE Goto(c, "data") /\ why' = why
             /\ todo' = [todo EXCEPT ![c] = Pieces(c, OkParts(job[c]))]
    <3>1. Pieces(c, OkParts(job[c])) \in Seq(Sendings)
        BY PieceTypes, PartTypes
    <3>2. todo' \in [Clients -> Seq(Sendings)]
        BY <2>2, <3>1 DEF TypeOK
    <3> QED
        BY <2>2, <3>2 DEF Goto, TypeOK, Labels
  <2> QED
      BY <2>1, <2>2 DEF Open
<1>2. files' \in 0 .. MaxFiles /\ files <= files'
  <2>1. MaxFiles \in Nat /\ files \in 0 .. MaxFiles
      BY Streams, WebServerAssumption
  <2>2. files' = files \/ (files < MaxFiles /\ files' = files + 1)
      BY DEF Open
  <2> QED
      BY <2>1, <2>2
<1>3. UNCHANGED <<alive, sock, hnd, job, at, req, conn, got>> /\ pc[c] = "open"
    BY DEF Open, clientVars
<1>4. TypeOK'
    BY <1>1, <1>2, <1>3 DEF TypeOK
<1>5. Apart(c)
    BY <1>1, <1>3 DEF Apart
<1> QED
    BY <1>1, <1>2, <1>3, <1>4, <1>5 DEF Effect, Reach, Reading

LEMMA HandlerStep == ASSUME IInv, NEW c \in Clients, Handler(c) PROVE TypeOK' /\ Effect(c)
<1>1. CASE Crash(c)
  <2>1. alive' = FALSE /\ pc[c] = "open" /\ UNCHANGED <<sock, files, threadVars, clientVars, conn, got>>
      BY <1>1 DEF Crash
  <2>2. TypeOK'
      BY <2>1 DEF IInv, TypeOK, threadVars, clientVars
  <2>3. Effect(c)
      BY <2>1, Streams DEF IInv, Effect, Apart, Reach, Reading, Reasons, threadVars, clientVars
  <2> QED
      BY <2>2, <2>3
<1>2. CASE Recv(c) /\ UNCHANGED alive
    BY <1>2, RecvStep
<1>3. CASE SendPiece(c) /\ UNCHANGED alive
    BY <1>3, SendStep
<1>4. CASE ErrClose(c) /\ UNCHANGED alive
  <2>1. why[c] \in {"no HTTP", "method", "no file"}
      BY <1>4 DEF IInv, TypeOK, Reasons, ErrClose
  <2>2. PICK l \in {"close", "open", "done"} : Goto(c, l)
      BY <1>4, <2>1 DEF ErrClose
  <2> QED
      BY <1>4, <2>2, CloseStep DEF ErrClose
<1>5. CASE Open(c) /\ UNCHANGED alive
    BY <1>5, OpenStep
<1>6. CASE Close(c) /\ UNCHANGED alive
    BY <1>6, CloseStep DEF Close
<1> QED
    BY <1>1, <1>2, <1>3, <1>4, <1>5, <1>6 DEF Handler

LEMMA EffectKeeps ==
    ASSUME IInv, NEW c \in Clients, Effect(c)
    PROVE  Pristine' /\ OneHandle' /\ Reasons'
<1> USE DEF IInv
<1>1. ASSUME NEW d \in Clients, sock[hnd[c]] = d PROVE conn[d] = "open" /\ hnd[d] = hnd[c]
    BY <1>1 DEF OneHandle, TypeOK
<1>2. ASSUME NEW d \in Clients
      PROVE  conn'[d] = conn[d] \/ (conn[d] = "open" /\ conn'[d] = "closed" /\ sock[hnd[c]] = d)
    BY <1>1 DEF Effect, CloseSocket
<1>3. Pristine'
    BY <1>1, <1>2 DEF Pristine, Effect, Apart, Reach, Reading
<1>4. ASSUME NEW h \in Handles, NEW d \in Clients, sock'[h] = d
      PROVE  conn'[d] = "open" /\ hnd'[d] = h
  <2>1. CASE sock' = sock /\ conn' = conn
      BY <1>4, <2>1 DEF OneHandle, Effect
  <2>2. CASE CloseSocket(c)
    <3>1. h # hnd[c] /\ sock[h] = d
        BY <1>4, <2>2, WebServerAssumption DEF CloseSocket, TypeOK
    <3>2. conn[d] = "open" /\ hnd[d] = h /\ sock[hnd[c]] # d
        BY <3>1, <1>1 DEF OneHandle
    <3> QED
        BY <2>2, <3>2 DEF CloseSocket, Effect
  <2> QED
      BY <2>1, <2>2 DEF Effect
<1>5. OneHandle'
    BY <1>4 DEF OneHandle
<1>6. Reasons'
    BY DEF Reasons, Effect, Apart
<1> QED
    BY <1>3, <1>5, <1>6

LEMMA SameAnswers ==
    ASSUME NEW d \in Clients, req'[d] = req[d]
    PROVE  OkAnswer(d)' = OkAnswer(d) /\ ErrorAnswer(d)' = ErrorAnswer(d)
    BY DEF OkAnswer, ErrorAnswer, Pieces, OkParts, ErrorParts, Header

LEMMA AnswersGrow ==
    ASSUME TypeOK, TypeOK', files <= files', NEW d \in Clients, req'[d] = req[d]
    PROVE  /\ Answers(d) \subseteq Answers(d)'
           /\ ErrorDue(d) => ErrorDue(d)'
<1>1. files = MaxFiles => files' = MaxFiles
  <2>1. files \in 0 .. MaxFiles /\ files' \in 0 .. MaxFiles /\ MaxFiles \in Nat
      BY WebServerAssumption DEF TypeOK
  <2> QED
      BY <2>1
<1>2. OkAnswer(d)' = OkAnswer(d) /\ ErrorAnswer(d)' = ErrorAnswer(d)
    BY SameAnswers
<1> QED
    BY <1>1, <1>2 DEF Answers, ErrorDue

LEMMA HarmLasts ==
    ASSUME IInv, NEW c \in Clients, Effect(c), NEW d \in Clients, Harmed(d)
    PROVE  Harmed(d)'
<1>1. PICK x \in Clients \ {d} : BadRun(x) /\ hnd[x] = hnd[d]
    BY DEF Harmed
<1>2. pc'[x] \notin {"none", "recv"} /\ Bad(job'[x])
    BY <1>1 DEF BadRun, Effect, Apart
<1> QED
    BY <1>1, <1>2 DEF Harmed, BadRun, Effect

\* A thread leaves alone what another one owns.
LEMMA OthersKept ==
    ASSUME IInv, TypeOK', NEW c \in Clients, Effect(c), NEW d \in Clients \ {c},
           Fine(d), pc[d] # "none"
    PROVE  Fine(d)'
<1> USE DEF IInv
<1>1. sock[hnd[c]] # d
    BY DEF Fine, Own, OneHandle, Effect, TypeOK
<1>2. /\ pc'[d] = pc[d] /\ job'[d] = job[d] /\ why'[d] = why[d] /\ got'[d] = got[d]
      /\ conn'[d] = conn[d] /\ at'[d] = at[d] /\ req'[d] = req[d] /\ hnd' = hnd
      /\ todo'[d] = todo[d]
    BY <1>1 DEF Effect, Apart, Reach
<1>3. Owning(d)' <=> Owning(d)
    BY <1>2 DEF Owning
<1>4. CASE ~Owning(d)
    BY <1>2, <1>3, <1>4, AnswersGrow DEF Fine, Effect
<1>5. CASE Owning(d)
  <2>1. Own(d) /\ Progress(d)
      BY <1>5 DEF Fine
  <2>2. sock'[hnd[d]] = d
      BY <1>1, <2>1, <1>2 DEF Own, Effect, CloseSocket, TypeOK
  <2>3. Own(d)'
      BY <1>2, <2>1, <2>2 DEF Own, Effect, Apart
  <2>4. OkAnswer(d)' = OkAnswer(d) /\ ErrorAnswer(d)' = ErrorAnswer(d)
      BY <1>2, SameAnswers
  <2>5. Progress(d)'
      BY <1>2, <2>1, <2>4, AnswersGrow DEF Progress, Effect
  <2> QED
      BY <1>2, <1>3, <1>5, <2>3, <2>5 DEF Fine
<1> QED
    BY <1>4, <1>5

\* A send by the thread that owns the handle brings its client one piece further.
LEMMA OwnSend ==
    ASSUME TypeOK, NEW c \in Clients, sock[hnd[c]] = c, SendPiece(c)
    PROVE  got'[c] \o todo'[c] = got[c] \o todo[c]
<1>1. got[c] \in Seq(Sendings) /\ todo[c] \in Seq(Sendings) /\ todo[c] # <<>>
    BY DEF TypeOK, SendPiece
<1>2. got'[c] = Append(got[c], Head(todo[c])) /\ todo'[c] = Tail(todo[c])
    BY DEF SendPiece, TypeOK
<1> QED
    BY <1>1, <1>2, MoveOn

\* The thread that owns the handle begins an answer.
LEMMA OwnStart ==
    ASSUME TypeOK, NEW c \in Clients, NEW parts \in Seq(Parts),
           got'[c] = <<>>, todo' = [todo EXCEPT ![c] = Pieces(c, parts)]
    PROVE  got'[c] \o todo'[c] = Pieces(c, parts)
<1>1. Pieces(c, parts) \in Seq(Sendings) /\ todo'[c] = Pieces(c, parts)
    BY PieceTypes DEF TypeOK
<1> QED
    BY <1>1, Whole

\* A thread that has closed its socket does nothing to its client any more.
LEMMA ClosedKept ==
    ASSUME IInv, TypeOK', NEW c \in Clients, Handler(c), Effect(c), Fine(c), ~Owning(c)
    PROVE  Fine(c)'
<1> USE DEF IInv
<1>1. sock[hnd[c]] # c /\ job[c] = req[c] /\ pc[c] # "recv"
  <2>1. hnd[c] \in Handles /\ conn[c] = "closed" /\ pc[c] # "recv"
      BY DEF Fine, Owning, TypeOK
  <2> QED
      BY <2>1 DEF Fine, OneHandle
<1>2. /\ job'[c] = job[c] /\ got'[c] = got[c] /\ conn'[c] = conn[c] /\ at'[c] = at[c]
      /\ req'[c] = req[c] /\ pc'[c] # "recv"
    BY <1>1 DEF Effect, Reach
<1>3. ~Owning(c)' /\ (pc'[c] = "close" => Bad(job[c]))
    BY <1>1, <1>2 DEF Handler, Crash, Recv, SendPiece, ErrClose, Open, AnswerError, Close, Goto,
                      Owning, Fine, TypeOK, Effect, threadVars
<1> QED
    BY <1>1, <1>2, <1>3, AnswersGrow DEF Fine, Effect

\* A thread that owns its handle reads the request of its client, sends what is
\* due to it, and closes.
LEMMA OwnerKept ==
    ASSUME IInv, TypeOK', NEW c \in Clients, Handler(c), Effect(c), Fine(c), Owning(c)
    PROVE  Fine(c)'
<1> USE DEF IInv
<1>1. Own(c) /\ Progress(c) /\ conn[c] = "open"
    BY DEF Fine, Own, OneHandle, TypeOK
<1>2. ASSUME sock' = sock PROVE Own(c)'
    BY <1>1, <1>2 DEF Own, Effect, Apart
<1>3. OkAnswer(c)' = OkAnswer(c) /\ ErrorAnswer(c)' = ErrorAnswer(c)
    BY SameAnswers DEF Effect
<1>4. CASE Recv(c)
  <2>1. sock' = sock /\ pc[c] = "recv" /\ got[c] = <<>> /\ got' = got /\ req' = req
      BY <1>1, <1>4 DEF Recv, Progress
  <2>2. Judge(c, req[c]) /\ at'[c] \in {"read", "gone"}
    <3>1. sock[hnd[c]] = c /\ c # Free /\ at[c] \in {"connected", "sent", "gone"}
        BY <1>1, <2>1, WebServerAssumption DEF Own, Fine
    <3>2. at[c] = "gone" => req[c] = NoText
        BY DEF Pristine
    <3>3. \/ at[c] = "sent" /\ at'[c] = "read" /\ Judge(c, req[c])
          \/ at[c] = "gone" /\ at'[c] = "gone" /\ Judge(c, NoText)
      <4>1. at \in [Clients -> {"idle", "connected", "sent", "read", "gone"}]
          BY DEF TypeOK
      <4>2. \/ \E d \in Clients :
                   sock[hnd[c]] = d /\ at[d] = "sent" /\ at' = [at EXCEPT ![d] = "read"] /\ Judge(c, req[d])
            \/ /\ \/ sock[hnd[c]] = Free \/ conn[c] = "closed"
                  \/ \E d \in Clients : sock[hnd[c]] = d /\ at[d] = "gone"
               /\ Judge(c, NoText) /\ at' = at
          BY <1>4 DEF Recv
      <4> QED
          BY <1>1, <3>1, <4>1, <4>2
    <3> QED
        BY <3>2, <3>3
  <2>3. /\ job'[c] = req[c] /\ pc'[c] \in {"error", "open"}
        /\ pc'[c] = "error" => /\ Bad(req[c]) /\ why'[c] \in {"no HTTP", "method"}
                               /\ todo' = [todo EXCEPT ![c] = Pieces(c, ErrorParts)]
        /\ pc'[c] = "open" => ~Bad(req[c])
      BY <2>2 DEF Judge, AnswerError, Goto, TypeOK, Bad
  <2>4. pc'[c] = "error" => got'[c] \o todo'[c] = ErrorAnswer(c)
      BY <2>1, <2>3, OwnStart, PartTypes DEF ErrorAnswer
  <2>5. Progress(c)'
      BY <1>3, <2>1, <2>3, <2>4 DEF Progress, ErrorDue
  <2> QED
      BY <1>2, <2>1, <2>2, <2>3, <2>5 DEF Fine, Owning
<1>5. CASE pc[c] # "recv"
  <2>1. job[c] = req[c] /\ job'[c] = job[c] /\ req'[c] = req[c] /\ at'[c] \in {"read", "gone"}
      BY <1>5 DEF Fine, Effect, Reading
  <2>2. pc'[c] # "recv"
      BY DEF Effect
  <2>3. CASE Crash(c)
    <3>1. UNCHANGED <<sock, files, pc, job, why, todo, at, req, conn, got>> /\ pc[c] = "open"
        BY <2>3 DEF Crash, threadVars, clientVars
    <3> QED
        BY <1>1, <1>2, <2>1, <3>1 DEF Fine, Owning, Progress
  <2>4. CASE SendPiece(c)
    <3>1. UNCHANGED <<sock, files, pc, job, why, req, conn>> /\ pc[c] \in {"error", "data"}
        BY <2>4 DEF SendPiece, clientVars
    <3>2. got'[c] \o todo'[c] = got[c] \o todo[c]
        BY <1>1, <2>4, OwnSend DEF Own
    <3>3. Progress(c)'
        BY <1>1, <1>3, <3>1, <3>2 DEF Progress, ErrorDue
    <3>4. Owning(c)'
        BY <3>1 DEF Owning
    <3> QED
        BY <1>2, <2>1, <2>2, <3>1, <3>3, <3>4 DEF Fine
  <2>5. CASE ErrClose(c)
    <3>1. /\ pc[c] = "error" /\ todo[c] = <<>> /\ got' = got /\ files' = files /\ why' = why
          /\ conn'[c] = "closed"
        BY <1>1, <2>5 DEF ErrClose, CloseSocket, Own
    <3>2. got[c] \in Answers(c)
      <4>1. got[c] \in Seq(Sendings) /\ got[c] \o <<>> = got[c]
          BY Whole DEF TypeOK
      <4> QED
          BY <1>1, <3>1, <4>1, Due DEF Progress
    <3>3. why[c] # "no file" => Bad(req[c]) /\ pc'[c] \in {"close", "open"}
        BY <1>1, <2>5, <3>1 DEF ErrClose, Progress, Goto, TypeOK, Reasons
    <3>4. why[c] = "no file" => pc'[c] = "done"
        BY <2>5 DEF ErrClose, Goto, TypeOK
    <3>5. ~Owning(c)' /\ (pc'[c] = "close" => Bad(job[c]))
        BY <2>1, <3>3, <3>4 DEF Owning
    <3> QED
        BY <2>1, <2>2, <3>1, <3>2, <3>5, AnswersGrow DEF Fine, Effect
  <2>6. CASE Open(c)
    <3>1. pc[c] = "open" /\ sock' = sock /\ got' = got
        BY <2>6 DEF Open
    <3>2. ~Bad(req[c]) /\ got[c] = <<>>
        BY <1>1, <2>1, <3>1 DEF Owning, Progress
    <3>3. CASE pc'[c] = "data"
      <4>1. job[c].there /\ todo' = [todo EXCEPT ![c] = Pieces(c, OkParts(job[c]))]
          BY <2>6, <3>3 DEF Open, AnswerError, Goto, TypeOK
      <4>2. got'[c] \o todo'[c] = OkAnswer(c)
          BY <2>1, <3>1, <3>2, <4>1, OwnStart, PartTypes DEF OkAnswer
      <4>3. Progress(c)'
          BY <1>3, <2>1, <3>3, <4>1, <4>2 DEF Progress
      <4> QED
          BY <1>2, <2>1, <3>1, <3>2, <3>3, <4>3 DEF Fine, Owning
    <3>4. CASE pc'[c] = "error"
      <4>1. /\ why'[c] = "no file" /\ files' = files /\ (~job[c].there \/ files = MaxFiles)
            /\ todo' = [todo EXCEPT ![c] = Pieces(c, ErrorParts)]
          BY <2>6, <3>4 DEF Open, AnswerError, Goto, TypeOK
      <4>2. got'[c] \o todo'[c] = ErrorAnswer(c)
          BY <3>1, <3>2, <4>1, OwnStart, PartTypes DEF ErrorAnswer
      <4>3. Progress(c)'
          BY <1>3, <2>1, <3>2, <3>4, <4>1, <4>2 DEF Progress, ErrorDue
      <4> QED
          BY <1>2, <2>1, <3>1, <3>2, <3>4, <4>1, <4>3 DEF Fine, Owning
    <3> QED
        BY <2>6, <3>3, <3>4 DEF Open, AnswerError, Goto, TypeOK
  <2>7. CASE Close(c)
    <3>1. /\ pc[c] \in {"data", "close"} /\ todo[c] = <<>> /\ pc'[c] = "done" /\ got' = got
          /\ conn'[c] = "closed"
        BY <1>1, <2>7 DEF Close, CloseSocket, Own, Goto, TypeOK
    <3>2. pc[c] = "data" /\ ~Bad(req[c])
        BY <2>1, <3>1 DEF Fine, Owning
    <3>3. got[c] \in Answers(c)
      <4>1. got[c] \in Seq(Sendings) /\ got[c] \o <<>> = got[c]
          BY Whole DEF TypeOK
      <4> QED
          BY <1>1, <3>1, <3>2, <4>1, Due DEF Progress
    <3> QED
        BY <2>1, <3>1, <3>3, AnswersGrow DEF Fine, Owning, Effect
  <2> QED
      BY <1>5, <2>3, <2>4, <2>5, <2>6, <2>7 DEF Handler, Recv
<1> QED
    BY <1>4, <1>5 DEF Handler, Crash, SendPiece, ErrClose, Open, Close

LEMMA HandlerKeeps == ASSUME IInv, NEW c \in Clients, Handler(c) PROVE IInv'
<1>1. TypeOK' /\ Effect(c)
    BY HandlerStep
<1>2. ASSUME NEW d \in Clients PROVE (pc[d] = "none" \/ Harmed(d) \/ Fine(d))'
  <2>1. CASE d = c
    <3>1. pc[c] # "none"
        BY <1>1 DEF Effect
    <3>2. Harmed(c) \/ Fine(c)
        BY <3>1 DEF IInv, Alone
    <3> QED
        BY <1>1, <2>1, <3>2, HarmLasts, ClosedKept, OwnerKept
  <2>2. CASE d # c
    <3>1. pc[d] = "none" => pc'[d] = "none"
        BY <1>1, <2>2 DEF Effect, Apart
    <3> QED
        BY <1>1, <2>2, <3>1, HarmLasts, OthersKept DEF IInv, Alone
  <2> QED
      BY <2>1, <2>2
<1> QED
    BY <1>1, <1>2, EffectKeeps DEF IInv, Alone

-----------------------------------------------------------------------------
(* The other steps. *)

\* A handle that is free is that of no thread which still has a right to it.
LEMMA AcceptKeeps == ASSUME IInv, NEW c \in Clients, Accept(c), UNCHANGED alive PROVE IInv'
<1> USE DEF IInv
<1>1. PICK h \in Handles : sock[h] = Free /\ sock' = [sock EXCEPT ![h] = c] /\ hnd' = [hnd EXCEPT ![c] = h]
    BY DEF Accept
<1>2. /\ conn[c] = "backlog" /\ conn' = [conn EXCEPT ![c] = "open"] /\ pc' = [pc EXCEPT ![c] = "recv"]
      /\ UNCHANGED <<alive, files, job, why, todo, at, req, got>>
    BY DEF Accept, Goto, clientVars
<1>3. pc[c] = "none" /\ got[c] = <<>> /\ at[c] \in {"connected", "sent", "gone"}
    BY <1>2 DEF Pristine
<1>4. TypeOK'
    BY <1>1, <1>2 DEF TypeOK, Labels
<1>5. Pristine'
    BY <1>2, <1>3 DEF Pristine, TypeOK
<1>6. OneHandle'
  <2>1. \A k \in Handles : sock[k] # c
      BY <1>2 DEF OneHandle
  <2>2. /\ sock \in [Handles -> Clients \cup {Free}] /\ hnd \in [Clients -> Handles]
        /\ conn'[c] = "open" /\ \A d \in Clients \ {c} : conn'[d] = conn[d]
      BY <1>2 DEF TypeOK
  <2>3. ASSUME NEW k \in Handles, NEW d \in Clients, sock'[k] = d PROVE conn'[d] = "open" /\ hnd'[d] = k
    <3>1. CASE k = h
        BY <1>1, <2>2, <2>3, <3>1
    <3>2. CASE k # h
      <4>1. sock[k] = d /\ d # c
          BY <1>1, <2>1, <2>2, <2>3, <3>2
      <4> QED
          BY <1>1, <2>2, <4>1 DEF OneHandle
    <3> QED
        BY <3>1, <3>2
  <2> QED
      BY <2>3 DEF OneHandle
<1>7. Reasons'
    BY <1>2 DEF Reasons, TypeOK
<1>8. ASSUME NEW d \in Clients, Harmed(d), pc[d] # "none" PROVE Harmed(d)'
    BY <1>1, <1>2, <1>3, <1>8 DEF Harmed, BadRun, TypeOK
<1>9. ASSUME NEW d \in Clients \ {c}, pc[d] \notin {"none", "done"}, hnd[d] = h PROVE Harmed(c)'
  <2>1. CASE Harmed(d)
    <3>1. PICK x \in Clients \ {d} : BadRun(x) /\ hnd[x] = hnd[d]
        BY <2>1 DEF Harmed
    <3>2. x # c
        BY <1>3, <3>1 DEF BadRun
    <3> QED
        BY <1>1, <1>2, <1>9, <3>1, <3>2 DEF Harmed, BadRun, TypeOK
  <2>2. CASE Fine(d)
    <3>1. ~Owning(d)
        BY <1>1, <1>9, <2>2, WebServerAssumption DEF Fine, Own
    <3>2. BadRun(d)
        BY <1>9, <2>2, <3>1 DEF Fine, Owning, BadRun, TypeOK, Labels
    <3> QED
        BY <1>1, <1>2, <1>9, <3>2 DEF Harmed, BadRun, TypeOK
  <2> QED
      BY <1>9, <2>1, <2>2 DEF Alone
<1>10. Harmed(c)' \/ Fine(c)'
  <2>1. CASE \E d \in Clients \ {c} : pc[d] \notin {"none", "done"} /\ hnd[d] = h
      BY <1>9, <2>1
  <2>2. CASE ~\E d \in Clients \ {c} : pc[d] \notin {"none", "done"} /\ hnd[d] = h
    <3>1. pc'[c] = "recv" /\ hnd'[c] = h /\ sock'[h] = c
        BY <1>1, <1>2 DEF TypeOK
    <3>2. Own(c)'
        BY <1>1, <1>2, <2>2, <3>1 DEF Own, TypeOK
    <3> QED
        BY <1>2, <1>3, <3>1, <3>2 DEF Fine, Owning, Progress
  <2> QED
      BY <2>1, <2>2
<1>11. ASSUME NEW d \in Clients \ {c}, Fine(d), pc[d] # "none" PROVE Fine(d)'
  <2>1. /\ pc'[d] = pc[d] /\ conn'[d] = conn[d] /\ hnd'[d] = hnd[d] /\ job' = job /\ why' = why
        /\ at' = at /\ req' = req /\ got' = got /\ todo' = todo /\ files' = files
      BY <1>1, <1>2 DEF TypeOK
  <2>2. Owning(d)' <=> Owning(d)
      BY <2>1 DEF Owning
  <2>3. CASE ~Owning(d)
      BY <1>4, <1>11, <2>1, <2>2, <2>3, AnswersGrow, Streams DEF Fine
  <2>4. CASE Owning(d)
    <3>1. Own(d) /\ Progress(d)
        BY <1>11, <2>4 DEF Fine
    <3>2. hnd[d] # h
        BY <1>1, <3>1, WebServerAssumption DEF Own
    <3>3. Own(d)'
        BY <1>1, <1>2, <2>1, <3>1, <3>2 DEF Own, TypeOK
    <3>4. Progress(d)'
        BY <2>1, <3>1, SameAnswers DEF Progress, ErrorDue
    <3> QED
        BY <1>11, <2>1, <2>2, <2>4, <3>3, <3>4 DEF Fine
  <2> QED
      BY <2>3, <2>4
<1>12. ASSUME NEW d \in Clients \ {c}, pc[d] = "none" PROVE pc'[d] = "none"
    BY <1>2, <1>12 DEF TypeOK
<1>13. Alone'
    BY <1>8, <1>10, <1>11, <1>12 DEF Alone
<1> QED
    BY <1>4, <1>5, <1>6, <1>7, <1>13

LEMMA ClientKeeps == ASSUME IInv, NEW c \in Clients, Client(c) PROVE IInv'
<1> USE DEF IInv
<1>1. UNCHANGED <<alive, sock, files, pc, hnd, job, why, todo, got>>
    BY DEF Client, Connect, SendRequest, Leave, threadVars
<1>2. /\ at \in [Clients -> {"idle", "connected", "sent", "read", "gone"}]
      /\ req \in [Clients -> Texts] /\ conn \in [Clients -> {"none", "backlog", "open", "closed"}]
    BY DEF TypeOK
<1>3. Requests[c] \subseteq Texts
    BY WebServerAssumption
<1>4. /\ at' \in [Clients -> {"idle", "connected", "sent", "read", "gone"}]
      /\ req' \in [Clients -> Texts] /\ conn' \in [Clients -> {"none", "backlog", "open", "closed"}]
      /\ \A d \in Clients \ {c} : at'[d] = at[d] /\ req'[d] = req[d] /\ conn'[d] = conn[d]
      /\ \/ at[c] = "idle" /\ at'[c] = "connected" /\ conn'[c] = "backlog" /\ req'[c] = req[c]
         \/ at[c] = "connected" /\ at'[c] = "sent" /\ conn'[c] = conn[c]
         \/ at[c] = "connected" /\ at'[c] = "gone" /\ conn'[c] = conn[c] /\ req'[c] = req[c]
    BY <1>2, <1>3 DEF Client, Connect, SendRequest, Leave
<1>5. TypeOK'
    BY <1>1, <1>4 DEF TypeOK
<1>6. Pristine'
    BY <1>1, <1>4 DEF Pristine
<1>7. OneHandle'
    BY <1>1, <1>4 DEF OneHandle, Pristine
<1>8. Reasons'
    BY <1>1 DEF Reasons
<1>9. ASSUME NEW d \in Clients PROVE (pc[d] = "none" \/ Harmed(d) \/ Fine(d))'
  <2>1. CASE pc[d] = "none" \/ Harmed(d)
      BY <1>1, <2>1 DEF Harmed, BadRun
  <2>2. CASE Fine(d) /\ pc[d] # "none"
    <3>1. d = c => pc[d] = "recv" /\ conn'[d] = conn[d]
        BY <1>4, <2>2 DEF Fine, Pristine
    <3>2. conn'[d] = conn[d] /\ (pc[d] # "recv" => at'[d] = at[d] /\ req'[d] = req[d])
        BY <1>4, <2>2, <3>1 DEF Pristine
    <3>3. pc[d] = "recv" => at'[d] \in {"connected", "sent", "gone"}
        BY <1>4, <2>2 DEF Fine
    <3>4. Owning(d)' <=> Owning(d)
        BY <1>1 DEF Owning
    <3>5. Own(d)' <=> Own(d)
        BY <1>1 DEF Own
    <3>6. Progress(d) => Progress(d)'
        BY <1>1, <2>2, <3>2, SameAnswers DEF Progress, ErrorDue
    <3>7. pc[d] # "recv" => Answers(d) \subseteq Answers(d)'
        BY <1>1, <1>5, <3>2, AnswersGrow, Streams
    <3> QED
        BY <1>1, <2>2, <3>2, <3>3, <3>4, <3>5, <3>6, <3>7 DEF Fine, Owning
  <2> QED
      BY <2>1, <2>2 DEF Alone
<1> QED
    BY <1>5, <1>6, <1>7, <1>8, <1>9 DEF Alone

LEMMA Inductive == IInv /\ [Next]_vars => IInv'
<1> SUFFICES ASSUME IInv, [Next]_vars PROVE IInv'
    OBVIOUS
<1>1. CASE Next
    BY <1>1, HandlerKeeps, ClientKeeps, AcceptKeeps DEF Next
<1>2. CASE UNCHANGED vars
  <2>1. TypeOK' /\ Pristine' /\ OneHandle' /\ Reasons'
      BY <1>2 DEF vars, threadVars, clientVars, IInv, TypeOK, Pristine, OneHandle, Reasons
  <2>2. ASSUME NEW d \in Clients PROVE (Fine(d) => Fine(d)') /\ (Harmed(d) => Harmed(d)')
    <3>1. Answers(d) \subseteq Answers(d)'
        BY <1>2, <2>1, AnswersGrow, Streams DEF vars, clientVars, IInv
    <3>2. (Owning(d)' <=> Owning(d)) /\ (Own(d)' <=> Own(d)) /\ (Progress(d)' <=> Progress(d))
        BY <1>2 DEF vars, threadVars, clientVars, Owning, Own, Progress, ErrorDue,
                   OkAnswer, ErrorAnswer, Pieces, OkParts, ErrorParts, Header
    <3> QED
        BY <1>2, <3>1, <3>2 DEF vars, threadVars, clientVars, Fine, Harmed, BadRun
  <2> QED
      BY <1>2, <2>1, <2>2 DEF IInv, Alone, vars, threadVars
<1> QED
    BY <1>1, <1>2

-----------------------------------------------------------------------------

\* The inductive invariant: a thread owns its handle up to its first close and
\* its client has what that thread has sent, unless a thread with a bad request
\* has run on a handle of the same number.
THEOREM Invariance == Spec => []IInv
    BY Initial, Inductive, PTL DEF Spec

\* Handles, streams, requests and answers stay in their ranges: the streams opened
\* and never closed are never more than the C library has.
THEOREM TypeCorrect == Spec => []TypeOK
<1>1. IInv => TypeOK
    BY DEF IInv
<1> QED
    BY <1>1, Invariance, PTL

\* For any clients, requests and handles: what goes wrong with a connection was
\* done by another thread, whose request was no GET, on a handle of the same number.
THEOREM HarmStays == Spec => []HarmByHandle
<1>1. ASSUME IInv PROVE HarmByHandle
  <2>1. ASSUME NEW d \in Clients PROVE Proper(d) \/ Harmed(d)
    <3>1. CASE pc[d] = "none"
      <4>1. got[d] = <<>> /\ conn[d] # "closed"
          BY <1>1, <3>1 DEF IInv, Pristine
      <4>2. \E a \in Answers(d) : IsPrefix(<<>>, a)
          BY EmptyPrefix
      <4> QED
          BY <4>1, <4>2 DEF Proper
    <3>2. CASE pc[d] # "none" /\ ~Harmed(d)
        BY <1>1, <3>2, FineIsProper DEF IInv, Alone
    <3> QED
        BY <3>1, <3>2
  <2> QED
      BY <2>1 DEF HarmByHandle, Harmed, BadRun
<1> QED
    BY <1>1, Invariance, PTL
=============================================================================
