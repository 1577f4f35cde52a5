--------------------------- MODULE TelnetRefinement ---------------------------
(***************************************************************************)
(* The telnet interface implements LineLog: its sockets, buffers and the   *)
(* pieces recv delivers are seen from outside as clients whose lines are   *)
(* taken one by one.                                                       *)
(***************************************************************************)
EXTENDS TelnetProofs

\* Steps LineLog does not see.
LEMMA Unseen ==
  ASSUME UNCHANGED <<socket, sent, handled>>, Presence' = Presence,
         Service' = Service
  PROVE  UNCHANGED <<Presence, Open, sent, Answers, Service>>
<1>1. Open' = Open
  BY DEF Open
<1>2. Answers' = Answers
  BY DEF Answers
<1> QED BY <1>1, <1>2

\* A new answer goes behind those there are.
LEMMA OneMoreAnswer ==
  ASSUME NEW a \in Seq(HandledLines), NEW e \in HandledLines, NEW b, b = Append(a, e),
         NEW old, old = [k \in DOMAIN a |-> Answer(a[k])],
         NEW new, new = [k \in DOMAIN b |-> Answer(b[k])]
  PROVE  new = Append(old, Answer(e))
<1>1. PICK h : h = Len(a)
  OBVIOUS
<1>2. /\ h \in Nat /\ DOMAIN a = 1 .. h /\ DOMAIN b = 1 .. h + 1
      /\ \A k \in 1 .. h : b[k] = a[k]
      /\ b[h + 1] = e
  BY <1>1
<1>3. PICK c : c = [k \in DOMAIN a |-> Answer(a[k])]
  OBVIOUS
<1>4. /\ c = [k \in 1 .. h |-> Answer(a[k])] /\ Len(c) = h
      /\ c \in Seq({Answer(a[k]) : k \in 1 .. h})
  BY <1>2, <1>3
<1>5. PICK d : d = Append(c, Answer(e))
  OBVIOUS
<1>6. /\ DOMAIN d = 1 .. h + 1 /\ d[h + 1] = Answer(e)
      /\ \A k \in 1 .. h : d[k] = Answer(a[k])
  BY <1>2, <1>4, <1>5
<1>7. \A k \in 1 .. h + 1 : d[k] = Answer(b[k])
  BY <1>2, <1>6
<1>8. d = [k \in 1 .. h + 1 |-> Answer(b[k])]
  <2>1. PICK T : T = {Answer(x) : x \in HandledLines}
    OBVIOUS
  <2>2. \A k \in 1 .. h : a[k] \in HandledLines
    BY <1>2
  <2>3. Answer(e) \in T /\ \A k \in 1 .. h : Answer(a[k]) \in T
    BY <2>1, <2>2
  <2>4. c \in Seq(T)
    BY <1>2, <1>4, <2>3
  <2>5. d \in Seq(T)
    BY <1>5, <2>3, <2>4
  <2>6. d = [k \in DOMAIN d |-> d[k]]
    BY <2>5
  <2> QED BY <1>6, <1>7, <2>6
<1> QED BY <1>2, <1>3, <1>5, <1>8

\* There are as many answers as lines that were handled.
LEMMA AnswersCounted ==
  ASSUME HandledInv, NEW n \in Sessions
  PROVE  Len(Answers[n]) = Len(handled[n])
<1>1. PICK a, h : a = handled[n] /\ h = Len(a)
  OBVIOUS
<1>2. Answers[n] = [i \in DOMAIN a |-> Answer(a[i])]
  BY <1>1 DEF Answers
<1>3. DOMAIN a = 1 .. h /\ h \in Nat
  BY <1>1 DEF HandledInv
<1> QED BY <1>1, <1>2, <1>3

\* HandleLine is Take of the line that follows those its client had taken.
LEMMA MapsTake ==
  ASSUME IInv, IInv', HandleLine
  PROVE  L!Next
<1> USE DEF HandleLine, AtEndOfLine
<1>1. PICK n, b, line, a, k :
        /\ n = SessionAt(current) /\ b = buffers[current]
        /\ line = Append(b, Head(buf)) /\ a = handled[n] /\ k = Len(a) + 1
  OBVIOUS
<1>2. n \in Open /\ n \in Sessions /\ socket[n] = current
  <2>1. current \in Taken
    BY DEF IInv, SocketInv
  <2> QED BY <1>1, <2>1, At, Domains DEF IInv
<1>3. b \in Seq(Text) /\ b # << >> /\ Head(buf) \in Byte
  <2>1. buf \in Seq(Byte) /\ buf # << >>
    BY DEF IInv, TypeInv
  <2>2. Head(buf) \in Byte
    BY <2>1
  <2> QED BY <1>1, <1>2, <2>2, Parts DEF IInv
<1>4. Len(line) >= 2 /\ line[1].session = n
  <2>1. \A i \in 1 .. Len(b) : b[i].session = n
    BY <1>1, <1>2, OwnBytes DEF BuffersAreOfTheirSocket
  <2>2. b \in Seq(Byte) /\ Len(b) \in Nat \ {0}
    BY <1>3, TextOnly
  <2>3. Len(line) = Len(b) + 1 /\ line[1] = b[1]
    BY <1>1, <1>3, <2>2
  <2> QED BY <2>1, <2>2, <2>3
<1>5. PICK e : e = [line |-> line, outcome |-> Outcome(line)]
  OBVIOUS
<1>6. /\ handled' = [handled EXCEPT ![n] = Append(@, e)]
      /\ tpc' \in {"line", "send"} /\ tpc = "line"
      /\ UNCHANGED <<sent, client, socket>>
  BY <1>1, <1>4, <1>5, Outcomes DEF clientVars
<1>7. /\ DOMAIN handled = Sessions /\ a \in Seq(HandledLines)
      /\ handled'[n] = Append(a, e) /\ handled'[n] \in Seq(HandledLines)
  BY <1>1, <1>2, <1>6 DEF IInv, HandledInv
<1>8. /\ k \in Nat \ {0} /\ e \in HandledLines
      /\ Len(handled'[n]) = k /\ handled'[n][k] = e
  <2>1. PICK c : c = handled'[n]
    OBVIOUS
  <2>2. c = Append(a, e) /\ c \in Seq(HandledLines) /\ k = Len(a) + 1
    BY <1>1, <1>7, <2>1
  <2>3. /\ Len(a) \in Nat /\ Len(c) = k /\ c[k] = e /\ k \in 1 .. Len(c)
    BY SMTT(30), <1>7, <2>2
  <2>4. c[k] \in HandledLines
    BY <2>2, <2>3
  <2>5. k \in Nat \ {0}
    BY <2>2, <2>3
  <2>6. e \in HandledLines
    BY <2>3, <2>4, Zenon
  <2> QED BY <2>1, <2>3, <2>5, <2>6, Zenon
<1>9. k <= Len(sent[n]) /\ line = Bytes(n, k, sent[n][k])
  <2>1. k \in 1 .. Len(handled'[n]) /\ e.line = line
    BY <1>5, <1>8
  <2>2. LinesArriveWhole'
    BY DEF IInv
  <2>3. k <= Len(sent'[n]) /\ handled'[n][k].line = Bytes(n, k, sent'[n][k])
    BY <1>2, <2>1, <2>2, Zenon DEF LinesArriveWhole
  <2> QED BY <1>6, <1>8, <2>1, <2>3, Zenon
<1>10. PICK kind : kind = sent[n][k]
  OBVIOUS
<1>11. kind # "blank" /\ line[1].line = k /\ line[1].kind = kind
  BY <1>4, <1>9, <1>10 DEF Bytes
<1>12. Answer(e) = [line |-> k, outcome |-> L!Result(kind)]
  BY <1>5, <1>11 DEF Answer, Outcome, L!Result
<1>13. Answers' = [Answers EXCEPT ![n] = Append(@, Answer(e))]
  <2>1. PICK c : c = handled'[n]
    OBVIOUS
  <2>2. /\ DOMAIN Answers = Sessions /\ DOMAIN Answers' = Sessions
        /\ Answers[n] = [i \in DOMAIN a |-> Answer(a[i])]
        /\ Answers'[n] = [i \in DOMAIN c |-> Answer(c[i])]
    BY SMTT(30), <1>1, <1>2, <2>1 DEF Answers
  <2>3. Answers'[n] = Append(Answers[n], Answer(e))
    <3>1. c = Append(a, e)
      BY <1>7, <2>1
    <3>2. PICK old, new : old = Answers[n] /\ new = Answers'[n]
      OBVIOUS
    <3>3. /\ old = [i \in DOMAIN a |-> Answer(a[i])]
          /\ new = [i \in DOMAIN c |-> Answer(c[i])]
      BY <2>2, <3>2, Zenon
    <3>4. a \in Seq(HandledLines) /\ e \in HandledLines
      BY <1>7, <1>8, Zenon
    <3>5. new = Append(old, Answer(e))
      BY <3>1, <3>3, <3>4, OneMoreAnswer
    <3> QED BY <3>2, <3>5, Zenon
  <2>4. ASSUME NEW m \in Sessions, m # n PROVE Answers'[m] = Answers[m]
    <3>1. PICK d : d = handled[m]
      OBVIOUS
    <3>2. d = handled'[m]
      BY <1>6, <1>7, <2>4, <3>1
    <3>3. Answers[m] = [i \in DOMAIN d |-> Answer(d[i])]
      BY <3>1 DEF Answers
    <3>4. Answers'[m] = [i \in DOMAIN d |-> Answer(d[i])]
      BY <3>2 DEF Answers
    <3> QED BY <3>3, <3>4, Zenon
  <2>5. Answers = [m \in Sessions |-> Answers[m]] /\ Answers' = [m \in Sessions |-> Answers'[m]]
    BY DEF Answers
  <2>6. PICK A, B, x : A = Answers /\ B = Answers' /\ x = Append(Answers[n], Answer(e))
    OBVIOUS
  <2>7. B = [A EXCEPT ![n] = x]
    BY <1>2, <2>2, <2>3, <2>4, <2>5, <2>6
  <2> QED BY <2>6, <2>7, Zenon
<1>14. /\ Presence' = Presence /\ Open' = Open
       /\ Service = "on" /\ Service' = "on"
  BY <1>6 DEF Presence, Open, Service
<1>15. L!Following(n) = k
  BY <1>1, <1>2, AnswersCounted DEF IInv, L!Following
<1>16. L!Take(n)
  BY <1>2, <1>6, <1>9, <1>10, <1>11, <1>12, <1>13, <1>14, <1>15
     DEF L!Take, L!HasMore
<1> QED BY <1>2, <1>16 DEF L!Next
\* The other steps of the telnet thread that LineLog sees: a connection is
\* accepted or closed, the service stops, or a blank line ends it.
LEMMA MapsAccept ==
  ASSUME IInv, NEW n \in Sessions, NEW s \in Sockets, Accept(n, s)
  PROVE  L!Next
<1> USE DEF Accept, Visiting
<1>1. /\ client[n] = "connecting" /\ socket[n] = 0 /\ s # 0
      /\ DOMAIN client = Sessions /\ DOMAIN socket = Sessions
  BY Domains, TelnetAssumption DEF Waiting, IInv, SocketInv
<1>2. Presence[n] = "new" /\ Presence' = [Presence EXCEPT ![n] = "here"]
  BY <1>1 DEF Presence
<1>3. Open' = Open \cup {n}
  BY <1>1 DEF Open
<1>4. /\ Answers' = Answers /\ sent' = sent
      /\ Service = "on" /\ Service' = Service
  BY DEF Answers, Service
<1>5. L!Arrive(n)
  BY <1>2, <1>3, <1>4 DEF L!Arrive
<1> QED BY <1>5 DEF L!Next

LEMMA MapsClose ==
  ASSUME IInv, NEW s \in Sockets, Close(s)
  PROVE  L!Next
<1> USE DEF Close, Visiting
<1>1. PICK n : n = SessionAt(s)
  OBVIOUS
<1>2. n \in Open /\ n \in Sessions /\ DOMAIN socket = Sessions
  BY <1>1, At, Domains DEF IInv
<1>3. client[n] = "gone" /\ socket' = [socket EXCEPT ![n] = 0]
      /\ UNCHANGED <<client, sent, handled, tpc>>
  BY <1>1
<1>4. Open' = Open \ {n}
  BY <1>2, <1>3 DEF Open
<1>5. /\ Presence[n] = "gone" /\ Presence' = Presence /\ Answers' = Answers
      /\ Service = "on" /\ Service' = Service
  BY <1>2, <1>3 DEF Presence, Answers, Service
<1>6. L!Close(n)
  BY <1>2, <1>3, <1>4, <1>5 DEF L!Close
<1> QED BY <1>2, <1>6 DEF L!Next

LEMMA MapsStop ==
  ASSUME IInv, IInv', Stop
  PROVE  L!Next
<1>1. Open' = {}
  BY DEF Stop, IInv, SocketInv
<1>2. /\ Presence' = Presence /\ Answers' = Answers /\ sent' = sent
      /\ Service = "on" /\ Service' = "stopped"
  BY DEF Stop, clientVars, Presence, Answers, Service
<1>3. L!Stop
  BY <1>1, <1>2 DEF L!Stop
<1> QED BY <1>3 DEF L!Next

\* What ends the process is the line that is next of the client it came from.
LEMMA MapsTerminate ==
  ASSUME IInv, HandleBlankLine
  PROVE  L!Next
<1> USE DEF HandleBlankLine, AtEndOfLine
<1>1. PICK n, p, h, kinds :
        /\ n = SessionAt(current) /\ p = Pending(n)
        /\ h = Len(handled[n]) /\ kinds = sent[n]
  OBVIOUS
<1>2. n \in Open /\ n \in Sessions /\ socket[n] = current
  <2>1. current \in Taken
    BY DEF IInv, SocketInv
  <2> QED BY <1>1, <2>1, At, Domains DEF IInv
<1>3. PICK c, w : c = buf /\ w = wire[n]
  OBVIOUS
<1>4. c \in Seq(Byte) /\ w \in Seq(Byte) /\ c # << >> /\ Head(c).part = "end"
  BY <1>2, <1>3, Domains DEF IInv, TypeInv
<1>5. p = << >> \o (c \o w)
  BY <1>1, <1>2, <1>3 DEF Pending, Received
<1>6. p # << >> /\ p[1] = Head(c) /\ 1 \in 1 .. Len(p)
  <2>1. PICK q : q = c \o w
    OBVIOUS
  <2>2. /\ q \in Seq(Byte) /\ Len(q) = Len(c) + Len(w) /\ q[1] = c[1]
        /\ Len(c) \in Nat \ {0} /\ Len(w) \in Nat
    BY <1>4, <2>1
  <2>3. p = q
    BY <1>5, <2>1, <2>2
  <2> QED BY <1>4, <2>2, <2>3
<1>7. Stream(p, n, h, kinds, client[n] # "gone")
  BY <1>1, <1>2 DEF IInv, StreamInv, StreamOf
<1>8. /\ p[1].line = h + 1 /\ p[1].kind = "blank"
      /\ h + 1 \in 1 .. Len(kinds) /\ kinds[h + 1] = "blank"
  <2>1. Starts(p[1], h + 1) /\ p[1].part = "end"
    BY <1>4, <1>6, <1>7 DEF Stream
  <2>2. p[1].line \in 1 .. Len(kinds) /\ p[1].kind = kinds[p[1].line]
    BY <1>6, <1>7, <2>1 DEF Stream
  <2> QED BY <2>1, <2>2 DEF Starts
<1>9. L!Following(n) = h + 1
  BY <1>1, <1>2, AnswersCounted DEF IInv, L!Following
<1>10. kinds = sent[n] /\ h + 1 <= Len(kinds)
  <2>1. kinds \in Seq(Kinds)
    BY <1>1, <1>2, Domains DEF IInv
  <2> QED BY <1>1, <1>8, <2>1
<1>11. /\ Presence' = Presence /\ Open' = Open /\ Answers' = Answers /\ sent' = sent
       /\ Service = "on" /\ Service' = "terminated"
  BY DEF Presence, Open, Answers, Service, clientVars, socketVars
<1>12. L!Terminate(n)
  BY <1>2, <1>8, <1>9, <1>10, <1>11 DEF L!Terminate, L!HasMore
<1> QED BY <1>2, <1>12 DEF L!Next

\* Clients connect unseen, and come, speak and go as in LineLog.
LEMMA MapsClients ==
  ASSUME IInv, Clients
  PROVE  L!Next \/ UNCHANGED <<Presence, Open, sent, Answers, Service>>
<1>1. DOMAIN client = Sessions
  BY Domains DEF IInv
<1>2. ASSUME NEW n \in Sessions, Connect(n)
      PROVE  UNCHANGED <<Presence, Open, sent, Answers, Service>>
  <2>1. Presence' = Presence
    BY <1>1, <1>2 DEF Connect, Presence
  <2>2. UNCHANGED <<socket, sent, handled, tpc>>
    BY <1>2 DEF Connect, socketVars, loopVars
  <2> QED BY <2>1, <2>2, Unseen DEF Service
<1>3. ASSUME NEW n \in Sessions, HangUp(n) PROVE L!Next
  <2>1. Presence[n] = "here" /\ Presence' = [Presence EXCEPT ![n] = "gone"]
    BY <1>1, <1>3 DEF HangUp, Presence
  <2>2. UNCHANGED <<socket, sent, handled, tpc>>
    BY <1>3 DEF HangUp, socketVars, loopVars
  <2>3. UNCHANGED <<Open, sent, Answers, Service>>
    BY <2>2 DEF Open, Answers, Service
  <2>4. L!Leave(n)
    BY <2>1, <2>3 DEF L!Leave
  <2> QED BY <2>4 DEF L!Next
<1>4. ASSUME NEW n \in Sessions, NEW k \in Kinds, SendLine(n, k) PROVE L!Next
  <2>1. Presence[n] = "here" /\ sent' = [sent EXCEPT ![n] = Append(@, k)]
    BY <1>1, <1>4 DEF SendLine, Presence
  <2>2. UNCHANGED <<client, socket, handled, tpc>>
    BY <1>4 DEF SendLine, socketVars, loopVars
  <2>3. UNCHANGED <<Presence, Open, Answers, Service>>
    BY <2>2 DEF Presence, Open, Answers, Service
  <2>4. L!Say(n, k)
    BY <2>1, <2>3 DEF L!Say
  <2> QED BY <2>4 DEF L!Next
<1> QED BY <1>2, <1>3, <1>4 DEF Clients

\* The telnet thread selects, reads and fills buffers unseen.
LEMMA Inner ==
  ASSUME \/ Select \/ AcceptFails \/ EndScan \/ AppendToLine \/ SendReturns \/ EndReceive
         \/ \E s \in Sockets : Receive(s)
  PROVE  UNCHANGED <<Presence, Open, sent, Answers, Service>>
<1>1. /\ UNCHANGED <<socket, sent, client, handled>>
      /\ {tpc, tpc'} \cap {"stopped", "terminated"} = {}
  BY DEF Select, AcceptFails, EndScan, AppendToLine, SendReturns, EndReceive, Receive,
     Visiting, clientVars, socketVars
<1>2. Presence' = Presence /\ Service' = Service
  BY <1>1 DEF Presence, Service
<1> QED BY <1>1, <1>2, Unseen

\* From outside the telnet interface takes each client's lines one by one, in
\* order and once, whatever recv, select and accept make of sockets and bytes
\* inside TelnetProcessor::Process.
THEOREM Refinement == Spec => ImplementsLineLog
<1>1. Init => L!Init
  <2> SUFFICES ASSUME Init PROVE L!Init
    OBVIOUS
  <2>1. /\ \A n \in Sessions : Presence[n] = "new" /\ Answers[n] = << >>
        /\ Open = {} /\ Service = "on"
    BY DEF Init, Presence, Answers, Open, Service
  <2>2. Presence = [n \in Sessions |-> "new"] /\ Answers = [n \in Sessions |-> << >>]
    BY <2>1 DEF Presence, Answers
  <2> QED BY <2>1, <2>2 DEF Init, L!Init
<1>2. IInv /\ IInv' /\ [Next]_vars => [L!Next]_L!vars
  <2> SUFFICES ASSUME IInv, IInv', [Next]_vars
               PROVE  L!Next \/ UNCHANGED <<Presence, Open, sent, Answers, Service>>
    BY DEF L!vars
  <2>1. CASE Process
    BY <2>1, MapsTake, MapsAccept, MapsClose, MapsTerminate, Inner, Zenon DEF Process
  <2>2. CASE Clients
    BY <2>2, MapsClients
  <2>3. CASE Stop
    BY <2>3, MapsStop
  <2>4. CASE UNCHANGED vars
    BY <2>4, Unseen DEF vars, clientVars, socketVars, loopVars, Presence, Service
  <2> QED BY <2>1, <2>2, <2>3, <2>4 DEF Next
<1> QED BY <1>1, <1>2, Invariance, PTL DEF Spec, ImplementsLineLog, L!Spec
===============================================================================
