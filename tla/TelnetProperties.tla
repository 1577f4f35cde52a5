-------------------------- MODULE TelnetProperties --------------------------
(***************************************************************************)
(* What a telnet client may rely on.                                       *)
(***************************************************************************)
EXTENDS Telnet

HandledLines ==
  [line : Seq([session : Sessions, line : Nat, kind : Kinds, part : {"text", "end"}]),
   outcome : {"queued", "error", "ignored"}]

\* The type of every variable; m_Master never holds more than FD_SETSIZE
\* sockets.
TypeOK ==
  /\ DOMAIN sent = Sessions /\ \A n \in Sessions : sent[n] \in Seq(Kinds)
  /\ client \in [Sessions -> {"none", "connecting", "connected", "gone"}]
  /\ DOMAIN wire = Sessions
  /\ socket \in [Sessions -> Sockets \cup {0}]
  /\ master \subseteq Sockets \cup {Listener} /\ Cardinality(master) <= FdSetSize
  /\ DOMAIN buffers \subseteq Sockets
  /\ tpc \in {"select", "scan", "line", "send", "stopped", "terminated"}
  /\ ready \subseteq Sockets \cup {Listener}
  /\ current \in Sockets \cup {0}
  /\ \A n \in Sessions : handled[n] \in Seq(HandledLines)

\* Every line the interface handles is one that one client sent, whole and
\* unmixed, in the order that client sent them and each once, wherever recv
\* cut the stream and however many clients sent at the same time.
LinesArriveWhole == \A n \in Sessions : \A k \in 1 .. Len(handled[n]) :
  /\ k <= Len(sent[n])
  /\ handled[n][k].line = Bytes(n, k, sent[n][k])

\* Every open socket has a buffer and every buffer an open socket, and no
\* buffer holds a byte of another connection: not even of one that had the
\* same socket number and went in the middle of a line.
BuffersAreOfTheirSocket ==
  tpc # "stopped" =>
    /\ DOMAIN buffers = Taken
    /\ \A n \in Open : \A i \in 1 .. Len(buffers[socket[n]]) :
         buffers[socket[n]][i].session = n

\* Stop closes every connection, those included that m_Master had no room
\* for.
NoSocketLeft == tpc = "stopped" => Open = {}

\* A line of a client that stays and that m_Master has room for is handled,
\* whatever the other clients do, short of a blank line or a stop: unless one
\* of them takes an answer that it never reads, and stays for ever.
EveryLineIsHandled ==
  \/ <>[](tpc = "send" /\ client[SessionAt(current)] # "gone")
  \/ \A n \in Sessions : \A k \in 1 .. MaxLines :
       Len(sent[n]) >= k
         ~> \/ Len(handled[n]) >= k
            \/ client[n] = "gone" \/ socket[n] \notin master
            \/ tpc \in {"stopped", "terminated"}

-----------------------------------------------------------------------------
(* The mapping to LineLog.                                                 *)

Presence == [n \in Sessions |->
  CASE client[n] = "connected" -> "here" [] client[n] = "gone" -> "gone"
    [] OTHER -> "new"]

Answer(taken) == [line |-> taken.line[1].line, outcome |-> taken.outcome]

Answers == [n \in Sessions |->
  [k \in DOMAIN handled[n] |-> Answer(handled[n][k])]]

Service == IF tpc \in {"stopped", "terminated"} THEN tpc ELSE "on"

L == INSTANCE LineLog WITH
  Clients <- Sessions, client <- Presence, open <- Open, said <- sent,
  done <- Answers, service <- Service

\* Whatever socket numbers, buffers and pieces of lines go through the byte
\* loop, from outside the interface takes each client's lines one by one.
ImplementsLineLog == L!Spec

-----------------------------------------------------------------------------
(* The inductive invariant behind the first three of them.                 *)

Byte == [session : Sessions, line : Nat, kind : Kinds \cup {"good"},
         part : {"text", "end"}]

Text == {x \in Byte : x.part = "text"}

\* What session n has sent and the program has not yet taken for a line.
Received(n) == IF socket[n] = current THEN buf ELSE << >>
Pending(n) == buffers[socket[n]] \o (Received(n) \o wire[n])

\* x is the first byte of line k.
Starts(x, k) == x.line = k /\ x.part = IF x.kind = "blank" THEN "end" ELSE "text"

UpToLast(p, h, kinds) ==
  /\ p = << >> => h = Len(kinds)
  /\ p # << >> => p[Len(p)].part = "end" /\ p[Len(p)].line = Len(kinds)

\* p is the end of the stream of session n, which sent the lines kinds and
\* had h of them handled: line by line, and up to the last one if the client
\* stays.
Stream(p, n, h, kinds, stays) ==
  /\ \A i \in 1 .. Len(p) :
       /\ p[i].session = n
       /\ p[i].part = "text" => p[i].kind # "blank"
       /\ \/ p[i].line \in 1 .. Len(kinds) /\ p[i].kind = kinds[p[i].line]
          \/ ~ stays /\ p[i].line = Len(kinds) + 1 /\ p[i].part = "text"
  /\ \A i \in 1 .. Len(p) - 1 :
       IF p[i].part = "end" THEN Starts(p[i + 1], p[i].line + 1)
       ELSE p[i + 1].line = p[i].line /\ p[i + 1].part = "end"
  /\ p # << >> => Starts(p[1], h + 1)
  /\ stays => UpToLast(p, h, kinds)

TypeInv ==
  /\ sent \in [Sessions -> Seq(Kinds)]
  /\ client \in [Sessions -> {"none", "connecting", "connected", "gone"}]
  /\ wire \in [Sessions -> Seq(Byte)]
  /\ socket \in [Sessions -> Sockets \cup {0}]
  /\ master \subseteq Sockets \cup {Listener} /\ Cardinality(master) <= FdSetSize
  /\ buffers \in [DOMAIN buffers -> Seq(Text)]
  /\ tpc \in {"select", "scan", "line", "send", "stopped", "terminated"}
  /\ ready \subseteq Sockets \cup {Listener}
  /\ current \in Sockets \cup {0} /\ buf \in Seq(Byte)

\* A connection has one socket and the socket one buffer.
SocketInv ==
  /\ DOMAIN buffers = Taken
  /\ \A n, m \in Open : socket[n] = socket[m] => n = m
  /\ tpc = "stopped" => Open = {}
  /\ current = 0 <=> tpc \in {"select", "scan", "stopped"}
  /\ current = 0 => buf = << >>
  /\ current # 0 => current \in Taken
  /\ \A n \in Sessions : client[n] \in {"none", "connecting"} =>
       /\ socket[n] = 0
       /\ sent[n] = << >> /\ wire[n] = << >> /\ handled[n] = << >>

HandledInv ==
  DOMAIN handled = Sessions /\ \A n \in Sessions : handled[n] \in Seq(HandledLines)

StreamOf(n) ==
  Stream(Pending(n), n, Len(handled[n]), sent[n], client[n] # "gone")

StreamInv == \A n \in Open : StreamOf(n)

IInv == TypeInv /\ SocketInv /\ HandledInv /\ LinesArriveWhole /\ StreamInv
=============================================================================
