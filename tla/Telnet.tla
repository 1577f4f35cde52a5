-------------------------------- MODULE Telnet --------------------------------
(***************************************************************************)
(* The telnet interface of SimpleTSDB (TelnetProcessor of src/network.cpp): *)
(* one thread serves every client, with a buffer per socket in which it    *)
(* puts a line together from what recv happens to deliver.  The system     *)
(* gives the number of a closed socket to a later connection.              *)
(*                                                                         *)
(* A line is sent as its text and its end; the program sees bytes, so recv *)
(* may cut the stream after either.                                        *)
(***************************************************************************)
EXTENDS Naturals, Sequences, FiniteSets

CONSTANTS
  Sockets,      \* the numbers accept gives out
  Listener,     \* m_Listener
  FdSetSize,    \* FD_SETSIZE: the sockets an fd_set can hold
  Kinds,        \* what clients send
  Deaf,         \* the sessions whose clients never read an answer
  MaxSessions,  \* bound: connections
  MaxLines      \* bound: lines sent by all clients

ASSUME TelnetAssumption ==
  /\ Sockets \subseteq Nat \ {0} /\ IsFiniteSet(Sockets)
  /\ Listener \in Nat \ (Sockets \cup {0})
  /\ FdSetSize \in Nat \ {0}
  /\ Kinds \subseteq {"good", "bad", "other", "blank"}
  /\ Deaf \subseteq Nat
  /\ MaxSessions \in Nat /\ MaxLines \in Nat

Sessions == 1 .. MaxSessions

\* The bytes of the k-th line of session n: a valid put, one that is not
\* valid, a line that is no put, or nothing but the end of line.
Bytes(n, k, kind) ==
  LET parts == IF kind = "blank" THEN <<"end">> ELSE <<"text", "end">>
  IN  [i \in 1 .. Len(parts) |->
         [session |-> n, line |-> k, kind |-> kind, part |-> parts[i]]]

VARIABLES
  sent,     \* per session, the kinds of the lines its client sent
  client,   \* per session, what its client is up to
  wire,     \* per session, sent by the client and not yet received
  socket,   \* per session, the socket accept gave it, 0 for none
  master,   \* m_Master
  buffers,  \* m_ClientBuffers
  tpc,      \* where the telnet thread is
  ready,    \* the sockets of readfds the for loop has not come to
  current,  \* the socket whose bytes are in buf, 0 for none
  buf,      \* what is left of buf
  handled   \* history: per session that sent its first byte, the lines taken
            \* from the buffers, each with what became of it

clientVars == <<sent, client, wire>>
socketVars == <<socket, master, buffers>>
loopVars == <<tpc, ready, current, buf>>
vars == <<clientVars, socketVars, loopVars, handled>>

Waiting == {n \in Sessions : client[n] = "connecting"}
Open == {n \in Sessions : socket[n] # 0}
Taken == {socket[n] : n \in Open}
Lines == UNION {{n} \X (1 .. Len(sent[n])) : n \in Sessions}
SessionAt(s) == CHOOSE n \in Open : socket[n] = s

Init ==
  /\ sent = [n \in Sessions |-> << >>]
  /\ client = [n \in Sessions |-> "none"]
  /\ wire = [n \in Sessions |-> << >>]
  /\ socket = [n \in Sessions |-> 0]
  /\ master = {Listener}
  /\ buffers = [s \in {} |-> << >>]
  /\ tpc = "select" /\ ready = {} /\ current = 0 /\ buf = << >>
  /\ handled = [n \in Sessions |-> << >>]

-----------------------------------------------------------------------------
(* Clients.                                                                *)

Connect(n) ==
  /\ client[n] = "none" /\ \A m \in 1 .. n - 1 : client[m] # "none"
  /\ client' = [client EXCEPT ![n] = "connecting"]
  /\ UNCHANGED <<sent, wire, socketVars, loopVars, handled>>

SendLine(n, kind) ==
  /\ client[n] = "connected"
  /\ Cardinality(Lines) < MaxLines
  /\ sent' = [sent EXCEPT ![n] = Append(@, kind)]
  /\ wire' = [wire EXCEPT ![n] = @ \o Bytes(n, Len(sent[n]) + 1, kind)]
  /\ UNCHANGED <<client, socketVars, loopVars, handled>>

\* A client may go in the middle of a line.
HangUp(n) ==
  /\ client[n] = "connected"
  /\ client' = [client EXCEPT ![n] = "gone"]
  /\ \/ UNCHANGED wire
     \/ wire' = [wire EXCEPT ![n] =
                   Append(@, Bytes(n, Len(sent[n]) + 1, "good")[1])]
  /\ UNCHANGED <<sent, socketVars, loopVars, handled>>

-----------------------------------------------------------------------------
(* TelnetProcessor::Process.                                               *)

Readable(s) ==
  \/ s = Listener /\ Waiting # {}
  \/ \E n \in Open : /\ socket[n] = s
                     /\ wire[n] # << >> \/ client[n] = "gone"

\* select returns the sockets of m_Master on which accept or recv would not
\* wait; after 50 ms without any, Process is called anew.
Select ==
  /\ tpc = "select"
  /\ ready' = {s \in master : Readable(s)} /\ ready' # {}
  /\ tpc' = "scan"
  /\ UNCHANGED <<clientVars, socketVars, current, buf, handled>>

\* The for loop visits the sockets in the order of their numbers.
Visiting(s) == tpc = "scan" /\ s \in ready /\ \A r \in ready : s <= r

\* Mutant: FD_SET writes past the end of the fd_set.
AcceptBeyond(n, s) ==
  /\ Visiting(Listener)
  /\ n \in Waiting /\ s \in Sockets \ Taken
  /\ client' = [client EXCEPT ![n] = "connected"]
  /\ socket' = [socket EXCEPT ![n] = s]
  /\ master' = master \cup {s}
  /\ buffers' = [r \in DOMAIN buffers \cup {s} |->
                   IF r \in DOMAIN buffers THEN buffers[r] ELSE << >>]
  /\ ready' = ready \ {Listener}
  /\ UNCHANGED <<sent, wire, tpc, current, buf, handled>>

\* FD_SET ignores a socket the fd_set has no room for, and map::insert
\* leaves a buffer that is there already as it is.
Accept(n, s) ==
  /\ Visiting(Listener)
  /\ n \in Waiting /\ s \in Sockets \ Taken
  /\ client' = [client EXCEPT ![n] = "connected"]
  /\ socket' = [socket EXCEPT ![n] = s]
  /\ master' = IF Cardinality(master) < FdSetSize THEN master \cup {s} ELSE master
  /\ buffers' = [r \in DOMAIN buffers \cup {s} |->
                   IF r \in DOMAIN buffers THEN buffers[r] ELSE << >>]
  /\ ready' = ready \ {Listener}
  /\ UNCHANGED <<sent, wire, tpc, current, buf, handled>>

\* A warning; the client is still waiting.
AcceptFails ==
  /\ Visiting(Listener)
  /\ ready' = ready \ {Listener}
  /\ UNCHANGED <<clientVars, socketVars, tpc, current, buf, handled>>

Receive(s) ==
  /\ Visiting(s) /\ s \in Taken
  /\ LET n == SessionAt(s)
     IN  \E len \in 1 .. Len(wire[n]) :
           /\ buf' = SubSeq(wire[n], 1, len)
           /\ wire' = [wire EXCEPT ![n] = SubSeq(@, len + 1, Len(@))]
  /\ current' = s
  /\ ready' = ready \ {s}
  /\ tpc' = "line"
  /\ UNCHANGED <<sent, client, socketVars, handled>>

\* Mutant: the buffer of a closed socket is kept.
CloseOnly(s) ==
  /\ Visiting(s) /\ s \in Taken
  /\ LET n == SessionAt(s)
     IN  /\ client[n] = "gone"
         /\ wire' = [wire EXCEPT ![n] = << >>]
         /\ socket' = [socket EXCEPT ![n] = 0]
  /\ master' = master \ {s}
  /\ ready' = ready \ {s}
  /\ UNCHANGED <<sent, client, buffers, tpc, current, buf, handled>>

\* recv returns 0, or an error that may cost what was still on its way.
Close(s) ==
  /\ Visiting(s) /\ s \in Taken
  /\ LET n == SessionAt(s)
     IN  /\ client[n] = "gone"
         /\ wire' = [wire EXCEPT ![n] = << >>]
         /\ socket' = [socket EXCEPT ![n] = 0]
  /\ master' = master \ {s}
  /\ buffers' = [r \in DOMAIN buffers \ {s} |-> buffers[r]]
  /\ ready' = ready \ {s}
  /\ UNCHANGED <<sent, client, tpc, current, buf, handled>>

EndScan ==
  /\ tpc = "scan" /\ ready = {}
  /\ tpc' = "select"
  /\ UNCHANGED <<clientVars, socketVars, ready, current, buf, handled>>

AppendToLine ==
  /\ tpc = "line" /\ buf # << >> /\ Head(buf).part # "end"
  /\ buffers' = [buffers EXCEPT ![current] = Append(@, Head(buf))]
  /\ buf' = Tail(buf)
  /\ UNCHANGED <<clientVars, socket, master, tpc, ready, current, handled>>

\* A valid put is queued and counted, an invalid one is answered with an
\* error, and anything else is passed over in silence.
Outcome(line) == CASE line[1].kind = "good" -> "queued"
                   [] line[1].kind = "bad" -> "error"
                   [] OTHER -> "ignored"

\* send waits where nobody reads, once nothing more fits into the socket.
Answered(line) ==
  IF Outcome(line) = "error" /\ line[1].session \in Deaf THEN {"line", "send"}
                                                          ELSE {"line"}

AtEndOfLine == tpc = "line" /\ buf # << >> /\ Head(buf).part = "end"

\* Mutant: the line is not cleared.
HandleAndKeepLine ==
  /\ AtEndOfLine /\ buffers[current] # << >>
  /\ LET line == Append(buffers[current], Head(buf))
     IN  /\ handled' = [handled EXCEPT ![line[1].session] =
                          Append(@, [line |-> line, outcome |-> Outcome(line)])]
         /\ tpc' \in Answered(line)
  /\ buf' = Tail(buf)
  /\ UNCHANGED <<clientVars, socketVars, ready, current>>

\* Mutant: what recv delivered behind the first line is forgotten.
HandleOneLine ==
  /\ AtEndOfLine /\ buffers[current] # << >>
  /\ LET line == Append(buffers[current], Head(buf))
     IN  /\ handled' = [handled EXCEPT ![line[1].session] =
                          Append(@, [line |-> line, outcome |-> Outcome(line)])]
         /\ tpc' \in Answered(line)
  /\ buffers' = [buffers EXCEPT ![current] = << >>]
  /\ buf' = << >>
  /\ UNCHANGED <<clientVars, socket, master, ready, current>>

HandleLine ==
  /\ AtEndOfLine /\ buffers[current] # << >>
  /\ LET line == Append(buffers[current], Head(buf))
     IN  /\ handled' = [handled EXCEPT ![line[1].session] =
                          Append(@, [line |-> line, outcome |-> Outcome(line)])]
         /\ tpc' \in Answered(line)
  /\ buffers' = [buffers EXCEPT ![current] = << >>]
  /\ buf' = Tail(buf)
  /\ UNCHANGED <<clientVars, socket, master, ready, current>>

\* The connection is gone, and send fails.
SendReturns ==
  /\ tpc = "send" /\ client[SessionAt(current)] = "gone"
  /\ tpc' = "line"
  /\ UNCHANGED <<clientVars, socketVars, ready, current, buf, handled>>

\* An end of line on an empty buffer: substr(1) of the empty string throws,
\* nothing catches, and the process is over.
HandleBlankLine ==
  /\ AtEndOfLine /\ buffers[current] = << >>
  /\ tpc' = "terminated"
  /\ UNCHANGED <<clientVars, socketVars, ready, current, buf, handled>>

EndReceive ==
  /\ tpc = "line" /\ buf = << >>
  /\ tpc' = "scan" /\ current' = 0
  /\ UNCHANGED <<clientVars, socketVars, ready, buf, handled>>

\* Mutant: Stop closes the sockets of m_Master.
StopMaster ==
  /\ tpc = "select"
  /\ socket' = [n \in Sessions |-> IF socket[n] \in master THEN 0 ELSE socket[n]]
  /\ buffers' = [s \in {} |-> << >>]
  /\ tpc' = "stopped"
  /\ UNCHANGED <<clientVars, master, ready, current, buf, handled>>

\* TelnetProcessor::Stop, after the last Process.
Stop ==
  /\ tpc = "select"
  /\ socket' = [n \in Sessions |->
                  IF socket[n] \in DOMAIN buffers THEN 0 ELSE socket[n]]
  /\ buffers' = [s \in {} |-> << >>]
  /\ tpc' = "stopped"
  /\ UNCHANGED <<clientVars, master, ready, current, buf, handled>>

-----------------------------------------------------------------------------
Process ==
  \/ Select
  \/ \E n \in Sessions, s \in Sockets : Accept(n, s)
  \/ AcceptFails
  \/ \E s \in Sockets : Receive(s) \/ Close(s)
  \/ EndScan
  \/ AppendToLine \/ HandleLine \/ SendReturns \/ HandleBlankLine \/ EndReceive

Clients ==
  \E n \in Sessions : Connect(n) \/ HangUp(n) \/ \E k \in Kinds : SendLine(n, k)

Next == Process \/ Clients \/ Stop

Spec == Init /\ [][Next]_vars

\* The telnet thread is scheduled; clients do as they please, and the
\* service need not be stopped.
FairSpec == Spec /\ WF_vars(Process)
=============================================================================
