------------------------------- MODULE LineLog -------------------------------
(***************************************************************************)
(* What a telnet client may rely on, with no socket, buffer or byte in     *)
(* sight: the service takes the lines of a client one by one, in the order *)
(* in which the client sent them, each once, and answers each by its kind; *)
(* it closes no connection whose client stays, but all of them at a stop,  *)
(* and no line ends it but a blank one.  Telnet.tla is shown to implement  *)
(* this module.                                                            *)
(***************************************************************************)
EXTENDS Naturals, Sequences

CONSTANTS
  Clients,   \* whoever connects, once each
  Kinds      \* what they send

VARIABLES
  client,    \* per client, "new", "here" or "gone"
  open,      \* the clients that are connected
  said,      \* per client, the kinds of the lines it sent
  done,      \* per client, the numbers of the lines taken, with their outcome
  service    \* "on", "stopped" or "terminated"

vars == <<client, open, said, done, service>>

Result(kind) == CASE kind = "good" -> "queued"
                  [] kind = "bad" -> "error"
                  [] OTHER -> "ignored"

\* The number of the line of client n that is next.
Following(n) == Len(done[n]) + 1

HasMore(n) == n \in open /\ service = "on" /\ Following(n) <= Len(said[n])

Init ==
  /\ client = [n \in Clients |-> "new"] /\ open = {}
  /\ said = [n \in Clients |-> << >>] /\ done = [n \in Clients |-> << >>]
  /\ service = "on"

Arrive(n) ==
  /\ service = "on" /\ client[n] = "new"
  /\ client' = [client EXCEPT ![n] = "here"]
  /\ open' = open \cup {n}
  /\ UNCHANGED <<said, done, service>>

Say(n, kind) ==
  /\ client[n] = "here"
  /\ said' = [said EXCEPT ![n] = Append(@, kind)]
  /\ UNCHANGED <<client, open, done, service>>

Leave(n) ==
  /\ client[n] = "here"
  /\ client' = [client EXCEPT ![n] = "gone"]
  /\ UNCHANGED <<open, said, done, service>>

Take(n) ==
  /\ HasMore(n)
  /\ LET kind == said[n][Following(n)]
     IN  /\ kind # "blank"
         /\ done' = [done EXCEPT ![n] =
                       Append(@, [line |-> Following(n), outcome |-> Result(kind)])]
  /\ UNCHANGED <<client, open, said, service>>

Close(n) ==
  /\ service = "on" /\ n \in open /\ client[n] = "gone"
  /\ open' = open \ {n}
  /\ UNCHANGED <<client, said, done, service>>

Stop ==
  /\ service = "on"
  /\ open' = {} /\ service' = "stopped"
  /\ UNCHANGED <<client, said, done>>

\* The process dies of a blank line.
Terminate(n) ==
  /\ HasMore(n) /\ said[n][Following(n)] = "blank"
  /\ service' = "terminated"
  /\ UNCHANGED <<client, open, said, done>>

Next ==
  \/ Stop
  \/ \E n \in Clients :
       \/ Arrive(n) \/ Leave(n) \/ Take(n) \/ Close(n) \/ Terminate(n)
       \/ \E kind \in Kinds : Say(n, kind)

Spec == Init /\ [][Next]_vars
=============================================================================
