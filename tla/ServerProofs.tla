---------------------------- MODULE ServerProofs ----------------------------
(***************************************************************************)
(* What the coordinator server keeps of its sockets and threads, for any   *)
(* number of clients, sessions and handles: a handle is in the hands of    *)
(* one thread from the accept to the close, and join() leaves nothing      *)
(* behind.                                                                 *)
(***************************************************************************)
EXTENDS Server, FiniteSetTheorems, TLAPS

-----------------------------------------------------------------------------
(* The inductive invariant. *)

\* What a peer may send.
Messages == GatedKinds \cup OpenKinds \cup FatalKinds

Arrivals ==
  [client: Clients, shut: BOOLEAN, gone: BOOLEAN, arrived: Seq(Messages)]
Connections ==
  [client: Clients \cup {NoSession}, shut: BOOLEAN, gone: BOOLEAN, arrived: Seq(Messages)]

\* A session thread whose socket is registered.
Listed(s) == thread[s] \in {"loop", "receive", "handle", "send", "unregister"}

\* What the variables may hold.
ServerTypes ==
  /\ owner \in {"down", "up", "stop", "stopped", "join", "accept", "detach", "sessions"}
  /\ acceptor \in {"none", "prune", "wait", "admit", "ended"}
  /\ backlog \in Seq(Arrivals)
  /\ sessions \subseteq Sessions /\ joining \subseteq Sessions /\ registered \subseteq Handles
  /\ thread \in [Sessions -> {"none", "register", "loop", "receive", "handle", "send",
                              "unregister", "close", "ended"}]
  /\ DOMAIN socket = Sessions
  /\ \A s \in Sessions : thread[s] = "send" => reply[s] \in {"Ack", "Error"}
  /\ DOMAIN reply = Sessions
  /\ conn \in [Handles -> Connections]
  /\ client \in [Clients -> {"closed", "connecting", "ready", "calling"}]
  /\ inbox \in [Clients -> Seq({"Ack", "Error"})]
  /\ ended \in [Clients -> BOOLEAN]

\* An open handle is held by the accept thread or by one session thread, and a
\* registered one by a session thread that has not unregistered it.
SocketsHeld ==
  /\ \A s \in Sessions : Serving(s) => socket[s] \in Handles /\ IsOpen(socket[s])
  /\ \A s, u \in Sessions : Serving(s) /\ Serving(u) /\ socket[s] = socket[u] => s = u
  /\ acceptor = "admit" => /\ accepted \in Handles /\ IsOpen(accepted)
                           /\ \A s \in Sessions : Serving(s) => socket[s] # accepted
  /\ \A h \in registered : \E s \in Sessions : Listed(s) /\ socket[s] = h
  /\ \A h \in Handles : IsOpen(h) =>
       \/ acceptor = "admit" /\ h = accepted
       \/ \E s \in Sessions : Serving(s) /\ socket[s] = h

\* The owning thread knows of every thread that runs.
ThreadsKnown ==
  /\ joining # {} => owner = "sessions"
  /\ acceptor = "none" <=> owner \in {"down", "detach", "sessions"}
  /\ owner \in {"down", "sessions"} => sessions = {}
  /\ \A s \in Sessions : thread[s] # "none" <=> s \in sessions \cup joining
  /\ owner = "down" => backlog = << >>

\* A client that waits has a connection, an answer, or the end of its stream.
CallsPending ==
  \A c \in FabricClients :
    client[c] \in {"connecting", "calling"} =>
      ended[c] \/ inbox[c] # << >> \/ Waiting(c) \/ HandlesOf(c) # {}

ServerInv == ServerTypes /\ SocketsHeld /\ ThreadsKnown /\ CallsPending

\* The server starts with nothing.
LEMMA ServerInit == Init => ServerInv
<1> SUFFICES ASSUME Init PROVE ServerInv
  OBVIOUS
<1>1. ServerTypes
  <2>1. Free \in Connections
    BY DEF Free, Connections
  <2> QED BY <2>1 DEF Init, ServerTypes
<1>2. SocketsHeld
  BY DEF Init, SocketsHeld, Serving, IsOpen, Free
<1>3. ThreadsKnown
  BY DEF Init, ThreadsKnown
<1>4. CallsPending
  BY ServerAssumption DEF Init, CallsPending
<1> QED BY <1>1, <1>2, <1>3, <1>4 DEF ServerInv

-----------------------------------------------------------------------------
(* Steps that move one session thread. *)

\* What a step may do to the connections without moving a handle.
SameClients ==
  \A h \in Handles : conn'[h].client = conn[h].client /\ conn'[h].gone = conn[h].gone

\* A step of a session thread that goes on serving its socket.
LEMMA ServingStep ==
  ASSUME ServerInv, ServerTypes', NEW s \in Sessions, NEW label, Serving(s), Goto(s, label),
         label \in {"loop", "receive", "handle", "send", "unregister", "close"},
         UNCHANGED <<owner, acceptor, accepted, backlog, sessions, joining, socket, client, ended>>,
         SameClients, \A c \in Clients : inbox'[c] = inbox[c] \/ inbox'[c] # << >>,
         \A h \in registered' : IF h = socket[s] THEN label # "close" ELSE h \in registered
  PROVE  ServerInv'
<1>1. /\ thread'[s] = label /\ Serving(s)' /\ (label # "close" => Listed(s)')
      /\ \A u \in Sessions \ {s} : thread'[u] = thread[u]
  BY DEF Goto, ServerInv, ServerTypes, Serving, Listed
<1>2. \A u \in Sessions : Serving(u)' <=> Serving(u)
  BY <1>1 DEF Serving
<1>3. \A h \in Handles : IsOpen(h)' <=> IsOpen(h)
  BY DEF IsOpen, SameClients
<1>4. SocketsHeld'
  <2>1. (\A u \in Sessions : Serving(u) => socket[u] \in Handles /\ IsOpen(socket[u]))'
    BY <1>2, <1>3 DEF ServerInv, SocketsHeld
  <2>2. (\A v, u \in Sessions : Serving(v) /\ Serving(u) /\ socket[v] = socket[u] => v = u)'
    BY <1>2 DEF ServerInv, SocketsHeld
  <2>3. (acceptor = "admit" => /\ accepted \in Handles /\ IsOpen(accepted)
                               /\ \A u \in Sessions : Serving(u) => socket[u] # accepted)'
    BY <1>2, <1>3 DEF ServerInv, SocketsHeld
  <2>4. (\A h \in registered : \E u \in Sessions : Listed(u) /\ socket[u] = h)'
    <3> SUFFICES ASSUME NEW h \in registered'
                 PROVE  \E u \in Sessions : Listed(u)' /\ socket[u] = h
      OBVIOUS
    <3>1. CASE h = socket[s]
      BY <1>1, <3>1
    <3>2. CASE h # socket[s]
      <4>1. PICK u \in Sessions : Listed(u) /\ socket[u] = h
        BY <3>2 DEF ServerInv, SocketsHeld
      <4> QED BY <1>1, <3>2, <4>1 DEF Listed
    <3> QED BY <3>1, <3>2
  <2>5. (\A h \in Handles : IsOpen(h) =>
           \/ acceptor = "admit" /\ h = accepted
           \/ \E u \in Sessions : Serving(u) /\ socket[u] = h)'
    BY <1>2, <1>3 DEF ServerInv, SocketsHeld
  <2> QED BY <2>1, <2>2, <2>3, <2>4, <2>5 DEF SocketsHeld
<1>5. ThreadsKnown'
  BY <1>1 DEF ServerInv, ThreadsKnown, Serving
<1>6. CallsPending'
  <2>1. \A c \in Clients : HandlesOf(c)' = HandlesOf(c) /\ (Waiting(c)' <=> Waiting(c))
    BY DEF HandlesOf, Waiting, SameClients
  <2> QED BY <2>1, ServerAssumption DEF ServerInv, CallsPending
<1> QED BY <1>4, <1>5, <1>6 DEF ServerInv

\* The types of a step that changes no more than the place of a session thread.
LEMMA GotoTypes ==
  ASSUME ServerTypes, NEW s \in Sessions,
         NEW label \in {"register", "loop", "receive", "handle", "unregister", "close", "ended"},
         Goto(s, label),
         UNCHANGED <<owner, acceptor, backlog, sessions, joining, socket, client, ended>>,
         registered' \subseteq Handles, conn' \in [Handles -> Connections],
         inbox' \in [Clients -> Seq({"Ack", "Error"})],
         DOMAIN reply' = Sessions, \A u \in Sessions \ {s} : reply'[u] = reply[u]
  PROVE  ServerTypes'
BY DEF ServerTypes, Goto

\* Taking a request from a connection leaves its client where it is.
LEMMA ConnUpdate ==
  ASSUME ServerTypes, NEW h \in Handles, NEW arrived \in Seq(Messages),
         conn' = [conn EXCEPT ![h].arrived = arrived]
  PROVE  conn' \in [Handles -> Connections] /\ SameClients
<1> DEFINE next == [conn[h] EXCEPT !.arrived = arrived]
<1>1. conn \in [Handles -> Connections] /\ conn[h] \in Connections
  BY DEF ServerTypes
<1>2. /\ next \in Connections
      /\ next.client = conn[h].client /\ next.gone = conn[h].gone
  BY <1>1 DEF Connections
<1>3. conn' = [conn EXCEPT ![h] = next]
  OBVIOUS
<1> HIDE DEF next
<1> QED BY <1>1, <1>2, <1>3 DEF SameClients

\* A session thread that registers its socket, looks at the stop flag, receives,
\* answers or unregisters keeps the invariant.
LEMMA SessionServes ==
  ASSUME ServerInv, NEW s \in Sessions,
         \/ Register(s) \/ Loop(s) \/ Receive(s) \/ ReceiveFails(s) \/ Handle(s)
         \/ Send(s) \/ SendFails(s) \/ Unregister(s)
  PROVE  ServerInv'
<1> DEFINE h == socket[s]
<1>0. ServerTypes /\ (Serving(s) => h \in Handles /\ IsOpen(h))
  BY DEF ServerInv, SocketsHeld
<1>1. ASSUME UNCHANGED conn PROVE conn' \in [Handles -> Connections] /\ SameClients
  BY <1>0, <1>1 DEF ServerTypes, SameClients
<1>2. ASSUME UNCHANGED reply
      PROVE  DOMAIN reply' = Sessions /\ \A u \in Sessions \ {s} : reply'[u] = reply[u]
  BY <1>0, <1>2 DEF ServerTypes
<1>3. ASSUME UNCHANGED inbox
      PROVE  /\ inbox' \in [Clients -> Seq({"Ack", "Error"})]
             /\ \A c \in Clients : inbox'[c] = inbox[c] \/ inbox'[c] # << >>
  BY <1>0, <1>3 DEF ServerTypes
<1>4. CASE Register(s)
  <2>1. /\ Serving(s) /\ Goto(s, "loop") /\ registered' = registered \cup {h}
        /\ UNCHANGED <<owner, acceptor, accepted, backlog, sessions, joining, socket, reply,
                       conn, client, inbox, ended>>
    BY <1>4 DEF Register, Serving, clientVars
  <2>2. registered' \subseteq Handles
    BY <1>0, <2>1 DEF ServerTypes
  <2>3. ServerTypes'
    BY <1>0, <1>1, <1>2, <1>3, <2>1, <2>2, GotoTypes
  <2> QED BY <1>1, <1>3, <2>1, <2>3, ServingStep
<1>5. CASE Loop(s) \/ ReceiveFails(s)
  <2>1. PICK label \in {"receive", "unregister"} : Goto(s, label)
    BY <1>5 DEF Loop, ReceiveFails
  <2>2. /\ Serving(s)
        /\ UNCHANGED <<owner, acceptor, accepted, backlog, sessions, joining, registered, socket,
                       reply, conn, client, inbox, ended>>
    BY <1>5 DEF Loop, ReceiveFails, Serving, clientVars, serverVars, ownVars
  <2>3. registered' \subseteq Handles
    BY <1>0, <2>2 DEF ServerTypes
  <2>4. ServerTypes'
    BY <1>0, <1>1, <1>2, <1>3, <2>1, <2>2, <2>3, GotoTypes
  <2> QED BY <1>1, <1>3, <2>1, <2>2, <2>4, ServingStep
<1>6. CASE Receive(s)
  <2>1. /\ Serving(s) /\ Goto(s, "handle") /\ conn[h].arrived # << >>
        /\ conn' = [conn EXCEPT ![h].arrived = Tail(@)]
        /\ UNCHANGED <<owner, acceptor, accepted, backlog, sessions, joining, registered, socket,
                       reply, client, inbox, ended>>
    BY <1>6 DEF Receive, Serving, clientVars, serverVars, ownVars
  <2>2. Tail(conn[h].arrived) \in Seq(Messages)
    <3>1. conn[h].arrived \in Seq(Messages)
      BY <1>0, <2>1 DEF ServerTypes, Connections
    <3> DEFINE arrived == conn[h].arrived
    <3> HIDE DEF arrived
    <3>2. arrived \in Seq(Messages) /\ arrived # << >> => Tail(arrived) \in Seq(Messages)
      OBVIOUS
    <3> QED BY <2>1, <3>1, <3>2 DEF arrived
  <2>3. conn' \in [Handles -> Connections] /\ SameClients
    BY <1>0, <2>1, <2>2, ConnUpdate
  <2>4. registered' \subseteq Handles
    BY <1>0, <2>1 DEF ServerTypes
  <2>5. ServerTypes'
    BY <1>0, <1>2, <1>3, <2>1, <2>3, <2>4, GotoTypes
  <2> QED BY <1>3, <2>1, <2>3, <2>5, ServingStep
<1>7. CASE Handle(s)
  <2>1. /\ Serving(s) /\ Goto(s, "send")
        /\ reply' = [reply EXCEPT ![s] = ReplyTo(request[s], hello[s])]
        /\ UNCHANGED <<owner, acceptor, accepted, backlog, sessions, joining, registered, socket,
                       conn, client, inbox, ended>>
    BY <1>7 DEF Handle, Serving, clientVars, serverVars, ownVars
  <2>2. ReplyTo(request[s], hello[s]) \in {"Ack", "Error"}
    BY DEF ReplyTo
  <2>3. ServerTypes'
    BY <1>0, <2>1, <2>2 DEF ServerTypes, Goto
  <2> QED BY <1>1, <1>3, <2>1, <2>3, ServingStep
<1>8. CASE Send(s) \/ SendFails(s)
  <2>1. PICK label \in {"unregister", "loop"} : Goto(s, label)
    BY <1>8 DEF Send, SendFails, AfterReply
  <2>2. /\ Serving(s) /\ thread[s] = "send" /\ reply' = [reply EXCEPT ![s] = NoRequest]
        /\ UNCHANGED <<owner, acceptor, accepted, backlog, sessions, joining, registered, socket,
                       conn, client, ended>>
    BY <1>8 DEF Send, SendFails, AfterReply, Serving, clientVars, serverVars, ownVars
  <2>3. /\ inbox' \in [Clients -> Seq({"Ack", "Error"})]
        /\ \A c \in Clients : inbox'[c] = inbox[c] \/ inbox'[c] # << >>
    <3>1. CASE Send(s)
      <4> DEFINE c == conn[h].client
      <4>1. inbox' = [inbox EXCEPT ![c] = Append(@, reply[s])]
        BY <3>1 DEF Send
      <4>2. reply[s] \in {"Ack", "Error"} /\ c \in Clients
        BY <1>0, <2>2 DEF ServerTypes, IsOpen, Connections
      <4> HIDE DEF c
      <4>3. inbox[c] \in Seq({"Ack", "Error"})
        BY <1>0, <4>2 DEF ServerTypes
      <4>4. Append(inbox[c], reply[s]) \in Seq({"Ack", "Error"}) /\ Append(inbox[c], reply[s]) # << >>
        BY <4>2, <4>3
      <4> QED BY <1>0, <4>1, <4>2, <4>4 DEF ServerTypes
    <3>2. CASE SendFails(s)
      BY <1>3, <3>2 DEF SendFails, clientVars
    <3> QED BY <1>8, <3>1, <3>2
  <2>4. /\ registered' \subseteq Handles
        /\ DOMAIN reply' = Sessions /\ \A u \in Sessions \ {s} : reply'[u] = reply[u]
    BY <1>0, <2>2 DEF ServerTypes
  <2>5. ServerTypes'
    BY <1>0, <1>1, <2>1, <2>2, <2>3, <2>4, GotoTypes
  <2> QED BY <1>1, <2>1, <2>2, <2>3, <2>5, ServingStep
<1>9. CASE Unregister(s)
  <2>1. /\ Serving(s) /\ Goto(s, "close") /\ registered' = registered \ {h}
        /\ UNCHANGED <<owner, acceptor, accepted, backlog, sessions, joining, socket, reply,
                       conn, client, inbox, ended>>
    BY <1>9 DEF Unregister, Serving, clientVars
  <2>2. registered' \subseteq Handles
    BY <1>0, <2>1 DEF ServerTypes
  <2>3. ServerTypes'
    BY <1>0, <1>1, <1>2, <1>3, <2>1, <2>2, GotoTypes
  <2> QED BY <1>1, <1>3, <2>1, <2>3, ServingStep
<1> QED BY <1>4, <1>5, <1>6, <1>7, <1>8, <1>9

-----------------------------------------------------------------------------
(* Steps that move no session thread. *)

\* Handles and threads are where they were.
LEMMA PlacesKept ==
  ASSUME ServerInv, UNCHANGED <<socket, accepted, registered>>,
         \A s \in Sessions : thread'[s] = thread[s] \/ (thread[s] = "ended" /\ thread'[s] = "none"),
         acceptor' = "admit" <=> acceptor = "admit",
         \A h \in Handles : conn'[h].client = conn[h].client
  PROVE  SocketsHeld'
<1>1. \A s \in Sessions : (Serving(s)' <=> Serving(s)) /\ (Listed(s)' <=> Listed(s))
  BY DEF Serving, Listed
<1>2. \A h \in Handles : IsOpen(h)' <=> IsOpen(h)
  BY DEF IsOpen
<1>3. registered \subseteq Handles
  BY DEF ServerInv, ServerTypes
<1>4. (\A s \in Sessions : Serving(s) => socket[s] \in Handles /\ IsOpen(socket[s]))'
  BY <1>1, <1>2 DEF ServerInv, SocketsHeld
<1>5. (\A s, u \in Sessions : Serving(s) /\ Serving(u) /\ socket[s] = socket[u] => s = u)'
  BY <1>1 DEF ServerInv, SocketsHeld
<1>6. (acceptor = "admit" => /\ accepted \in Handles /\ IsOpen(accepted)
                             /\ \A s \in Sessions : Serving(s) => socket[s] # accepted)'
  BY <1>1, <1>2 DEF ServerInv, SocketsHeld
<1>7. (\A h \in registered : \E s \in Sessions : Listed(s) /\ socket[s] = h)'
  BY <1>1 DEF ServerInv, SocketsHeld
<1>8. (\A h \in Handles : IsOpen(h) =>
         \/ acceptor = "admit" /\ h = accepted
         \/ \E s \in Sessions : Serving(s) /\ socket[s] = h)'
  BY <1>1, <1>2 DEF ServerInv, SocketsHeld
<1> QED BY <1>4, <1>5, <1>6, <1>7, <1>8 DEF SocketsHeld

\* Nothing happens to a client.
LEMMA CallsKept ==
  ASSUME ServerInv, UNCHANGED <<backlog, client, inbox, ended>>, SameClients
  PROVE  CallsPending'
<1>1. \A c \in Clients : HandlesOf(c)' = HandlesOf(c) /\ (Waiting(c)' <=> Waiting(c))
  BY DEF HandlesOf, Waiting, SameClients
<1> QED BY <1>1, ServerAssumption DEF ServerInv, CallsPending

\* The stop handle, start(), stop() and join() leave the sockets where they are,
\* except that they are shut down.
LEMMA OwnerStep ==
  ASSUME ServerInv, AcceptStopped \/ Start \/ Stop \/ Join \/ ShutdownSessions
                    \/ JoinAcceptor \/ Detach
  PROVE  ServerInv'
<1>1. /\ UNCHANGED <<thread, socket, accepted, registered, reply, backlog, client, inbox, ended>>
      /\ acceptor' = "admit" <=> acceptor = "admit"
      /\ acceptor' \in {"none", "prune", "wait", "admit", "ended"}
      /\ owner' \in {"down", "up", "stop", "stopped", "join", "accept", "detach", "sessions"}
  BY DEF ServerInv, ServerTypes, ThreadsKnown, AcceptStopped, Start, Stop, Join, Signal,
    ShutdownSessions, AfterShutdown, JoinAcceptor, Detach, sessionVars, clientVars
<1>2. conn' \in [Handles -> Connections] /\ SameClients
  <2>1. ASSUME NEW h \in Handles
        PROVE  LET shut == [conn[h] EXCEPT !.shut = TRUE] IN
               /\ shut \in Connections /\ conn[h] \in Connections
               /\ shut.client = conn[h].client /\ shut.gone = conn[h].gone
    BY DEF ServerInv, ServerTypes, Connections
  <2>2. CASE ShutdownSessions
    BY <2>1, <2>2 DEF ShutdownSessions, SameClients
  <2>3. CASE UNCHANGED conn
    BY <2>3 DEF ServerInv, ServerTypes, SameClients
  <2> QED BY <2>2, <2>3 DEF AcceptStopped, Start, Stop, Join, Signal, JoinAcceptor, Detach
<1>3. sessions' \subseteq Sessions /\ joining' \subseteq Sessions
  BY DEF ServerInv, ServerTypes, AcceptStopped, Start, Stop, Join, Signal, ShutdownSessions,
    JoinAcceptor, Detach
<1>4. ServerTypes'
  BY <1>1, <1>2, <1>3 DEF ServerInv, ServerTypes
<1>5. SocketsHeld'
  BY <1>1, <1>2, PlacesKept DEF SameClients
<1>6. CallsPending'
  BY <1>1, <1>2, CallsKept
<1>7. ThreadsKnown'
  BY DEF ServerInv, ServerTypes, ThreadsKnown, AcceptStopped, Start, Stop, Join, Signal,
    ShutdownSessions, AfterShutdown, JoinAcceptor, Detach, sessionVars
<1> QED BY <1>4, <1>5, <1>6, <1>7 DEF ServerInv

-----------------------------------------------------------------------------
(* Clients. *)

\* A client that goes away keeps the handle open, and takes nobody else along.
LEMMA GoneStep ==
  ASSUME ServerInv, NEW c \in Clients, Gone(c), UNCHANGED <<ownVars, sessionVars>>
  PROVE  ServerInv'
<1>0. ServerTypes /\ NoSession \notin Clients
  BY ServerAssumption DEF ServerInv
<1>1. ASSUME NEW h \in Handles
      PROVE  /\ conn'[h] \in Connections /\ conn'[h].client = conn[h].client
             /\ conn[h].client # c => conn'[h].gone = conn[h].gone
  <2> DEFINE left == [conn[h] EXCEPT !.gone = TRUE]
  <2>1. conn[h] \in Connections
    BY <1>0 DEF ServerTypes
  <2>2. left \in Connections /\ left.client = conn[h].client
    BY <2>1 DEF Connections
  <2>3. conn'[h] = IF h \in HandlesOf(c) THEN left ELSE conn[h]
    BY DEF Gone
  <2> HIDE DEF left
  <2> QED BY <2>1, <2>2, <2>3 DEF HandlesOf
<1>2. conn' \in [Handles -> Connections]
  BY <1>1 DEF Gone
<1>3. /\ backlog' \in Seq(Arrivals) /\ Len(backlog') = Len(backlog)
      /\ \A i \in DOMAIN backlog : /\ backlog'[i].client = backlog[i].client
                                   /\ backlog[i].client # c => backlog'[i].gone = backlog[i].gone
  <2>1. ASSUME NEW i \in DOMAIN backlog
        PROVE  LET left == [backlog[i] EXCEPT !.gone = @ \/ backlog[i].client = c] IN
               /\ left \in Arrivals /\ left.client = backlog[i].client
               /\ backlog[i].client # c => left.gone = backlog[i].gone
    <3>1. backlog[i] \in Arrivals
      BY <1>0 DEF ServerTypes
    <3> QED BY <3>1 DEF Arrivals
  <2>2. DOMAIN backlog = 1..Len(backlog) /\ Len(backlog) \in Nat
    BY <1>0 DEF ServerTypes
  <2>3. backlog' \in [1..Len(backlog) -> Arrivals]
    BY <2>1, <2>2 DEF Gone
  <2>4. backlog' \in Seq(Arrivals)
    BY <2>2, <2>3
  <2>5. DOMAIN backlog' = 1..Len(backlog') /\ DOMAIN backlog' = 1..Len(backlog) /\ Len(backlog') \in Nat
    BY <2>3, <2>4
  <2>6. Len(backlog') = Len(backlog)
    <3>1. ASSUME NEW m \in Nat, NEW n \in Nat, 1..m = 1..n PROVE ~(m < n)
      <4>1. m < n => n \in 1..n /\ n \notin 1..m
        OBVIOUS
      <4> QED BY <3>1, <4>1
    <3>2. ASSUME NEW m \in Nat, NEW n \in Nat, 1..m = 1..n PROVE m = n
      <4>1. ~(m < n) /\ ~(n < m)
        BY <3>1, <3>2
      <4> QED BY <4>1
    <3>3. Len(backlog') \in Nat /\ Len(backlog) \in Nat /\ 1..Len(backlog') = 1..Len(backlog)
      BY <2>2, <2>5
    <3> QED BY <3>2, <3>3
  <2>7. \A i \in DOMAIN backlog :
          backlog'[i] = [backlog[i] EXCEPT !.gone = @ \/ backlog[i].client = c]
    BY DEF Gone
  <2> QED BY <2>1, <2>4, <2>6, <2>7
<1>4. ServerTypes'
  <2>1. /\ client' \in [Clients -> {"closed", "connecting", "ready", "calling"}]
        /\ inbox' \in [Clients -> Seq({"Ack", "Error"})] /\ ended' \in [Clients -> BOOLEAN]
    BY <1>0 DEF ServerTypes, Gone
  <2> QED BY <1>0, <1>2, <1>3, <2>1 DEF ServerTypes, ownVars, sessionVars
<1>5. SocketsHeld'
  BY <1>1, PlacesKept DEF ownVars, sessionVars
<1>6. ThreadsKnown'
  <2>1. backlog = << >> => backlog' = << >>
    BY <1>0, <1>3 DEF ServerTypes
  <2> QED BY <2>1 DEF ServerInv, ThreadsKnown, ownVars, sessionVars
<1>7. CallsPending'
  <2> SUFFICES ASSUME NEW e \in FabricClients, client'[e] \in {"connecting", "calling"}
               PROVE  ended'[e] \/ inbox'[e] # << >> \/ Waiting(e)' \/ HandlesOf(e)' # {}
    BY DEF CallsPending
  <2>1. e \in Clients /\ e # c
    BY <1>0, ServerAssumption DEF Gone, ServerTypes
  <2>2. client'[e] = client[e] /\ inbox'[e] = inbox[e] /\ ended'[e] = ended[e]
    BY <1>0, <2>1 DEF Gone, ServerTypes
  <2>3. HandlesOf(e)' = HandlesOf(e)
    BY <1>1, <2>1 DEF HandlesOf
  <2>4. Waiting(e) => Waiting(e)'
    <3>1. DOMAIN backlog' = DOMAIN backlog
      BY <1>0, <1>3 DEF ServerTypes
    <3> QED BY <1>3, <2>1, <3>1 DEF Waiting
  <2> QED BY <2>2, <2>3, <2>4 DEF ServerInv, CallsPending
<1> QED BY <1>4, <1>5, <1>6, <1>7 DEF ServerInv

\* connect() adds a connection to the backlog, and its client can be answered.
LEMMA ConnectStep ==
  ASSUME ServerInv, NEW c \in Clients, Connect(c)
  PROVE  ServerInv'
<1> DEFINE new == [client |-> c, shut |-> FALSE, gone |-> FALSE,
                   arrived |-> IF c \in FabricClients THEN <<"Hello">> ELSE << >>]
<1>0. ServerTypes
  BY DEF ServerInv
<1>1. /\ owner # "down" /\ backlog' = Append(backlog, new)
      /\ client' = [client EXCEPT ![c] = IF c \in FabricClients THEN "connecting" ELSE "ready"]
      /\ UNCHANGED <<owner, acceptor, accepted, sessions, joining, registered, thread, socket,
                     reply, conn, inbox, ended>>
  BY DEF Connect, sessionVars
<1>2. new \in Arrivals /\ new.client = c /\ ~new.gone
  <2> DEFINE arrived == IF c \in FabricClients THEN <<"Hello">> ELSE << >>
  <2>1. <<"Hello">> \in Seq(Messages) /\ << >> \in Seq(Messages)
    <3>1. "Hello" \in Messages
      BY DEF Messages, OpenKinds
    <3> QED BY <3>1
  <2>2. arrived \in Seq(Messages)
    BY <2>1
  <2>3. new = [client |-> c, shut |-> FALSE, gone |-> FALSE, arrived |-> arrived]
    OBVIOUS
  <2> HIDE DEF arrived, new
  <2> QED BY <2>2, <2>3 DEF Arrivals
<1> HIDE DEF new
<1>3. /\ backlog' \in Seq(Arrivals) /\ DOMAIN backlog' = DOMAIN backlog \cup {Len(backlog) + 1}
      /\ backlog'[Len(backlog) + 1] = new
      /\ \A i \in DOMAIN backlog : backlog'[i] = backlog[i]
  BY <1>0, <1>1, <1>2 DEF ServerTypes
<1>4. ServerTypes'
  BY <1>0, <1>1, <1>3 DEF ServerTypes
<1>5. SocketsHeld'
  BY <1>1, PlacesKept
<1>6. ThreadsKnown'
  BY <1>1 DEF ServerInv, ThreadsKnown
<1>7. CallsPending'
  <2> SUFFICES ASSUME NEW e \in FabricClients, client'[e] \in {"connecting", "calling"}
               PROVE  ended'[e] \/ inbox'[e] # << >> \/ Waiting(e)' \/ HandlesOf(e)' # {}
    BY DEF CallsPending
  <2>1. HandlesOf(e)' = HandlesOf(e) /\ (Waiting(e) => Waiting(e)')
    BY <1>1, <1>3 DEF HandlesOf, Waiting
  <2>2. Waiting(c)'
    BY <1>2, <1>3 DEF Waiting
  <2>3. e # c => client'[e] = client[e]
    BY <1>0, <1>1, ServerAssumption DEF ServerTypes
  <2> QED BY <1>1, <2>1, <2>2, <2>3 DEF ServerInv, CallsPending
<1> QED BY <1>4, <1>5, <1>6, <1>7 DEF ServerInv

\* A request goes to a handle the server has open for its client.
LEMMA SendRequestStep ==
  ASSUME ServerInv, NEW c \in Clients, NEW kind \in Messages, SendRequest(c, kind)
  PROVE  ServerInv'
<1>0. ServerTypes
  BY DEF ServerInv
<1>1. PICK h \in HandlesOf(c) : conn' = [conn EXCEPT ![h].arrived = Append(@, kind)]
  BY DEF SendRequest
<1>2. /\ client' = [client EXCEPT ![c] = IF c \in FabricClients THEN "calling" ELSE "ready"]
      /\ UNCHANGED <<owner, acceptor, accepted, sessions, joining, registered, thread, socket,
                     reply, backlog, inbox, ended>>
  BY DEF SendRequest, sessionVars, serverVars, ownVars
<1>3. conn' \in [Handles -> Connections] /\ SameClients
  <2>1. h \in Handles /\ conn[h].arrived \in Seq(Messages)
    BY <1>0 DEF HandlesOf, ServerTypes, Connections
  <2>2. Append(conn[h].arrived, kind) \in Seq(Messages)
    BY <2>1
  <2> QED BY <1>0, <1>1, <2>1, <2>2, ConnUpdate
<1>4. ServerTypes'
  BY <1>0, <1>2, <1>3 DEF ServerTypes
<1>5. SocketsHeld'
  BY <1>2, <1>3, PlacesKept DEF SameClients
<1>6. ThreadsKnown'
  BY <1>2 DEF ServerInv, ThreadsKnown
<1>7. CallsPending'
  <2> SUFFICES ASSUME NEW e \in FabricClients, client'[e] \in {"connecting", "calling"}
               PROVE  ended'[e] \/ inbox'[e] # << >> \/ Waiting(e)' \/ HandlesOf(e)' # {}
    BY DEF CallsPending
  <2>1. HandlesOf(e)' = HandlesOf(e) /\ (Waiting(e)' <=> Waiting(e))
    BY <1>2, <1>3 DEF HandlesOf, Waiting, SameClients
  <2>2. HandlesOf(c) # {}
    BY <1>1
  <2>3. e # c => client'[e] = client[e]
    BY <1>0, <1>2, ServerAssumption DEF ServerTypes
  <2> QED BY <1>2, <2>1, <2>2, <2>3 DEF ServerInv, CallsPending
<1> QED BY <1>4, <1>5, <1>6, <1>7 DEF ServerInv

\* A client that gets its answer, or the end of its stream, waits no more.
LEMMA AnsweredStep ==
  ASSUME ServerInv, NEW c \in Clients, client' = [client EXCEPT ![c] = "ready"],
         \/ UNCHANGED inbox
         \/ inbox[c] # << >> /\ inbox' = [inbox EXCEPT ![c] = Tail(@)],
         UNCHANGED <<backlog, conn, ended, ownVars, sessionVars>>
  PROVE  ServerInv'
<1>0. ServerTypes
  BY DEF ServerInv
<1>1. UNCHANGED <<owner, acceptor, accepted, sessions, joining, registered, thread, socket,
                  reply, backlog, conn, ended>>
  BY DEF sessionVars, ownVars
<1>2. /\ inbox' \in [Clients -> Seq({"Ack", "Error"})]
      /\ \A e \in Clients : e # c => inbox'[e] = inbox[e]
  <2>1. CASE UNCHANGED inbox
    BY <1>0, <2>1 DEF ServerTypes
  <2>2. CASE inbox[c] # << >> /\ inbox' = [inbox EXCEPT ![c] = Tail(@)]
    <3>1. inbox[c] \in Seq({"Ack", "Error"})
      BY <1>0 DEF ServerTypes
    <3>2. Tail(inbox[c]) \in Seq({"Ack", "Error"})
      BY <2>2, <3>1
    <3> QED BY <1>0, <2>2, <3>2 DEF ServerTypes
  <2> QED BY <2>1, <2>2
<1>3. ServerTypes'
  BY <1>0, <1>1, <1>2 DEF ServerTypes
<1>4. SocketsHeld'
  BY <1>1, PlacesKept
<1>5. ThreadsKnown'
  BY <1>1 DEF ServerInv, ThreadsKnown
<1>6. CallsPending'
  <2> SUFFICES ASSUME NEW e \in FabricClients, client'[e] \in {"connecting", "calling"}
               PROVE  ended'[e] \/ inbox'[e] # << >> \/ Waiting(e)' \/ HandlesOf(e)' # {}
    BY DEF CallsPending
  <2>1. e \in Clients /\ e # c /\ client'[e] = client[e]
    BY <1>0, ServerAssumption DEF ServerTypes
  <2>2. HandlesOf(e)' = HandlesOf(e) /\ (Waiting(e)' <=> Waiting(e))
    BY <1>1 DEF HandlesOf, Waiting
  <2> QED BY <1>1, <1>2, <2>1, <2>2 DEF ServerInv, CallsPending
<1> QED BY <1>3, <1>4, <1>5, <1>6 DEF ServerInv

\* Whatever a client does keeps the invariant.
LEMMA ClientKeeps ==
  ASSUME ServerInv, NEW c \in Clients, ClientStep(c)
  PROVE  ServerInv'
<1>1. CASE Connect(c)
  BY <1>1, ConnectStep
<1>2. CASE Return(c)
  BY <1>2, GoneStep, AnsweredStep DEF Return
<1>3. CASE ReturnClosed(c)
  BY <1>3, GoneStep, AnsweredStep DEF ReturnClosed
<1>4. CASE Leave(c)
  BY <1>4, GoneStep DEF Leave
<1>5. ASSUME NEW kind \in IF c \in FabricClients THEN CallKinds ELSE RawKinds,
             SendRequest(c, kind)
      PROVE  ServerInv'
  <2>1. kind \in Messages
    BY ServerAssumption DEF Messages, OpenKinds
  <2> QED BY <1>5, <2>1, SendRequestStep
<1> QED BY <1>1, <1>2, <1>3, <1>4, <1>5 DEF ClientStep

-----------------------------------------------------------------------------
(* The life of a handle: accepted, handed to a session, closed. *)

\* An accepted connection gets a handle nobody holds, and its client is not lost.
LEMMA AcceptStepKeeps ==
  ASSUME ServerInv, Accept
  PROVE  ServerInv'
<1>0. ServerTypes /\ NoSession \notin Clients
  BY ServerAssumption DEF ServerInv
<1> DEFINE first == Head(backlog)
<1>1. PICK h \in Handles : ~IsOpen(h) /\ conn' = [conn EXCEPT ![h] = first] /\ accepted' = h
  BY DEF Accept
<1>2. /\ acceptor = "wait" /\ acceptor' = "admit" /\ backlog # << >> /\ backlog' = Tail(backlog)
      /\ UNCHANGED <<owner, sessions, joining, registered, thread, socket, reply, client,
                     inbox, ended>>
  BY DEF Accept, sessionVars, clientVars
<1>3. /\ first = backlog[1] /\ first \in Arrivals /\ backlog' \in Seq(Arrivals)
      /\ \A i \in DOMAIN backlog : i = 1 \/ (i - 1 \in DOMAIN backlog' /\ backlog'[i - 1] = backlog[i])
  BY <1>0, <1>2 DEF ServerTypes
<1>4. first \in Connections /\ first.client \in Clients
  BY <1>3 DEF Arrivals, Connections
<1> HIDE DEF first
<1>5. /\ conn' \in [Handles -> Connections] /\ conn'[h] = first
      /\ \A g \in Handles : g # h => conn'[g] = conn[g]
  BY <1>0, <1>1, <1>4 DEF ServerTypes
<1>6. ServerTypes'
  BY <1>0, <1>2, <1>3, <1>5 DEF ServerTypes
<1>7. /\ \A g \in Handles : IsOpen(g)' <=> IsOpen(g) \/ g = h
      /\ \A s \in Sessions : (Serving(s)' <=> Serving(s)) /\ (Listed(s)' <=> Listed(s))
  BY <1>0, <1>2, <1>4, <1>5 DEF IsOpen, Serving, Listed
<1>8. SocketsHeld'
  <2>1. (\A s \in Sessions : Serving(s) => socket[s] \in Handles /\ IsOpen(socket[s]))'
    BY <1>2, <1>7 DEF ServerInv, SocketsHeld
  <2>2. (\A s, u \in Sessions : Serving(s) /\ Serving(u) /\ socket[s] = socket[u] => s = u)'
    BY <1>2, <1>7 DEF ServerInv, SocketsHeld
  <2>3. (acceptor = "admit" => /\ accepted \in Handles /\ IsOpen(accepted)
                               /\ \A s \in Sessions : Serving(s) => socket[s] # accepted)'
    BY <1>1, <1>2, <1>7 DEF ServerInv, SocketsHeld
  <2>4. (\A g \in registered : \E s \in Sessions : Listed(s) /\ socket[s] = g)'
    BY <1>2, <1>7 DEF ServerInv, SocketsHeld
  <2>5. (\A g \in Handles : IsOpen(g) =>
           \/ acceptor = "admit" /\ g = accepted
           \/ \E s \in Sessions : Serving(s) /\ socket[s] = g)'
    BY <1>1, <1>2, <1>7 DEF ServerInv, SocketsHeld
  <2> QED BY <2>1, <2>2, <2>3, <2>4, <2>5 DEF SocketsHeld
<1>9. ThreadsKnown'
  BY <1>2 DEF ServerInv, ThreadsKnown
<1>10. CallsPending'
  <2> SUFFICES ASSUME NEW e \in FabricClients, client[e] \in {"connecting", "calling"}
               PROVE  ended[e] \/ inbox[e] # << >> \/ Waiting(e)' \/ HandlesOf(e)' # {}
    BY <1>2 DEF CallsPending
  <2>1. HandlesOf(e) \subseteq HandlesOf(e)'
    BY <1>0, <1>1, <1>5, ServerAssumption DEF HandlesOf, IsOpen
  <2>2. ASSUME Waiting(e) PROVE Waiting(e)' \/ HandlesOf(e)' # {}
    <3>1. PICK i \in DOMAIN backlog : backlog[i].client = e /\ ~backlog[i].gone
      BY <2>2 DEF Waiting
    <3>2. CASE i = 1
      BY <1>3, <1>5, <3>1, <3>2 DEF HandlesOf
    <3>3. CASE i # 1
      BY <1>3, <3>1, <3>3 DEF Waiting
    <3> QED BY <3>2, <3>3
  <2> QED BY <2>1, <2>2 DEF ServerInv, CallsPending
<1> QED BY <1>6, <1>8, <1>9, <1>10 DEF ServerInv

\* Closing a handle frees it, and tells its client.
LEMMA CloseSocketKeeps ==
  ASSUME ServerInv, NEW h \in Handles, CloseSocket(h), UNCHANGED <<backlog, client, inbox>>
  PROVE  /\ conn' \in [Handles -> Connections] /\ ended' \in [Clients -> BOOLEAN]
         /\ \A g \in Handles : IsOpen(g)' <=> IsOpen(g) /\ g # h
         /\ CallsPending'
<1>0. ServerTypes /\ NoSession \notin Clients
  BY ServerAssumption DEF ServerInv
<1>1. Free \in Connections /\ Free.client = NoSession
  BY DEF Free, Connections
<1>2. /\ conn' \in [Handles -> Connections] /\ conn'[h] = Free
      /\ \A g \in Handles : g # h => conn'[g] = conn[g]
  BY <1>0, <1>1 DEF ServerTypes, CloseSocket
<1>3. /\ ended' \in [Clients -> BOOLEAN]
      /\ \A c \in Clients : ended'[c] <=> ended[c] \/ (conn[h].client = c /\ ~conn[h].gone)
  <2>1. conn[h].gone \in BOOLEAN
    BY <1>0 DEF ServerTypes, Connections
  <2> QED BY <1>0, <2>1 DEF ServerTypes, CloseSocket
<1>4. CallsPending'
  <2> SUFFICES ASSUME NEW e \in FabricClients, client[e] \in {"connecting", "calling"}
               PROVE  ended'[e] \/ inbox[e] # << >> \/ Waiting(e)' \/ HandlesOf(e)' # {}
    BY DEF CallsPending
  <2>1. e \in Clients /\ (Waiting(e)' <=> Waiting(e))
    BY ServerAssumption DEF Waiting
  <2>2. ASSUME HandlesOf(e) # {} PROVE ended'[e] \/ HandlesOf(e)' # {}
    <3>1. PICK g \in Handles : conn[g].client = e /\ ~conn[g].gone
      BY <2>2 DEF HandlesOf
    <3>2. CASE g = h
      BY <1>3, <2>1, <3>1, <3>2
    <3>3. CASE g # h
      BY <1>2, <3>1, <3>3 DEF HandlesOf
    <3> QED BY <3>2, <3>3
  <2> QED BY <1>3, <2>1, <2>2 DEF ServerInv, CallsPending
<1>5. \A g \in Handles : IsOpen(g)' <=> IsOpen(g) /\ g # h
  BY <1>1, <1>2 DEF IsOpen
<1> QED BY <1>2, <1>3, <1>4, <1>5

\* The accept thread closes a connection it refuses; nobody else holds it.
LEMMA RefuseKeeps ==
  ASSUME ServerInv, Refuse
  PROVE  ServerInv'
<1>0. ServerTypes
  BY DEF ServerInv
<1>1. /\ acceptor = "admit" /\ acceptor' = "prune" /\ CloseSocket(accepted)
      /\ UNCHANGED <<owner, backlog, sessions, joining, registered, thread, socket, reply,
                     client, inbox>>
  BY DEF Refuse, sessionVars
<1>2. /\ accepted \in Handles
      /\ \A s \in Sessions : Serving(s) => socket[s] # accepted
  BY <1>1 DEF ServerInv, SocketsHeld
<1>3. /\ conn' \in [Handles -> Connections] /\ ended' \in [Clients -> BOOLEAN]
      /\ \A g \in Handles : IsOpen(g)' <=> IsOpen(g) /\ g # accepted
      /\ CallsPending'
  BY <1>1, <1>2, CloseSocketKeeps
<1>4. ServerTypes'
  BY <1>0, <1>1, <1>3 DEF ServerTypes
<1>5. \A s \in Sessions : (Serving(s)' <=> Serving(s)) /\ (Listed(s)' <=> Listed(s))
  BY <1>1 DEF Serving, Listed
<1>6. SocketsHeld'
  <2>1. (\A s \in Sessions : Serving(s) => socket[s] \in Handles /\ IsOpen(socket[s]))'
    BY <1>1, <1>2, <1>3, <1>5 DEF ServerInv, SocketsHeld
  <2>2. (\A s, u \in Sessions : Serving(s) /\ Serving(u) /\ socket[s] = socket[u] => s = u)'
    BY <1>1, <1>5 DEF ServerInv, SocketsHeld
  <2>3. (\A g \in registered : \E s \in Sessions : Listed(s) /\ socket[s] = g)'
    BY <1>1, <1>5 DEF ServerInv, SocketsHeld
  <2>4. (\A g \in Handles : IsOpen(g) =>
           \/ acceptor = "admit" /\ g = accepted
           \/ \E s \in Sessions : Serving(s) /\ socket[s] = g)'
    BY <1>1, <1>3, <1>5 DEF ServerInv, SocketsHeld
  <2> QED BY <1>1, <2>1, <2>2, <2>3, <2>4 DEF SocketsHeld
<1>7. ThreadsKnown'
  BY <1>1 DEF ServerInv, ThreadsKnown
<1> QED BY <1>3, <1>4, <1>6, <1>7 DEF ServerInv

\* A session thread takes the accepted handle over.
LEMMA SpawnKeeps ==
  ASSUME ServerInv, Spawn
  PROVE  ServerInv'
<1>0. ServerTypes
  BY DEF ServerInv
<1>1. PICK s \in Sessions :
        /\ thread[s] = "none" /\ thread' = [thread EXCEPT ![s] = "register"]
        /\ socket' = [socket EXCEPT ![s] = accepted] /\ sessions' = sessions \cup {s}
  BY DEF Spawn
<1>2. /\ acceptor = "admit" /\ acceptor' = "prune"
      /\ UNCHANGED <<owner, backlog, joining, registered, reply, conn, client, inbox, ended>>
  BY DEF Spawn, clientVars
<1>3. /\ thread'[s] = "register" /\ socket'[s] = accepted
      /\ \A u \in Sessions \ {s} : thread'[u] = thread[u] /\ socket'[u] = socket[u]
  BY <1>0, <1>1 DEF ServerTypes
<1>4. /\ Serving(s)' /\ ~Serving(s) /\ ~Listed(s)
      /\ \A u \in Sessions \ {s} : (Serving(u)' <=> Serving(u)) /\ (Listed(u)' <=> Listed(u))
      /\ \A g \in Handles : IsOpen(g)' <=> IsOpen(g)
  BY <1>1, <1>2, <1>3 DEF Serving, Listed, IsOpen
<1>5. /\ accepted \in Handles /\ IsOpen(accepted)
      /\ \A u \in Sessions : Serving(u) => socket[u] # accepted
  BY <1>2 DEF ServerInv, SocketsHeld
<1>6. ServerTypes'
  BY <1>0, <1>1, <1>2, <1>3 DEF ServerTypes
<1>7. SocketsHeld'
  <2>1. (\A u \in Sessions : Serving(u) => socket[u] \in Handles /\ IsOpen(socket[u]))'
    BY <1>3, <1>4, <1>5 DEF ServerInv, SocketsHeld
  <2>2. (\A v, u \in Sessions : Serving(v) /\ Serving(u) /\ socket[v] = socket[u] => v = u)'
    BY <1>3, <1>4, <1>5 DEF ServerInv, SocketsHeld
  <2>3. (\A g \in registered : \E u \in Sessions : Listed(u) /\ socket[u] = g)'
    <3> SUFFICES ASSUME NEW g \in registered
                 PROVE  \E u \in Sessions : Listed(u)' /\ socket'[u] = g
      BY <1>2
    <3>1. PICK u \in Sessions : Listed(u) /\ socket[u] = g
      BY DEF ServerInv, SocketsHeld
    <3> QED BY <1>3, <1>4, <3>1
  <2>4. (\A g \in Handles : IsOpen(g) =>
           \/ acceptor = "admit" /\ g = accepted
           \/ \E u \in Sessions : Serving(u) /\ socket[u] = g)'
    <3> SUFFICES ASSUME NEW g \in Handles, IsOpen(g)
                 PROVE  \E u \in Sessions : Serving(u)' /\ socket'[u] = g
      BY <1>4
    <3>1. CASE g = accepted
      BY <1>3, <1>4, <3>1
    <3>2. CASE g # accepted
      <4>1. PICK u \in Sessions : Serving(u) /\ socket[u] = g
        BY <3>2 DEF ServerInv, SocketsHeld
      <4> QED BY <1>3, <1>4, <4>1
    <3> QED BY <3>1, <3>2
  <2> QED BY <1>2, <2>1, <2>2, <2>3, <2>4 DEF SocketsHeld
<1>8. ThreadsKnown'
  BY <1>1, <1>2, <1>3 DEF ServerInv, ThreadsKnown
<1>9. CallsPending'
  BY <1>2, CallsKept DEF SameClients
<1> QED BY <1>6, <1>7, <1>8, <1>9 DEF ServerInv

\* A session thread closes its own handle, which it has unregistered.
LEMMA CloseKeeps ==
  ASSUME ServerInv, NEW s \in Sessions, Close(s)
  PROVE  ServerInv'
<1> DEFINE h == socket[s]
<1>0. ServerTypes
  BY DEF ServerInv
<1>1. /\ thread[s] = "close" /\ thread' = [thread EXCEPT ![s] = "ended"] /\ CloseSocket(h)
      /\ socket' = [socket EXCEPT ![s] = NoHandle]
      /\ UNCHANGED <<owner, acceptor, accepted, backlog, sessions, joining, registered, reply,
                     client, inbox>>
  BY DEF Close, Goto, serverVars, ownVars
<1>2. /\ thread'[s] = "ended"
      /\ \A u \in Sessions \ {s} : thread'[u] = thread[u] /\ socket'[u] = socket[u]
  BY <1>0, <1>1 DEF ServerTypes
<1>3. /\ Serving(s) /\ ~Listed(s) /\ ~Serving(s)'
      /\ \A u \in Sessions \ {s} : (Serving(u)' <=> Serving(u)) /\ (Listed(u)' <=> Listed(u))
  BY <1>1, <1>2 DEF Serving, Listed
<1>4. /\ h \in Handles
      /\ \A u \in Sessions \ {s} : Serving(u) => socket[u] # h
      /\ acceptor = "admit" => accepted # h
  BY <1>3 DEF ServerInv, SocketsHeld
<1> HIDE DEF h
<1>5. /\ conn' \in [Handles -> Connections] /\ ended' \in [Clients -> BOOLEAN]
      /\ \A g \in Handles : IsOpen(g)' <=> IsOpen(g) /\ g # h
      /\ CallsPending'
  BY <1>1, <1>4, CloseSocketKeeps
<1>6. ServerTypes'
  BY <1>0, <1>1, <1>5 DEF ServerTypes
<1>7. SocketsHeld'
  <2>1. (\A u \in Sessions : Serving(u) => socket[u] \in Handles /\ IsOpen(socket[u]))'
    BY <1>2, <1>3, <1>4, <1>5 DEF ServerInv, SocketsHeld
  <2>2. (\A v, u \in Sessions : Serving(v) /\ Serving(u) /\ socket[v] = socket[u] => v = u)'
    BY <1>2, <1>3 DEF ServerInv, SocketsHeld
  <2>3. (acceptor = "admit" => /\ accepted \in Handles /\ IsOpen(accepted)
                               /\ \A u \in Sessions : Serving(u) => socket[u] # accepted)'
    BY <1>1, <1>2, <1>3, <1>4, <1>5 DEF ServerInv, SocketsHeld
  <2>4. (\A g \in registered : \E u \in Sessions : Listed(u) /\ socket[u] = g)'
    BY <1>1, <1>2, <1>3 DEF ServerInv, SocketsHeld
  <2>5. (\A g \in Handles : IsOpen(g) =>
           \/ acceptor = "admit" /\ g = accepted
           \/ \E u \in Sessions : Serving(u) /\ socket[u] = g)'
    <3> SUFFICES ASSUME NEW g \in Handles, IsOpen(g), g # h,
                        ~(acceptor = "admit" /\ g = accepted)
                 PROVE  \E u \in Sessions : Serving(u)' /\ socket'[u] = g
      BY <1>1, <1>5
    <3>1. PICK u \in Sessions : Serving(u) /\ socket[u] = g
      BY DEF ServerInv, SocketsHeld
    <3> QED BY <1>2, <1>3, <3>1 DEF h
  <2> QED BY <2>1, <2>2, <2>3, <2>4, <2>5 DEF SocketsHeld
<1>8. ThreadsKnown'
  BY <1>1, <1>2 DEF ServerInv, ThreadsKnown
<1> QED BY <1>5, <1>6, <1>7, <1>8 DEF ServerInv

\* Only threads that have ended are joined, by the accept thread or by join().
LEMMA PruneKeeps ==
  ASSUME ServerInv, Prune
  PROVE  ServerInv'
<1> DEFINE finished == {s \in sessions : thread[s] = "ended"}
<1>0. ServerTypes
  BY DEF ServerInv
<1>1. /\ acceptor = "prune" /\ acceptor' \in {"ended", "wait"}
      /\ UNCHANGED <<owner, accepted, backlog, joining, registered, socket, reply, conn, client,
                     inbox, ended>>
  BY DEF Prune, clientVars
<1>2. \/ UNCHANGED <<sessions, thread>>
      \/ /\ sessions' = sessions \ finished
         /\ thread' = [s \in Sessions |-> IF s \in finished THEN "none" ELSE thread[s]]
  BY DEF Prune
<1>3. \A s \in Sessions : thread'[s] = thread[s] \/ (thread[s] = "ended" /\ thread'[s] = "none")
  BY <1>2
<1>4. ServerTypes'
  BY <1>0, <1>1, <1>2 DEF ServerTypes
<1>5. SocketsHeld'
  BY <1>1, <1>3, PlacesKept
<1>6. ThreadsKnown'
  <2>1. joining = {} /\ owner # "down"
    BY <1>1 DEF ServerInv, ThreadsKnown
  <2>2. \A s \in Sessions : thread'[s] # "none" <=> s \in sessions'
    BY <1>2, <2>1 DEF ServerInv, ThreadsKnown
  <2>3. acceptor' = "none" <=> acceptor = "none"
    BY <1>1
  <2>4. owner \in {"down", "sessions"} => sessions' = {}
    BY <1>2 DEF ServerInv, ThreadsKnown
  <2> QED BY <1>1, <2>1, <2>2, <2>3, <2>4 DEF ServerInv, ThreadsKnown
<1>7. CallsPending'
  BY <1>1, CallsKept DEF SameClients
<1> QED BY <1>4, <1>5, <1>6, <1>7 DEF ServerInv

\* join() ends with no thread, and with the backlog reset.
LEMMA JoinSessionsKeeps ==
  ASSUME ServerInv, JoinSessions
  PROVE  ServerInv'
<1>0. ServerTypes
  BY DEF ServerInv
<1>1. /\ owner = "sessions" /\ owner' = "down" /\ joining' = {} /\ backlog' = << >>
      /\ \A s \in joining : thread[s] = "ended"
      /\ thread' = [s \in Sessions |-> IF s \in joining THEN "none" ELSE thread[s]]
      /\ ended' = [c \in Clients |-> ended[c] \/ Waiting(c)]
      /\ UNCHANGED <<acceptor, accepted, sessions, registered, socket, reply, conn, client, inbox>>
  BY DEF JoinSessions
<1>2. \A s \in Sessions : thread'[s] = thread[s] \/ (thread[s] = "ended" /\ thread'[s] = "none")
  BY <1>1
<1>3. /\ ended' \in [Clients -> BOOLEAN]
      /\ \A c \in Clients : ended'[c] <=> ended[c] \/ Waiting(c)
  <2>1. \A c \in Clients : Waiting(c) \in BOOLEAN
    BY DEF Waiting
  <2> HIDE DEF Waiting
  <2> QED BY <1>0, <1>1, <2>1 DEF ServerTypes
<1>4. ServerTypes'
  BY <1>0, <1>1, <1>3 DEF ServerTypes
<1>5. SocketsHeld'
  BY <1>1, <1>2, PlacesKept
<1>6. ThreadsKnown'
  BY <1>1 DEF ServerInv, ThreadsKnown
<1>7. CallsPending'
  <2>1. \A c \in Clients : HandlesOf(c)' = HandlesOf(c)
    BY <1>1 DEF HandlesOf
  <2> QED BY <1>1, <1>3, <2>1, ServerAssumption DEF ServerInv, CallsPending
<1> QED BY <1>4, <1>5, <1>6, <1>7 DEF ServerInv

\* Every step of the server and of its clients keeps the invariant.
LEMMA ServerStep == ServerInv /\ [Next]_vars => ServerInv'
<1> SUFFICES ASSUME ServerInv, [Next]_vars PROVE ServerInv'
  OBVIOUS
<1>1. CASE AcceptStep
  BY <1>1, PruneKeeps, AcceptStepKeeps, OwnerStep, RefuseKeeps, SpawnKeeps DEF AcceptStep
<1>2. ASSUME NEW s \in Sessions, SessionStep(s) PROVE ServerInv'
  BY <1>2, SessionServes, CloseKeeps DEF SessionStep
<1>3. CASE Start \/ Stop \/ Join \/ JoinStep
  BY <1>3, OwnerStep, JoinSessionsKeeps DEF JoinStep
<1>4. ASSUME NEW c \in Clients, ClientStep(c) PROVE ServerInv'
  BY <1>4, ClientKeeps
<1>5. CASE UNCHANGED vars
  <2>1. UNCHANGED <<owner, acceptor, accepted, backlog, sessions, joining, registered, thread,
                    socket, reply, conn, client, inbox, ended>>
    BY <1>5 DEF vars, serverVars, ownVars, sessionVars, clientVars
  <2>2. ServerTypes'
    BY <2>1 DEF ServerInv, ServerTypes
  <2>3. SocketsHeld'
    BY <2>1, PlacesKept
  <2>4. ThreadsKnown'
    BY <2>1 DEF ServerInv, ThreadsKnown
  <2>5. CallsPending'
    BY <2>1, CallsKept DEF SameClients
  <2> QED BY <2>2, <2>3, <2>4, <2>5 DEF ServerInv
<1> QED BY <1>1, <1>2, <1>3, <1>4, <1>5 DEF Next

-----------------------------------------------------------------------------
(* The theorems. *)

\* The invariant holds in every reachable state.
LEMMA ServerInvariant == Spec => []ServerInv
<1> QED BY ServerInit, ServerStep, PTL DEF Spec

\* A registered socket is served by exactly one session.
LEMMA RegisteredByOne == ServerInv => RegisteredSocketsAreOwn
<1> SUFFICES ASSUME ServerInv, NEW h \in registered
             PROVE  IsOpen(h) /\ Cardinality({s \in Sessions : Serving(s) /\ socket[s] = h}) = 1
  BY DEF RegisteredSocketsAreOwn
<1>1. PICK s \in Sessions : Listed(s) /\ socket[s] = h
  BY DEF ServerInv, SocketsHeld
<1>2. Serving(s)
  BY <1>1 DEF Listed, Serving
<1>3. IsOpen(h)
  BY <1>1, <1>2 DEF ServerInv, SocketsHeld
<1>4. {u \in Sessions : Serving(u) /\ socket[u] = h} = {s}
  BY <1>1, <1>2 DEF ServerInv, SocketsHeld
<1> QED BY <1>3, <1>4, FS_Singleton

\* When the owner is down the threads are joined and nobody waits.
LEMMA DownIsQuiet == ServerInv => JoinedIsQuiet
<1> SUFFICES ASSUME ServerInv, owner = "down"
             PROVE  /\ acceptor = "none" /\ sessions = {} /\ registered = {}
                    /\ \A s \in Sessions : thread[s] = "none"
                    /\ \A h \in Handles : ~IsOpen(h)
                    /\ \A c \in FabricClients : client[c] \in {"connecting", "calling"} =>
                                                  ended[c] \/ inbox[c] # << >>
  BY DEF JoinedIsQuiet
<1>1. /\ acceptor = "none" /\ sessions = {} /\ joining = {} /\ backlog = << >>
      /\ \A s \in Sessions : thread[s] = "none"
  BY DEF ServerInv, ThreadsKnown
<1>2. \A s \in Sessions : ~Serving(s) /\ ~Listed(s)
  BY <1>1 DEF Serving, Listed
<1>3. registered = {} /\ \A h \in Handles : ~IsOpen(h)
  BY <1>1, <1>2 DEF ServerInv, SocketsHeld
<1>4. ASSUME NEW c \in FabricClients PROVE ~Waiting(c) /\ HandlesOf(c) = {}
  <2>1. ~Waiting(c)
    BY <1>1 DEF Waiting
  <2>2. HandlesOf(c) = {}
    BY <1>3, ServerAssumption DEF HandlesOf, IsOpen
  <2> QED BY <2>1, <2>2
<1>5. \A c \in FabricClients : client[c] \in {"connecting", "calling"} =>
                                 ended[c] \/ inbox[c] # << >>
  BY <1>4 DEF ServerInv, CallsPending
<1> QED BY <1>1, <1>3, <1>5

\* Handles are reused as soon as they are closed, and still every registered
\* socket is the open socket of the one session that registered it: session
\* threads unregister before they close, so shutdown_sessions shuts down no
\* connection it does not mean.
THEOREM SocketsAreOwn == Spec => []RegisteredSocketsAreOwn
<1> QED BY ServerInvariant, RegisteredByOne, PTL

\* When join() has returned there is no thread, no open handle and no
\* registration left, and no client of the server waits for an answer that
\* cannot come.
THEOREM JoinLeavesNothing == Spec => []JoinedIsQuiet
<1> QED BY ServerInvariant, DownIsQuiet, PTL

=============================================================================
