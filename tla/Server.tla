------------------------------- MODULE Server -------------------------------
(***************************************************************************)
(* CoordinatorServer and the clients of its loopback protocol: one accept  *)
(* thread, one thread per session, and the thread that owns the server and *)
(* starts, stops and joins it.  FabricClient sends one request at a time   *)
(* and blocks until it is answered; other peers send what they like, read  *)
(* when they like, and any peer may die at any moment.                     *)
(*                                                                         *)
(* Each critical section of session_mutex and each blocking call is one    *)
(* step of its thread.  Sockets are external (net.cpp): a connection has   *)
(* bounded buffers in both directions, a send into a full one blocks, and  *)
(* a closed handle may be given to the next connection.                    *)
(***************************************************************************)
EXTENDS Naturals, Sequences, FiniteSets

CONSTANTS
  Clients,        \* the processes that connect
  FabricClients,  \* those that use FabricClient
  Sessions,       \* the session threads
  Handles,        \* the socket handles of the server's side
  MaxSessions,    \* config.max_sessions
  CallKinds,      \* what a FabricClient asks for
  RawKinds,       \* what other peers send
  Buffer,         \* messages a connection buffers in one direction
  NoHandle, NoSession, NoRequest   \* absent values

GatedKinds == {"RegisterPublisher", "Mutation", "Query", "LargeQuery"}
\* The greeting of a process that is not identified, or that claims a newer
\* epoch, is answered but not accepted.
OpenKinds == {"Hello", "RejectedHello", "FencePublisher", "Heartbeat", "Shutdown"}
\* A malformed frame, and a message only a coordinator may send.
FatalKinds == {"Malformed", "Response"}

ASSUME ServerAssumption ==
  /\ FabricClients \subseteq Clients /\ NoSession \notin Clients
  /\ MaxSessions \in Nat \ {0} /\ Buffer \in Nat \ {0}
  /\ Cardinality(Sessions) >= MaxSessions /\ Cardinality(Handles) > MaxSessions
  /\ CallKinds \subseteq GatedKinds \cup {"FencePublisher"}
  /\ RawKinds \subseteq GatedKinds \cup OpenKinds \cup FatalKinds

VARIABLES
  owner,       \* where the owning thread is: start, stop, join
  stopping,    \* stop_requested, and the stop handle is signalled
  acceptor,    \* where the accept thread is
  accepted,    \* the socket it has accepted and not yet handed over
  backlog,     \* connections that wait to be accepted
  sessions,    \* impl.sessions: threads that have not been joined
  joining,     \* the sessions join() has detached
  registered,  \* impl.session_sockets
  thread,      \* where each session thread is in serve()
  socket,      \* the handle it serves
  hello,       \* hello_seen
  request,     \* the request it handles
  reply,       \* what it sends
  conn,        \* the connection behind each open handle
  client,      \* where each client is
  inbox,       \* replies on their way to the client
  ended        \* the client's connection was closed by the server

ownVars == <<owner, stopping, acceptor, accepted, sessions, joining, registered>>
serverVars == <<ownVars, backlog>>
sessionVars == <<thread, socket, hello, request, reply>>
clientVars == <<client, inbox, ended>>
vars == <<serverVars, sessionVars, conn, clientVars>>

\* The connection behind a handle; client is NoSession when the handle is free.
Free == [client |-> NoSession, shut |-> FALSE, gone |-> FALSE, arrived |-> << >>]
IsOpen(h) == conn[h].client # NoSession

Init ==
  /\ owner = "down" /\ stopping = FALSE /\ acceptor = "none" /\ accepted = NoHandle
  /\ backlog = << >> /\ sessions = {} /\ joining = {} /\ registered = {}
  /\ thread = [s \in Sessions |-> "none"]
  /\ socket = [s \in Sessions |-> NoHandle]
  /\ hello = [s \in Sessions |-> FALSE]
  /\ request = [s \in Sessions |-> NoRequest]
  /\ reply = [s \in Sessions |-> NoRequest]
  /\ conn = [h \in Handles |-> Free]
  /\ client = [c \in Clients |-> "closed"]
  /\ inbox = [c \in Clients |-> << >>]
  /\ ended = [c \in Clients |-> FALSE]

-----------------------------------------------------------------------------
(* Sockets (external). *)

\* net_close on the server's side: the handle is free, the peer reads the end
\* of the stream after what was sent before.
CloseSocket(h) ==
  /\ conn' = [conn EXCEPT ![h] = Free]
  /\ ended' = [c \in Clients |->
                 ended[c] \/ (conn[h].client = c /\ ~conn[h].gone)]

\* The connection of a client is in the backlog.
Waiting(c) == \E i \in DOMAIN backlog : backlog[i].client = c /\ ~backlog[i].gone

-----------------------------------------------------------------------------
(* The accept thread. *)

\* Mutant of Prune: finished sessions are not joined.
PruneNothing ==
  /\ acceptor = "prune"
  /\ acceptor' = IF stopping THEN "ended" ELSE "wait"
  /\ UNCHANGED <<owner, stopping, accepted, backlog, sessions, joining, registered, sessionVars,
                 conn, clientVars>>

\* The loop condition, then prune_sessions.  A session whose done flag is set
\* has nothing left to do, so joining it does not wait.
Prune ==
  LET finished == {s \in sessions : thread[s] = "ended"} IN
  /\ acceptor = "prune"
  /\ IF stopping
     THEN acceptor' = "ended" /\ UNCHANGED <<sessions, thread>>
     ELSE /\ acceptor' = "wait"
          /\ sessions' = sessions \ finished
          /\ thread' = [s \in Sessions |-> IF s \in finished THEN "none" ELSE thread[s]]
  /\ UNCHANGED <<owner, stopping, accepted, backlog, joining, registered, socket, hello, request,
                 reply, conn, clientVars>>

\* net_accept wakes for a connection, although its client may be gone by now.
Accept ==
  /\ acceptor = "wait" /\ backlog # << >>
  /\ \E h \in Handles :
       /\ ~IsOpen(h)
       /\ conn' = [conn EXCEPT ![h] = Head(backlog)]
       /\ accepted' = h
  /\ backlog' = Tail(backlog)
  /\ acceptor' = "admit"
  /\ UNCHANGED <<owner, stopping, sessions, joining, registered, sessionVars, clientVars>>

\* ... or for the stop handle.
AcceptStopped ==
  /\ acceptor = "wait" /\ stopping
  /\ acceptor' = "ended"
  /\ UNCHANGED <<owner, stopping, accepted, backlog, sessions, joining, registered, sessionVars,
                 conn, clientVars>>

\* The bound counts every session that has not been joined, finished or not.
Refuse ==
  /\ acceptor = "admit" /\ Cardinality(sessions) >= MaxSessions
  /\ CloseSocket(accepted)
  /\ accepted' = NoHandle
  /\ acceptor' = "prune"
  /\ UNCHANGED <<owner, stopping, backlog, sessions, joining, registered, sessionVars, client, inbox>>

Spawn ==
  /\ acceptor = "admit" /\ Cardinality(sessions) < MaxSessions
  /\ \E s \in Sessions :
       /\ thread[s] = "none"
       /\ thread' = [thread EXCEPT ![s] = "register"]
       /\ socket' = [socket EXCEPT ![s] = accepted]
       /\ sessions' = sessions \cup {s}
  /\ accepted' = NoHandle
  /\ acceptor' = "prune"
  /\ UNCHANGED <<owner, stopping, backlog, joining, registered, hello, request, reply, conn,
                 clientVars>>

AcceptStep == Prune \/ Accept \/ AcceptStopped \/ Refuse \/ Spawn

-----------------------------------------------------------------------------
(* A session thread: serve(). *)

Goto(s, label) == thread' = [thread EXCEPT ![s] = label]

\* register_session.
Register(s) ==
  /\ thread[s] = "register"
  /\ registered' = registered \cup {socket[s]}
  /\ Goto(s, "loop")
  /\ UNCHANGED <<owner, stopping, acceptor, accepted, backlog, sessions, joining, socket, hello,
                 request, reply, conn, clientVars>>

Loop(s) ==
  /\ thread[s] = "loop"
  /\ Goto(s, IF stopping THEN "unregister" ELSE "receive")
  /\ UNCHANGED <<serverVars, socket, hello, request, reply, conn, clientVars>>

\* read_exact returns a frame: net_wait_readable looked at the stop handle
\* before the data was there, or nobody is stopping.
Receive(s) ==
  LET h == socket[s] IN
  /\ thread[s] = "receive"
  /\ ~conn[h].shut /\ conn[h].arrived # << >>
  /\ request' = [request EXCEPT ![s] = Head(conn[h].arrived)]
  /\ conn' = [conn EXCEPT ![h].arrived = Tail(@)]
  /\ Goto(s, "handle")
  /\ UNCHANGED <<serverVars, socket, hello, reply, clientVars>>

\* read_exact fails: the stop handle is signalled, the socket was shut down,
\* or the peer is gone and everything it sent was read.
ReceiveFails(s) ==
  LET h == socket[s] IN
  /\ thread[s] = "receive"
  /\ stopping \/ conn[h].shut \/ (conn[h].gone /\ conn[h].arrived = << >>)
  /\ Goto(s, "unregister")
  /\ UNCHANGED <<serverVars, socket, hello, request, reply, conn, clientVars>>

\* Mutant of ReplyTo: a response that exceeds the frame bound is not replaced.
ReplyWithinFrame(kind, greeted) ==
  IF kind = "LargeQuery" /\ greeted THEN "None"
  ELSE IF kind \in FatalKinds \cup {"Shutdown"} \/ (kind \in GatedKinds /\ ~greeted) THEN "Error"
  ELSE "Ack"

\* What serve() answers: requests of a session that was not greeted, a remote
\* shutdown, malformed frames and response messages are errors.  A query
\* response that exceeds the frame is answered without its content.
ReplyTo(kind, greeted) ==
  IF kind \in FatalKinds \cup {"Shutdown"} \/ (kind \in GatedKinds /\ ~greeted) THEN "Error"
  ELSE "Ack"

\* The request is dispatched to the service, which always returns.
Handle(s) ==
  /\ thread[s] = "handle"
  /\ reply' = [reply EXCEPT ![s] = ReplyTo(request[s], hello[s])]
  /\ hello' = [hello EXCEPT ![s] = IF request[s] \in {"Hello", "RejectedHello"}
                                   THEN request[s] = "Hello" ELSE @]
  /\ Goto(s, "send")
  /\ UNCHANGED <<serverVars, socket, request, conn, clientVars>>

\* A session goes on after a reply, unless the stream is not to be trusted.
AfterReply(s) ==
  /\ Goto(s, IF request[s] \in FatalKinds THEN "unregister" ELSE "loop")
  /\ request' = [request EXCEPT ![s] = NoRequest]
  /\ reply' = [reply EXCEPT ![s] = NoRequest]

\* net_send_all blocks while the buffer is full.
Send(s) ==
  LET h == socket[s]
      c == conn[h].client
  IN  /\ thread[s] = "send" /\ reply[s] # "None"
      /\ ~conn[h].shut /\ ~conn[h].gone
      /\ Len(inbox[c]) < Buffer
      /\ inbox' = [inbox EXCEPT ![c] = Append(@, reply[s])]
      /\ AfterReply(s)
      /\ UNCHANGED <<serverVars, socket, hello, conn, client, ended>>

\* The send fails, or there is nothing to send; neither is looked at.
SendFails(s) ==
  LET h == socket[s] IN
  /\ thread[s] = "send"
  /\ conn[h].shut \/ conn[h].gone \/ reply[s] = "None"
  /\ AfterReply(s)
  /\ UNCHANGED <<serverVars, socket, hello, conn, clientVars>>

\* Mutant of Unregister: the socket is closed first.
CloseThenUnregister(s) ==
  /\ thread[s] = "unregister"
  /\ CloseSocket(socket[s])
  /\ Goto(s, "close")
  /\ UNCHANGED <<serverVars, socket, hello, request, reply, client, inbox>>

Unregister(s) ==
  /\ thread[s] = "unregister"
  /\ registered' = registered \ {socket[s]}
  /\ Goto(s, "close")
  /\ UNCHANGED <<owner, stopping, acceptor, accepted, backlog, sessions, joining, socket, hello,
                 request, reply, conn, clientVars>>

\* The socket is closed and the done flag set.
Close(s) ==
  /\ thread[s] = "close"
  /\ CloseSocket(socket[s])
  /\ Goto(s, "ended")
  /\ socket' = [socket EXCEPT ![s] = NoHandle]
  /\ hello' = [hello EXCEPT ![s] = FALSE]
  /\ UNCHANGED <<serverVars, request, reply, client, inbox>>

SessionStep(s) ==
  \/ Register(s) \/ Loop(s) \/ Receive(s) \/ ReceiveFails(s) \/ Handle(s)
  \/ Send(s) \/ SendFails(s) \/ Unregister(s) \/ Close(s)

-----------------------------------------------------------------------------
(* The owning thread. *)

Start ==
  /\ owner = "down"
  /\ owner' = "up" /\ stopping' = FALSE /\ acceptor' = "prune"
  /\ UNCHANGED <<accepted, backlog, sessions, joining, registered, sessionVars, conn, clientVars>>

\* stop() and join() both set the flag and signal the stop handle first.
Signal(before, after) ==
  /\ owner \in before
  /\ owner' = after /\ stopping' = TRUE
  /\ UNCHANGED <<acceptor, accepted, backlog, sessions, joining, registered, sessionVars, conn,
                 clientVars>>

Stop == Signal({"up"}, "stop")
Join == Signal({"up", "stopped"}, "join")

AfterShutdown == IF owner = "stop" THEN "stopped" ELSE "accept"

\* Mutant of ShutdownSessions: only the stop handle wakes the sessions.
ShutdownNothing ==
  /\ owner \in {"stop", "join"}
  /\ owner' = AfterShutdown
  /\ UNCHANGED <<stopping, acceptor, accepted, backlog, sessions, joining, registered, sessionVars,
                 conn, clientVars>>

\* shutdown_sessions: stop() returns then, join() goes on to the accept thread.
ShutdownSessions ==
  /\ owner \in {"stop", "join"}
  /\ owner' = AfterShutdown
  /\ conn' = [h \in Handles |-> IF h \in registered THEN [conn[h] EXCEPT !.shut = TRUE]
                                ELSE conn[h]]
  /\ UNCHANGED <<stopping, acceptor, accepted, backlog, sessions, joining, registered, sessionVars,
                 clientVars>>

\* Mutant of JoinAcceptor: the sessions are detached before the accept thread ended.
DetachFirst ==
  /\ owner = "accept"
  /\ owner' = "sessions"
  /\ joining' = sessions /\ sessions' = {}
  /\ UNCHANGED <<stopping, acceptor, accepted, backlog, registered, sessionVars, conn, clientVars>>

\* The accept thread is joined; from now on nobody adds a session.
JoinAcceptor ==
  /\ owner = "accept" /\ acceptor = "ended"
  /\ owner' = "detach" /\ acceptor' = "none"
  /\ UNCHANGED <<stopping, accepted, backlog, sessions, joining, registered, sessionVars, conn,
                 clientVars>>

Detach ==
  /\ owner = "detach"
  /\ owner' = "sessions"
  /\ joining' = sessions /\ sessions' = {}
  /\ UNCHANGED <<stopping, acceptor, accepted, backlog, registered, sessionVars, conn, clientVars>>

\* Every detached session is joined; closing the listener resets the
\* connections nobody accepted.
JoinSessions ==
  /\ owner = "sessions" /\ \A s \in joining : thread[s] = "ended"
  /\ owner' = "down"
  /\ joining' = {}
  /\ thread' = [s \in Sessions |-> IF s \in joining THEN "none" ELSE thread[s]]
  /\ ended' = [c \in Clients |-> ended[c] \/ Waiting(c)]
  /\ backlog' = << >>
  /\ UNCHANGED <<stopping, acceptor, accepted, sessions, registered, socket, hello, request, reply,
                 conn, client, inbox>>

JoinStep == ShutdownSessions \/ JoinAcceptor \/ Detach \/ JoinSessions

-----------------------------------------------------------------------------
(* Clients. *)

\* The handle of a client's connection, if the server has it open.
HandlesOf(c) == {h \in Handles : conn[h].client = c /\ ~conn[h].gone}

\* FabricClient::connect sends its greeting and waits for the answer.  The
\* backlog is bounded: it holds one connection of each client.
Connect(c) ==
  /\ client[c] = "closed" /\ owner # "down"
  /\ \A i \in DOMAIN backlog : backlog[i].client # c
  /\ client' = [client EXCEPT ![c] = IF c \in FabricClients THEN "connecting" ELSE "ready"]
  /\ backlog' = Append(backlog, [client |-> c, shut |-> FALSE, gone |-> FALSE,
                       arrived |-> IF c \in FabricClients THEN <<"Hello">> ELSE << >>])
  /\ UNCHANGED <<owner, stopping, acceptor, accepted, sessions, joining, registered, sessionVars,
                 conn, inbox, ended>>

\* A request is sent; FabricClient holds its mutex until it is answered.
SendRequest(c, kind) ==
  /\ client[c] = "ready"
  /\ \E h \in HandlesOf(c) :
       /\ ~conn[h].shut /\ Len(conn[h].arrived) < Buffer
       /\ conn' = [conn EXCEPT ![h].arrived = Append(@, kind)]
  /\ client' = [client EXCEPT ![c] = IF c \in FabricClients THEN "calling" ELSE "ready"]
  /\ UNCHANGED <<serverVars, sessionVars, inbox, ended>>

\* The connection is given up: by close(), by a connect() that failed, or by
\* the death of the process.
Gone(c) ==
  /\ conn' = [h \in Handles |-> IF h \in HandlesOf(c) THEN [conn[h] EXCEPT !.gone = TRUE]
                                ELSE conn[h]]
  /\ backlog' = [i \in DOMAIN backlog |->
                   [backlog[i] EXCEPT !.gone = @ \/ backlog[i].client = c]]
  /\ client' = [client EXCEPT ![c] = "closed"]
  /\ inbox' = [inbox EXCEPT ![c] = << >>]
  /\ ended' = [ended EXCEPT ![c] = FALSE]

\* receive_frame returns a reply.
Return(c) ==
  /\ client[c] # "closed" /\ inbox[c] # << >>
  /\ IF client[c] = "connecting" /\ Head(inbox[c]) = "Error"
     THEN Gone(c)
     ELSE /\ client' = [client EXCEPT ![c] = "ready"]
          /\ inbox' = [inbox EXCEPT ![c] = Tail(@)]
          /\ UNCHANGED <<backlog, conn, ended>>
  /\ UNCHANGED <<ownVars, sessionVars>>

\* receive_frame reads the end of the stream: connect() closes the socket, a
\* request leaves it open and fails.
ReturnClosed(c) ==
  /\ client[c] # "closed" /\ inbox[c] = << >> /\ ended[c]
  /\ IF client[c] = "connecting" THEN Gone(c)
     ELSE /\ client[c] = "calling"
          /\ client' = [client EXCEPT ![c] = "ready"]
          /\ UNCHANGED <<backlog, conn, inbox, ended>>
  /\ UNCHANGED <<ownVars, sessionVars>>

Leave(c) ==
  /\ client[c] # "closed"
  /\ Gone(c)
  /\ UNCHANGED <<ownVars, sessionVars>>

ClientStep(c) ==
  \/ Connect(c) \/ Return(c) \/ ReturnClosed(c) \/ Leave(c)
  \/ \E kind \in IF c \in FabricClients THEN CallKinds ELSE RawKinds : SendRequest(c, kind)

Next ==
  \/ AcceptStep
  \/ \E s \in Sessions : SessionStep(s)
  \/ Start \/ Stop \/ Join \/ JoinStep
  \/ \E c \in Clients : ClientStep(c)

\* The threads of the server are scheduled, a FabricClient reads what it waits
\* for, and who stops the server joins it (the destructor does).  Nobody has to
\* start or stop it, and other peers do what they like.
Fairness ==
  /\ WF_vars(AcceptStep)
  /\ \A s \in Sessions : WF_vars(SessionStep(s))
  /\ WF_vars(JoinStep) /\ WF_vars(owner = "stopped" /\ Join)
  /\ \A c \in FabricClients : WF_vars(Return(c) \/ ReturnClosed(c))

Spec == Init /\ [][Next]_vars /\ Fairness

-----------------------------------------------------------------------------
(* Properties. *)

\* A session thread that is not yet through with its socket.
Serving(s) == thread[s] \notin {"none", "ended"}

\* Handles are reused as soon as they are closed: every registered socket is
\* the open socket of the session that registered it, so shutdown_sessions
\* never shuts down a connection it does not mean.
RegisteredSocketsAreOwn ==
  \A h \in registered :
    IsOpen(h) /\ Cardinality({s \in Sessions : Serving(s) /\ socket[s] = h}) = 1

\* When join() has returned nothing of the server is left: no thread, no open
\* socket, no registration, and nobody waits for an answer that cannot come.
JoinedIsQuiet ==
  owner = "down" =>
    /\ acceptor = "none" /\ sessions = {} /\ registered = {}
    /\ \A s \in Sessions : thread[s] = "none"
    /\ \A h \in Handles : ~IsOpen(h)
    /\ \A c \in FabricClients : client[c] \in {"connecting", "calling"} =>
                                  ended[c] \/ inbox[c] # << >>

\* join() returns, whatever the peers do: a session that is blocked in a
\* receive or in a send to a peer that reads nothing is woken, and one that was
\* accepted while the server stops finds out by itself.
JoinReturns == (owner = "join") ~> (owner = "down")

\* A FabricClient is never left waiting: its connect and every request it sends
\* are answered, or its connection ends (it has no timeout of its own).  This
\* holds as far as answers can be encoded, which the model takes for granted:
\* for one that cannot, dispatch sends nothing (server.cpp:215, 237, 265, 302)
\* and the client goes on waiting.
CallsReturn ==
  \A c \in FabricClients : (client[c] \in {"connecting", "calling"}) ~>
                             (client[c] \in {"ready", "closed"})

\* No other client holds a connection, and the server is up.
Alone(c) ==
  /\ owner = "up" /\ ~stopping
  /\ \A other \in Clients \ {c} : client[other] = "closed"

\* A session serves the client.
Served(c) == \E s \in Sessions : Serving(s) /\ conn[socket[s]].client = c

\* A server that was full may refuse a client although every session has
\* finished, because finished sessions count until they are joined.  A client
\* that keeps trying gets in once the others are gone.
RetryIsServed ==
  \A c \in FabricClients :
    (<>[]Alone(c) /\ []<>(client[c] = "connecting")) => []<>Served(c)

=============================================================================
