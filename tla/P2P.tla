-------------------------------- MODULE P2P --------------------------------
(***************************************************************************)
(* The sessions of the P2P network (net/p2p: class Session, ManagerBase,   *)
(* Server, ClientFactory; ManagerNormal and ManagerDiscovery handle the    *)
(* messages).                                                              *)
(*                                                                         *)
(* A node has the io threads of its server and of its client factory,      *)
(* which run the callbacks of the sessions, a pool of threads that handle  *)
(* messages, and callers that connect, send requests, broadcast and stop   *)
(* the manager.  A session is one end of a TCP connection and is known to  *)
(* the manager by the id of the other node; its read and its write are     *)
(* two asynchronous operations that may both fail, and closing it is a     *)
(* callback of its own.                                                    *)
(*                                                                         *)
(* Nothing is assumed of when a thread runs: a result of the socket that   *)
(* is waiting for its callback is "failed" or "got", a session that is     *)
(* waiting to be closed is "closing".                                      *)
(***************************************************************************)
EXTENDS Integers, Sequences, FiniteSets

CONSTANTS
  Nodes,        \* the nodes; a node stands for its NodeID
  Conns,        \* bound: the TCP connections that exist at the same time
  None,         \* no connection
  MaxMessages,  \* bound: the requests and broadcasts that a node sends
  Broadcasts,   \* the broadcasts that are sent: "refused" is one that the
                \* receiver throws on, "huge" one larger than maxMessageSize_
  Callers,      \* the nodes that connect to others and send to them
  Stoppable     \* the nodes that may be stopped

ASSUME NoneAssumption == None \notin Conns \cup Nodes
ASSUME MaxAssumption == MaxMessages \in Nat
ASSUME BroadcastsAssumption == Broadcasts \subseteq {"refused", "huge"}
ASSUME SubsetsAssumption == Callers \subseteq Nodes /\ Stoppable \subseteq Nodes

VARIABLES
  sessions,   \* ManagerBase::sessions_: the connection of a node id, or None
  requests,   \* ManagerBase::requests_ and the ids that are not used yet
  tasks,      \* the messages that threadPool_ has to handle, with their sender
  stopPc,     \* how far ManagerBase::stop is; started_ while it is "run"
  link,       \* the client and the server of a connection
  st,         \* the state of an end of a connection
  rd,         \* its asynchronous read
  wr,         \* its asynchronous write, "idle" when outboundMessage_ is null
  closing,    \* Session::do_close is waiting to run
  out,        \* outboundMessage_ and outboundMessages_
  wire        \* what the other end has written and this one has not read

managerVars == <<sessions, requests, tasks, stopPc>>
socketVars  == <<st, rd, wr, closing, out, wire>>
vars == <<managerVars, link, socketVars>>

NoLink == [client |-> None, server |-> None]

\* The node at the other end of c.
Peer(c, n) == IF link[c].client = n THEN link[c].server ELSE link[c].client

Linked(c, n) == link[c] # NoLink /\ n \in {link[c].client, link[c].server}

Started(n) == stopPc[n] = "run"

\* The io threads of n run; stop() joins them in its last step.
IoRuns(n) == stopPc[n] # "down"

\* ManagerBase::stop holds stateMutex_ from its first step to its last.
StateMutexFree(n) == stopPc[n] \in {"run", "down"}

\* The socket of n at c has no other end any more.
PeerGone(c, n) ==
  \/ st[c][Peer(c, n)] = "closed"
  \/ st[c][Peer(c, n)] = "none" /\ stopPc[Peer(c, n)] = "down"

Ids == 1..MaxMessages

Messages ==
  [kind : {"request", "answer"} \cup Broadcasts, id : Ids, of : Nodes]

-----------------------------------------------------------------------------
(* Session: writing, failing and closing *)

\* Session::write of a message at the end n of c, None for no session.  Behind a
\* write that is stuck the message waits for ever.
Write(c, n, msg) ==
  IF c = None THEN UNCHANGED <<out, wr>>
  ELSE /\ out' = [out EXCEPT ![c][n] = Append(@, msg)]
       /\ wr' = [wr EXCEPT ![c][n] = IF @ = "idle" THEN "busy" ELSE @]

\* ManagerBase::unregisterSessionInternal
Unregister(c, n) ==
  sessions' = [sessions EXCEPT ![n][Peer(c, n)] = IF Started(n) THEN None ELSE @]

\* Session::close.  A do_close on a socket that is closed changes nothing.
PostClose(c, n) == closing' = [closing EXCEPT ![c][n] = st[c][n] # "closed"]

\* Session::do_close.  The pending operations are cancelled, and their callbacks
\* do nothing: outboundMessage_ is never null again, and what is queued stays.  A
\* write whose callback do_write_header has not started the operation is not
\* cancelled.
DoClose(c, n) ==
  /\ closing[c][n] /\ IoRuns(n)
  /\ closing' = [closing EXCEPT ![c][n] = FALSE]
  /\ st' = [st EXCEPT ![c][n] = "closed"]
  /\ rd' = [rd EXCEPT ![c][n] = IF @ = "pending" THEN "none" ELSE @]
  /\ \/ UNCHANGED wr
     \/ wr[c][n] = "busy" /\ wr' = [wr EXCEPT ![c][n] = "stuck"]
  /\ wire' = [wire EXCEPT ![c][n] = IF rd[c][n] = "got" THEN <<Head(@)>> ELSE <<>>]
  /\ UNCHANGED <<managerVars, link, out>>

\* Mutant: outboundMessage_ is reset although there is more to send.
WriteForgetsQueue(c, n) ==
  /\ wr[c][n] = "busy" /\ st[c][n] # "closed" /\ IoRuns(n)
  /\ LET m == Peer(c, n)
     IN  wire' = [wire EXCEPT ![c][m] =
                    IF st[c][m] = "closed" THEN @ ELSE Append(@, Head(out[c][n]))]
  /\ out' = [out EXCEPT ![c][n] = Tail(@)]
  /\ wr' = [wr EXCEPT ![c][n] = "idle"]
  /\ UNCHANGED <<managerVars, link, st, rd, closing>>

\* The operation on the socket is done: on_write_message and the next write.  What
\* is written to an end that is closed is lost.
WriteDone(c, n) ==
  /\ wr[c][n] = "busy" /\ st[c][n] # "closed" /\ IoRuns(n)
  /\ LET m == Peer(c, n)
     IN  wire' = [wire EXCEPT ![c][m] =
                    IF st[c][m] = "closed" THEN @ ELSE Append(@, Head(out[c][n]))]
  /\ out' = [out EXCEPT ![c][n] = Tail(@)]
  /\ wr' = [wr EXCEPT ![c][n] = IF Len(out[c][n]) = 1 THEN "idle" ELSE "busy"]
  /\ UNCHANGED <<managerVars, link, st, rd, closing>>

WriteFails(c, n) ==
  /\ wr[c][n] = "busy"
  /\ st[c][n] = "closed" \/ PeerGone(c, n)
  /\ wr' = [wr EXCEPT ![c][n] = "failed"]
  /\ UNCHANGED <<managerVars, link, st, rd, closing, out, wire>>

\* Session::handle_error in the callback of a write ...
HandleWriteError(c, n) ==
  /\ wr[c][n] = "failed" /\ IoRuns(n)
  /\ wr' = [wr EXCEPT ![c][n] = "stuck"]
  /\ Unregister(c, n)
  /\ PostClose(c, n)
  /\ UNCHANGED <<requests, tasks, stopPc, link, st, rd, out, wire>>

-----------------------------------------------------------------------------
(* Session: connecting and the handshake *)

\* A connection whose two sessions are gone, with what was left in their queues, so
\* that its name can be used again.
Forgotten(c) ==
  \A n \in Nodes :
    /\ Linked(c, n) => st[c][n] = "closed"
    /\ rd[c][n] \in {"none", "ended"} /\ wr[c][n] \in {"idle", "stuck"}
    /\ \A m \in Nodes : sessions[n][m] # c

\* Mutant: the own address is not left out.
ConnectToAnyone(c, n, m) ==
  /\ Started(n) /\ sessions[n][m] = None
  /\ stopPc[m] # "down"
  /\ Forgotten(c)
  /\ link' = [link EXCEPT ![c] = [client |-> n, server |-> m]]
  /\ st' = [st EXCEPT ![c] = [k \in Nodes |-> IF k = n THEN "handshake" ELSE "none"]]
  /\ rd' = [rd EXCEPT ![c] = [k \in Nodes |-> "none"]]
  /\ wr' = [wr EXCEPT ![c] = [k \in Nodes |-> "idle"]]
  /\ out' = [out EXCEPT ![c] = [k \in Nodes |-> <<>>]]
  /\ UNCHANGED <<managerVars, closing, wire>>

\* DiscoveryWorker::connectToNode and ManagerBase::connectToServer up to on_connect.
\* Whether there is a session is looked up long before one is registered.
ConnectToServer(c, n, m) ==
  /\ n # m /\ Started(n) /\ sessions[n][m] = None
  /\ stopPc[m] # "down"
  /\ Forgotten(c)
  /\ link' = [link EXCEPT ![c] = [client |-> n, server |-> m]]
  /\ st' = [st EXCEPT ![c] = [k \in Nodes |-> IF k = n THEN "handshake" ELSE "none"]]
  /\ rd' = [rd EXCEPT ![c] = [k \in Nodes |-> "none"]]
  /\ wr' = [wr EXCEPT ![c] = [k \in Nodes |-> "idle"]]
  /\ out' = [out EXCEPT ![c] = [k \in Nodes |-> <<>>]]
  /\ UNCHANGED <<managerVars, closing, wire>>

\* ServerListener::on_accept and Session::run.
OnAccept(c) ==
  LET n == link[c].server IN
  /\ link[c] # NoLink /\ st[c][n] = "none" /\ IoRuns(n)
  /\ st' = [st EXCEPT ![c][n] = "handshake"]
  /\ UNCHANGED <<managerVars, link, rd, wr, closing, out, wire>>

\* Mutant: started_ is not looked at under sessionsMutex_.
RegistersAlways(n, m) == sessions[n][m] = None

\* ManagerBase::registerSessionInternal: does it return true?
Registers(n, m) == Started(n) /\ sessions[n][m] = None

\* Session::finish_handshake: the three bytes of the other end have been read.
FinishHandshake(c, n) ==
  LET m == Peer(c, n) IN
  /\ st[c][n] = "handshake" /\ ~closing[c][n] /\ IoRuns(n)
  /\ st[c][m] # "none"
  /\ st' = [st EXCEPT ![c][n] = "open"]
  /\ IF Registers(n, m)
     THEN /\ sessions' = [sessions EXCEPT ![n][m] = c]
          /\ rd' = [rd EXCEPT ![c][n] = "pending"]
          /\ UNCHANGED closing
     ELSE /\ closing' = [closing EXCEPT ![c][n] = TRUE]
          /\ UNCHANGED <<sessions, rd>>
  /\ UNCHANGED <<requests, tasks, stopPc, link, wr, out, wire>>

\* An error before doneHandshake_ is set only closes the session.
HandshakeFails(c, n) ==
  /\ st[c][n] = "handshake" /\ ~closing[c][n] /\ IoRuns(n)
  /\ PeerGone(c, n)
  /\ closing' = [closing EXCEPT ![c][n] = TRUE]
  /\ UNCHANGED <<managerVars, link, st, rd, wr, out, wire>>

-----------------------------------------------------------------------------
(* Session: reading *)

\* on_read_header and on_read_message.  A message that is too large closes the
\* session, which stays registered.
OnRead(c, n) ==
  /\ rd[c][n] = "pending" /\ wire[c][n] # <<>> /\ IoRuns(n)
  /\ IF Head(wire[c][n]).kind = "huge"
     THEN /\ rd' = [rd EXCEPT ![c][n] = "ended"]
          /\ closing' = [closing EXCEPT ![c][n] = TRUE]
     ELSE /\ rd' = [rd EXCEPT ![c][n] = "got"]
          /\ UNCHANGED closing
  /\ UNCHANGED <<managerVars, link, st, wr, out, wire>>

\* ManagerBase::asyncHandleMessage, called by an io thread, waits for stateMutex_;
\* then do_read_header, which fails at once when the socket has been closed.
AsyncHandleMessage(c, n) ==
  /\ rd[c][n] = "got" /\ IoRuns(n) /\ StateMutexFree(n)
  /\ tasks' = [tasks EXCEPT ![n] = @ \cup {[from |-> Peer(c, n), msg |-> Head(wire[c][n])]}]
  /\ wire' = [wire EXCEPT ![c][n] = Tail(@)]
  /\ rd' = [rd EXCEPT ![c][n] = IF st[c][n] = "closed" THEN "failed" ELSE "pending"]
  /\ UNCHANGED <<sessions, requests, stopPc, link, st, wr, closing, out>>

\* The other end has closed the connection; what was unread may be lost.
ReadFails(c, n) ==
  /\ rd[c][n] = "pending" /\ PeerGone(c, n)
  /\ rd' = [rd EXCEPT ![c][n] = "failed"]
  /\ UNCHANGED <<managerVars, link, st, wr, closing, out, wire>>

\* Mutant: the error is seen, and the entry of the session is left.
ErrorKeepsEntry(c, n) ==
  /\ rd[c][n] = "failed" /\ IoRuns(n)
  /\ rd' = [rd EXCEPT ![c][n] = "none"]
  /\ PostClose(c, n)
  /\ UNCHANGED <<managerVars, link, st, wr, out, wire>>

\* ... and in the callback of a read.
HandleReadError(c, n) ==
  /\ rd[c][n] = "failed" /\ IoRuns(n)
  /\ rd' = [rd EXCEPT ![c][n] = "none"]
  /\ Unregister(c, n)
  /\ PostClose(c, n)
  /\ UNCHANGED <<requests, tasks, stopPc, link, st, wr, out, wire>>

-----------------------------------------------------------------------------
(* ManagerBase and ManagerNormal: requests, answers and broadcasts *)

\* A fresh message id, which the encoders draw at random.
Fresh(n, id) == \A k \in Ids : requests[n][k] = "unused" <=> k >= id

\* ManagerBase::sendRequestTo: the request is recorded before it is written.  Whether
\* the caller's wait of two seconds ends with the answer or without it changes
\* nothing here: requests_ keeps every request.
SendRequestTo(n, m, id) ==
  /\ Started(n) /\ sessions[n][m] # None
  /\ Fresh(n, id)
  /\ requests' = [requests EXCEPT ![n][id] = "sent"]
  /\ Write(sessions[n][m], n, [kind |-> "request", id |-> id, of |-> n])
  /\ UNCHANGED <<sessions, tasks, stopPc, link, st, rd, closing, wire>>

\* ManagerNormal::broadcastMessage to one of the sessions.
BroadcastMessage(n, m, id) ==
  /\ Started(n) /\ sessions[n][m] # None
  /\ Fresh(n, id)
  /\ requests' = [requests EXCEPT ![n][id] = "broadcast"]
  /\ \E k \in Broadcasts : Write(sessions[n][m], n, [kind |-> k, id |-> id, of |-> n])
  /\ UNCHANGED <<sessions, tasks, stopPc, link, st, rd, closing, wire>>

Done(n, t) == tasks' = [tasks EXCEPT ![n] = @ \ {t}]

\* A pool thread that finds the manager stopped.
DropTask(n, t) ==
  /\ t \in tasks[n] /\ ~Started(n) /\ stopPc[n] # "down"
  /\ Done(n, t)
  /\ UNCHANGED <<sessions, requests, stopPc, link, socketVars>>

\* Mutant: the request is answered, and handled once more.
AnswerTwice(n, t) ==
  /\ t \in tasks[n] /\ Started(n) /\ t.msg.kind = "request"
  /\ Write(sessions[n][t.from], n, [t.msg EXCEPT !.kind = "answer"])
  /\ Done(n, t) \/ UNCHANGED tasks
  /\ UNCHANGED <<sessions, requests, stopPc, link, st, rd, closing, wire>>

\* handleRequest and ManagerBase::answerSession, which looks the session up again.
HandleRequest(n, t) ==
  /\ t \in tasks[n] /\ Started(n) /\ t.msg.kind = "request"
  /\ Write(sessions[n][t.from], n, [t.msg EXCEPT !.kind = "answer"])
  /\ Done(n, t)
  /\ UNCHANGED <<sessions, requests, stopPc, link, st, rd, closing, wire>>

\* ManagerBase::disconnectSessionInternal
DisconnectSession(n, m) ==
  IF sessions[n][m] = None THEN UNCHANGED <<sessions, closing>>
  ELSE /\ PostClose(sessions[n][m], n)
       /\ sessions' = [sessions EXCEPT ![n][m] = None]

\* handleAnswer.  An answer to an unknown request would disconnect the session.
HandleAnswer(n, t) ==
  /\ t \in tasks[n] /\ Started(n) /\ t.msg.kind = "answer"
  /\ IF requests[n][t.msg.id] = "unused"
     THEN DisconnectSession(n, t.from) /\ UNCHANGED requests
     ELSE /\ requests' = [requests EXCEPT ![n][t.msg.id] = "answered"]
          /\ UNCHANGED <<sessions, closing>>
  /\ Done(n, t)
  /\ UNCHANGED <<stopPc, link, st, rd, wr, out, wire>>

\* handleBroadcast of a message that cannot be decoded or is not valid.
HandleRefused(n, t) ==
  /\ t \in tasks[n] /\ Started(n) /\ t.msg.kind = "refused"
  /\ DisconnectSession(n, t.from)
  /\ Done(n, t)
  /\ UNCHANGED <<requests, stopPc, link, st, rd, wr, out, wire>>

-----------------------------------------------------------------------------
(* ManagerBase::stop *)

\* stateMutex_ is taken and started_ set to false ...
StopBegin(n) ==
  /\ n \in Stoppable /\ stopPc[n] = "run"
  /\ stopPc' = [stopPc EXCEPT ![n] = "clear"]
  /\ UNCHANGED <<sessions, requests, tasks, link, socketVars>>

\* ... the sessions are erased and closed ...
StopClear(n) ==
  /\ stopPc[n] = "clear"
  /\ stopPc' = [stopPc EXCEPT ![n] = "join"]
  /\ closing' = [c \in Conns |->
       [closing[c] EXCEPT ![n] = @ \/ (\E m \in Nodes : sessions[n][m] = c /\ st[c][n] # "closed")]]
  /\ sessions' = [sessions EXCEPT ![n] = [m \in Nodes |-> None]]
  /\ UNCHANGED <<requests, tasks, link, st, rd, wr, out, wire>>

\* ... and the io threads and the pool are joined: an io thread that waits in
\* asyncHandleMessage for stateMutex_ is never joined.  Then the process ends and
\* its sockets and queues with it, whether do_close has run or not.
StopJoin(n) ==
  /\ stopPc[n] = "join"
  /\ tasks[n] = {}
  /\ \A c \in Conns : rd[c][n] # "got"
  /\ stopPc' = [stopPc EXCEPT ![n] = "down"]
  /\ st' = [c \in Conns |-> IF Linked(c, n) THEN [st[c] EXCEPT ![n] = "closed"] ELSE st[c]]
  /\ rd' = [c \in Conns |-> [rd[c] EXCEPT ![n] = "none"]]
  /\ wr' = [c \in Conns |-> [wr[c] EXCEPT ![n] = "idle"]]
  /\ closing' = [c \in Conns |-> [closing[c] EXCEPT ![n] = FALSE]]
  /\ out' = [c \in Conns |-> [out[c] EXCEPT ![n] = <<>>]]
  /\ wire' = [c \in Conns |-> [wire[c] EXCEPT ![n] = <<>>]]
  /\ UNCHANGED <<sessions, requests, tasks, link>>

-----------------------------------------------------------------------------
Init ==
  /\ sessions = [n \in Nodes |-> [m \in Nodes |-> None]]
  /\ requests = [n \in Nodes |-> [id \in Ids |-> "unused"]]
  /\ tasks = [n \in Nodes |-> {}]
  /\ stopPc = [n \in Nodes |-> "run"]
  /\ link = [c \in Conns |-> NoLink]
  /\ st = [c \in Conns |-> [n \in Nodes |-> "none"]]
  /\ rd = [c \in Conns |-> [n \in Nodes |-> "none"]]
  /\ wr = [c \in Conns |-> [n \in Nodes |-> "idle"]]
  /\ closing = [c \in Conns |-> [n \in Nodes |-> FALSE]]
  /\ out = [c \in Conns |-> [n \in Nodes |-> <<>>]]
  /\ wire = [c \in Conns |-> [n \in Nodes |-> <<>>]]

\* The callbacks of the read and of the write of an end, and what the operating
\* system reports to them.
ReadStep(c, n) ==
  \/ OnRead(c, n) \/ AsyncHandleMessage(c, n) \/ ReadFails(c, n) \/ HandleReadError(c, n)
WriteStep(c, n) == WriteDone(c, n) \/ WriteFails(c, n) \/ HandleWriteError(c, n)
HandshakeStep(c, n) == FinishHandshake(c, n) \/ HandshakeFails(c, n)

PoolStep(n) ==
  \E t \in tasks[n] :
    DropTask(n, t) \/ HandleRequest(n, t) \/ HandleAnswer(n, t) \/ HandleRefused(n, t)

StopStep(n) == StopClear(n) \/ StopJoin(n)

CallerStep(n, m) ==
  \/ \E c \in Conns : ConnectToServer(c, n, m)
  \/ \E id \in Ids : SendRequestTo(n, m, id) \/ BroadcastMessage(n, m, id)

EndStep(c, n) ==
  Linked(c, n) /\ (HandshakeStep(c, n) \/ ReadStep(c, n) \/ WriteStep(c, n) \/ DoClose(c, n))

Next ==
  \/ \E n \in Callers : \E m \in Nodes : CallerStep(n, m)
  \/ \E n \in Nodes : PoolStep(n) \/ StopBegin(n) \/ StopStep(n)
  \/ \E c \in Conns : OnAccept(c)
  \/ \E c \in Conns : \E n \in Nodes : EndStep(c, n)

Spec == Init /\ [][Next]_vars

\* The io threads run every callback that is ready, the pool every task, and TCP
\* reports a connection that is closed to whoever reads from it.
Fairness ==
  /\ \A c \in Conns : \A n \in Nodes :
       /\ WF_vars(Linked(c, n) /\ ReadStep(c, n))
       /\ WF_vars(Linked(c, n) /\ DoClose(c, n))
  /\ \A n \in Nodes : WF_vars(PoolStep(n)) /\ WF_vars(StopClear(n))

FairSpec == Spec /\ Fairness

-----------------------------------------------------------------------------
(* Properties *)

\* Type correctness of the sessions and of what the manager keeps.
TypeOK ==
  /\ sessions \in [Nodes -> [Nodes -> Conns \cup {None}]]
  /\ requests \in [Nodes -> [Ids -> {"unused", "sent", "answered", "broadcast"}]]
  /\ tasks \in [Nodes -> SUBSET [from : Nodes, msg : Messages]]
  /\ stopPc \in [Nodes -> {"run", "clear", "join", "down"}]
  /\ link \in [Conns -> {l \in [client : Nodes, server : Nodes] : l.client # l.server}
                          \cup {NoLink}]
  /\ st \in [Conns -> [Nodes -> {"none", "handshake", "open", "closed"}]]
  /\ rd \in [Conns -> [Nodes -> {"none", "pending", "got", "failed", "ended"}]]
  /\ wr \in [Conns -> [Nodes -> {"idle", "busy", "failed", "stuck"}]]
  /\ closing \in [Conns -> [Nodes -> BOOLEAN]]
  /\ out \in [Conns -> [Nodes -> Seq(Messages)]]
  /\ wire \in [Conns -> [Nodes -> Seq(Messages)]]

\* The end n of c still reads, or its error is about to be handled.
Reading(c, n) ==
  st[c][n] = "open" /\ ~closing[c][n] /\ rd[c][n] \in {"pending", "got", "failed"}

\* A message larger than maxMessageSize_ has ended the reading.
Oversized(c, n) == rd[c][n] = "ended"

\* Whatever sessions_ of a running node holds is an end of a connection with that
\* very node whose handshake is done and which still reads, so that its failure
\* will be noticed: closing and unregistering never come apart, except for a
\* message that is too large.
RegisteredLive ==
  \A n, m \in Nodes :
    LET c == sessions[n][m] IN
    (c # None /\ Started(n)) =>
      /\ Linked(c, n) /\ Peer(c, n) = m
      /\ Reading(c, n) \/ Oversized(c, n)

\* write() and on_write_message do not miss each other: outboundMessage_ is null only
\* when nothing is queued.  A queue whose write has ended without its callback going
\* on (cancelled by do_close, or failed) belongs to a session that is closed or about
\* to be, and no running node has it registered, so that nobody writes to it, unless
\* a message that was too large has closed it.
QueueDrains ==
  \A c \in Conns : \A n \in Nodes :
    /\ out[c][n] # <<>> <=> wr[c][n] # "idle"
    /\ wr[c][n] = "stuck" =>
         /\ closing[c][n] \/ st[c][n] = "closed"
         /\ Started(n) /\ (\E m \in Nodes : sessions[n][m] = c) => Oversized(c, n)

\* Once stop() has erased the sessions, none is registered again, although
\* handshakes are being finished by io threads that still run.
StoppedEmpty ==
  \A n, m \in Nodes : stopPc[n] \in {"join", "down"} => sessions[n][m] = None

\* All answers under way to n, wherever they are.
AnswersTo(n) ==
  {msg \in Messages : msg.kind = "answer" /\ msg.of = n /\
     \/ \E t \in tasks[n] : t.msg = msg
     \/ \E c \in Conns : \E m \in Nodes \ {n} :
          \/ \E i \in DOMAIN wire[c][n] : wire[c][n][i] = msg
          \/ \E i \in DOMAIN out[c][m] : out[c][m][i] = msg}

\* An answer that arrives, be it after the caller has given up or over another
\* connection than its request, is the answer of a request that is recorded and has
\* no answer yet: setAnswer does not throw, and no session is closed for it.
AnswersExpected ==
  \A n \in Nodes : \A msg \in AnswersTo(n) : requests[n][msg.id] = "sent"

\* A session whose other end is gone does not stay registered for ever (unless a
\* message that was too large has ended its reading before): the node can connect
\* to that peer again.
DeadRemoved ==
  \A n, m \in Nodes : \A c \in Conns :
    (sessions[n][m] = c /\ st[c][m] = "closed")
      ~> (sessions[n][m] # c \/ Oversized(c, n))
=============================================================================
