----------------------------- MODULE P2PProofs -----------------------------
(***************************************************************************)
(* Proofs about P2P for any number of nodes, connections and messages: the *)
(* sessions that a manager knows are alive, a queue without a write under  *)
(* way belongs to a session that is closed, and every answer is the only   *)
(* one of a recorded request.                                              *)
(***************************************************************************)
EXTENDS P2P, SequenceTheorems, TLAPS

-----------------------------------------------------------------------------
(* The inductive invariant *)

\* What the sockets hold: nothing is written to or queued at an end that is not one
\* of the connection, a closed end has stopped reading and has at most the
\* message that its callback has read, which is still on the wire.
SocketAt(c, n) ==
  /\ ~Linked(c, n) => wire[c][n] = <<>>
  /\ rd[c][n] = "got" => wire[c][n] # <<>>
  /\ st[c][n] = "closed" =>
       /\ rd[c][n] # "pending"
       /\ wire[c][n] = <<>> \/ (rd[c][n] = "got" /\ Len(wire[c][n]) = 1)

SocketsOK == \A c \in Conns : \A n \in Nodes : SocketAt(c, n)

\* A request carries the id of the node that has sent it, an answer that of the
\* node that it is sent to.
OutAddress(c, n, msg) ==
  /\ msg.kind = "request" => msg.of = n
  /\ msg.kind = "answer" => msg.of = Peer(c, n)
WireAddress(c, n, msg) ==
  /\ msg.kind = "request" => msg.of = Peer(c, n)
  /\ msg.kind = "answer" => msg.of = n

AddressesOK ==
  /\ \A c \in Conns : \A n \in Nodes :
       /\ \A i \in DOMAIN out[c][n] : OutAddress(c, n, out[c][n][i])
       /\ \A i \in DOMAIN wire[c][n] : WireAddress(c, n, wire[c][n][i])
  /\ \A n \in Nodes : \A t \in tasks[n] :
       /\ t.msg.kind = "request" => t.msg.of = t.from
       /\ t.msg.kind = "answer" => t.msg.of = n

\* The request that a message asks or answers, as a set of at most one.
Key(msg) == IF msg.kind \in {"request", "answer"} THEN {<<msg.of, msg.id>>} ELSE {}
Keys(q) == UNION {Key(q[i]) : i \in DOMAIN q}

\* No two messages of a queue are about one request.
Distinct(q) == \A i, j \in DOMAIN q : Key(q[i]) \cap Key(q[j]) # {} => i = j

\* Where messages are, and the requests that the messages at a place are about.
Tasks == [from : Nodes, msg : Messages]
Places == ({"out", "wire"} \X Conns \X Nodes) \cup ({"task"} \X Nodes \X Tasks)
Holds(p) ==
  CASE p[1] = "out"  -> Keys(out[p[2]][p[3]])
    [] p[1] = "wire" -> Keys(wire[p[2]][p[3]])
    [] OTHER         -> IF p[3] \in tasks[p[2]] THEN Key(p[3].msg) ELSE {}

\* A request travels in one message at a time, the answer being sent when the
\* request has been handled, and only while it is recorded without an answer.
TokensOK ==
  /\ \A p, q \in Places : p # q => Holds(p) \cap Holds(q) = {}
  /\ \A p \in Places : \A k \in Holds(p) : requests[k[1]][k[2]] = "sent"
  /\ \A c \in Conns : \A n \in Nodes : Distinct(out[c][n]) /\ Distinct(wire[c][n])

\* outboundMessage_ is null exactly when nothing is queued.
Queued == \A c \in Conns : \A n \in Nodes : out[c][n] # <<>> <=> wr[c][n] # "idle"

\* The sessions and their sockets, whatever the messages are about.
SessionsInv == TypeOK /\ Queued /\ StoppedEmpty /\ RegisteredLive /\ SocketsOK

IInv == SessionsInv /\ AddressesOK /\ TokensOK

-----------------------------------------------------------------------------
(* Facts about the data *)

\* An update of one entry of a table of tables.
LEMMA Update ==
  ASSUME NEW A, NEW B, NEW S, NEW f \in [A -> [B -> S]],
         NEW a \in A, NEW b \in B, NEW v \in S
  PROVE  /\ [f EXCEPT ![a][b] = v] \in [A -> [B -> S]]
         /\ \A x \in A, y \in B :
              [f EXCEPT ![a][b] = v][x][y] = IF x = a /\ y = b THEN v ELSE f[x][y]
OBVIOUS

\* The two ends of a connection.
LEMMA PeerType ==
  ASSUME TypeOK, NEW c \in Conns, NEW n \in Nodes, Linked(c, n)
  PROVE  /\ Peer(c, n) \in Nodes /\ Peer(c, n) # n
         /\ Linked(c, Peer(c, n)) /\ Peer(c, Peer(c, n)) = n
         /\ \A m \in Nodes : Linked(c, m) => m = n \/ m = Peer(c, n)
<1>1. link[c] \in [client : Nodes, server : Nodes] /\ link[c].client # link[c].server
  BY DEF TypeOK, Linked
<1>. QED BY <1>1 DEF Linked, Peer

\* A queue as its first message and the rest.
LEMMA HeadTail ==
  ASSUME NEW q \in Seq(Messages), q # <<>>
  PROVE  /\ Head(q) \in Messages /\ Tail(q) \in Seq(Messages)
         /\ Len(q) \in Nat \ {0} /\ Len(Tail(q)) = Len(q) - 1
         /\ Head(q) = q[1] /\ 1 \in DOMAIN q
         /\ \A i \in DOMAIN Tail(q) : i + 1 \in DOMAIN q /\ Tail(q)[i] = q[i + 1]
         /\ Tail(q) = <<>> <=> Len(q) = 1
<1>1. Tail(q) \in Seq(Messages) /\ Len(Tail(q)) = Len(q) - 1 /\ Len(q) \in Nat
  OBVIOUS
<1>2. Tail(q) = <<>> <=> Len(Tail(q)) = 0
  BY <1>1, EmptySeq
<1>3. Tail(q) = <<>> <=> Len(q) = 1
  BY <1>1, <1>2
<1>4. /\ Head(q) \in Messages /\ Len(q) # 0
      /\ Head(q) = q[1] /\ 1 \in DOMAIN q
      /\ \A i \in DOMAIN Tail(q) : i + 1 \in DOMAIN q /\ Tail(q)[i] = q[i + 1]
  OBVIOUS
<1>. QED BY <1>1, <1>3, <1>4

LEMMA AppendLast ==
  ASSUME NEW q \in Seq(Messages), NEW e \in Messages
  PROVE  /\ Append(q, e) \in Seq(Messages) /\ Append(q, e) # <<>>
         /\ Len(Append(q, e)) = Len(q) + 1 /\ Len(q) \in Nat
         /\ DOMAIN q = 1..Len(q) /\ DOMAIN Append(q, e) = 1..(Len(q) + 1)
         /\ \A i \in DOMAIN q : Append(q, e)[i] = q[i]
         /\ Append(q, e)[Len(q) + 1] = e
OBVIOUS

LEMMA Singleton ==
  ASSUME NEW e \in Messages
  PROVE  /\ <<e>> \in Seq(Messages) /\ <<e>> # <<>> /\ Len(<<e>>) = 1
         /\ DOMAIN <<e>> = {1} /\ <<e>>[1] = e
OBVIOUS

-----------------------------------------------------------------------------
(* What a step that leaves parts of the state alone cannot disturb *)

LEMMA LiveFrame ==
  ASSUME RegisteredLive, StoppedEmpty, TypeOK, UNCHANGED <<sessions, link, st, rd, closing>>,
         \A n \in Nodes : stopPc'[n] \in {stopPc[n], "clear"}
  PROVE  RegisteredLive' /\ StoppedEmpty'
<1>1. StoppedEmpty'
  BY DEF StoppedEmpty
<1>2. ASSUME NEW n \in Nodes, Started(n)' PROVE Started(n)
  BY <1>2 DEF Started, TypeOK
<1>3. RegisteredLive'
  BY <1>2 DEF RegisteredLive, Linked, Peer, Reading, Oversized
<1>. QED BY <1>1, <1>3

LEMMA LivePrime ==
  ASSUME \A k, m \in Nodes : \A d : d = sessions'[k][m] /\ d # None /\ Started(k)' =>
           /\ Linked(d, k)' /\ Peer(d, k)' = m
           /\ Reading(d, k)' \/ Oversized(d, k)'
  PROVE  RegisteredLive'
BY DEF RegisteredLive, Linked, Peer, Reading, Oversized

\* A step of the end n of c: it may unregister sessions, and register this one.
LEMMA LiveStep ==
  ASSUME SessionsInv, NEW c \in Conns, NEW n \in Nodes, UNCHANGED <<link, stopPc>>,
         \A d \in Conns : \A k \in Nodes : ~(d = c /\ k = n) =>
           st'[d][k] = st[d][k] /\ rd'[d][k] = rd[d][k] /\ closing'[d][k] = closing[d][k],
         \A k, m \in Nodes : sessions'[k][m] \in {sessions[k][m], None} \/
           (/\ k = n /\ m = Peer(c, n) /\ sessions'[k][m] = c
            /\ Linked(c, n) /\ Started(n)),
         (\E m \in Nodes : sessions'[n][m] = c) /\ Started(n) =>
           Reading(c, n)' \/ Oversized(c, n)'
  PROVE  RegisteredLive' /\ StoppedEmpty'
<1>1. ASSUME NEW k \in Nodes, NEW m \in Nodes, stopPc'[k] \in {"join", "down"}
      PROVE  sessions'[k][m] = None
  BY <1>1 DEF SessionsInv, StoppedEmpty, Started
<1>2. ASSUME NEW k \in Nodes, NEW m \in Nodes, NEW d,
             d = sessions'[k][m], d # None, Started(k)'
      PROVE  /\ Linked(d, k)' /\ Peer(d, k)' = m
             /\ Reading(d, k)' \/ Oversized(d, k)'
  <2>1. d = sessions'[k][m]
    BY <1>2
  <2>2. d # None /\ Started(k)
    BY <1>2, <2>1 DEF Started
  <2>3. \/ d = sessions[k][m]
        \/ k = n /\ m = Peer(c, n) /\ d = c /\ Linked(c, n)
    BY <1>2, <2>1
  <2>4. Linked(d, k) /\ Peer(d, k) = m /\ (d \in Conns)
    BY <2>2, <2>3 DEF SessionsInv, RegisteredLive, TypeOK
  <2>5. Linked(d, k)' /\ Peer(d, k)' = m
    BY <2>4 DEF Linked, Peer
  <2>6. Reading(d, k)' \/ Oversized(d, k)'
    <3>1. CASE d = c /\ k = n
      BY <2>1, <2>2, <3>1
    <3>2. CASE ~(d = c /\ k = n)
      <4>1. st'[d][k] = st[d][k] /\ rd'[d][k] = rd[d][k] /\ closing'[d][k] = closing[d][k]
        BY <2>4, <3>2
      <4>2. Reading(d, k) \/ Oversized(d, k)
        BY <2>2, <2>3, <3>2 DEF SessionsInv, RegisteredLive
      <4>. QED BY <4>1, <4>2 DEF Reading, Oversized
    <3>. QED BY <3>1, <3>2
  <2>. QED BY <2>5, <2>6
<1>3. RegisteredLive'
  BY <1>2, LivePrime
<1>. QED BY <1>1, <1>3 DEF StoppedEmpty

\* A step that changes the socket of one end.
LEMMA SocketStep ==
  ASSUME SessionsInv, NEW c \in Conns, NEW n \in Nodes, UNCHANGED link,
         \A d \in Conns : \A k \in Nodes : ~(d = c /\ k = n) =>
           st'[d][k] = st[d][k] /\ rd'[d][k] = rd[d][k] /\ wire'[d][k] = wire[d][k],
         SocketAt(c, n)'
  PROVE  SocketsOK'
<1>1. ASSUME NEW d \in Conns, NEW k \in Nodes, ~(d = c /\ k = n) PROVE SocketAt(d, k)'
  <2>1. st'[d][k] = st[d][k] /\ rd'[d][k] = rd[d][k] /\ wire'[d][k] = wire[d][k]
    BY <1>1
  <2>2. SocketAt(d, k)
    BY DEF SessionsInv, SocketsOK
  <2>. QED BY <2>1, <2>2 DEF SocketAt, Linked
<1>. QED BY <1>1 DEF SocketsOK

\* A step that changes the queue of one end.
LEMMA QueueStep ==
  ASSUME Queued, NEW c \in Conns, NEW n \in Nodes,
         \A d \in Conns : \A k \in Nodes : ~(d = c /\ k = n) =>
           out'[d][k] = out[d][k] /\ wr'[d][k] = wr[d][k],
         \/ out'[c][n] # <<>> /\ wr'[c][n] # "idle"
         \/ out'[c][n] = <<>> /\ wr'[c][n] = "idle"
  PROVE  Queued'
<1>1. ASSUME NEW d \in Conns, NEW k \in Nodes
      PROVE  out'[d][k] # <<>> <=> wr'[d][k] # "idle"
  <2>1. CASE d = c /\ k = n
    BY <2>1
  <2>2. CASE ~(d = c /\ k = n)
    <3>1. out'[d][k] = out[d][k] /\ wr'[d][k] = wr[d][k]
      BY <2>2
    <3>. QED BY <3>1 DEF Queued
  <2>. QED BY <2>1, <2>2
<1>. QED BY <1>1 DEF Queued

LEMMA SocketsFrame ==
  ASSUME SocketsOK, UNCHANGED <<link, wire, rd, st>>
  PROVE  SocketsOK'
BY DEF SocketsOK, SocketAt, Linked

LEMMA QueueFrame ==
  ASSUME Queued, UNCHANGED <<out, wr>>
  PROVE  Queued'
BY DEF Queued

-----------------------------------------------------------------------------
(* Writing *)

\* Session::write starts a write unless one is under way.
LEMMA WriteQueues ==
  ASSUME TypeOK, Queued, NEW n \in Nodes, NEW c \in Conns \cup {None},
         NEW msg \in Messages, Write(c, n, msg)
  PROVE  /\ Queued'
         /\ out' \in [Conns -> [Nodes -> Seq(Messages)]]
         /\ wr' \in [Conns -> [Nodes -> {"idle", "busy", "failed", "stuck"}]]
         /\ \A d \in Conns : \A k \in Nodes :
              out'[d][k] = IF d = c /\ k = n THEN Append(out[d][k], msg) ELSE out[d][k]
<1>1. CASE c = None
  <2>1. UNCHANGED <<out, wr>>
    BY <1>1 DEF Write
  <2>. QED BY <1>1, <2>1, QueueFrame, NoneAssumption DEF TypeOK
<1>2. CASE c \in Conns
  <2>1. /\ out' = [out EXCEPT ![c][n] = Append(out[c][n], msg)]
        /\ wr' = [wr EXCEPT ![c][n] = IF wr[c][n] = "idle" THEN "busy" ELSE wr[c][n]]
    BY <1>2, NoneAssumption DEF Write
  <2>2. Append(out[c][n], msg) \in Seq(Messages) /\ Append(out[c][n], msg) # <<>>
    <3>1. out[c][n] \in Seq(Messages)
      BY <1>2 DEF TypeOK
    <3>. QED BY <3>1, AppendLast
  <2>3. /\ out' \in [Conns -> [Nodes -> Seq(Messages)]]
        /\ \A d \in Conns : \A k \in Nodes :
             out'[d][k] = IF d = c /\ k = n THEN Append(out[c][n], msg) ELSE out[d][k]
    BY <1>2, <2>1, <2>2 DEF TypeOK
  <2>4. /\ wr' \in [Conns -> [Nodes -> {"idle", "busy", "failed", "stuck"}]]
        /\ \A d \in Conns : \A k \in Nodes :
             wr'[d][k] = IF d = c /\ k = n /\ wr[c][n] = "idle" THEN "busy" ELSE wr[d][k]
    BY <1>2, <2>1 DEF TypeOK
  <2>5. Queued'
    <3>1. ASSUME NEW d \in Conns, NEW k \in Nodes
          PROVE  out'[d][k] # <<>> <=> wr'[d][k] # "idle"
      <4>1. CASE d = c /\ k = n
        <5>1. out'[d][k] # <<>>
          BY <2>2, <2>3, <4>1
        <5>2. wr'[d][k] # "idle"
          BY <1>2, <2>4, <4>1 DEF TypeOK
        <5>. QED BY <5>1, <5>2
      <4>2. CASE ~(d = c /\ k = n)
        <5>1. out'[d][k] = out[d][k] /\ wr'[d][k] = wr[d][k]
          BY <2>3, <2>4, <4>2
        <5>. QED BY <5>1 DEF Queued
      <4>. QED BY <4>1, <4>2
    <3>. QED BY <3>1 DEF Queued
  <2>. QED BY <1>2, <2>3, <2>4, <2>5
<1>. QED BY <1>1, <1>2

\* The steps that only write: a request, a broadcast, an answer.
LEMMA WritersKeep ==
  ASSUME SessionsInv, NEW n \in Nodes, NEW m \in Nodes, NEW msg \in Messages,
         Write(sessions[n][m], n, msg),
         UNCHANGED <<sessions, stopPc, link, st, rd, closing, wire>>,
         requests' \in [Nodes -> [Ids -> {"unused", "sent", "answered", "broadcast"}]],
         tasks' \in [Nodes -> SUBSET [from : Nodes, msg : Messages]]
  PROVE  SessionsInv'
<1>1. TypeOK /\ Queued /\ StoppedEmpty /\ RegisteredLive /\ SocketsOK
  BY DEF SessionsInv
<1>2. sessions[n][m] \in Conns \cup {None}
  BY <1>1 DEF TypeOK
<1>3. /\ Queued'
      /\ out' \in [Conns -> [Nodes -> Seq(Messages)]]
      /\ wr' \in [Conns -> [Nodes -> {"idle", "busy", "failed", "stuck"}]]
  BY <1>1, <1>2, WriteQueues
<1>4. TypeOK'
  BY <1>1, <1>3 DEF TypeOK
<1>5. RegisteredLive' /\ StoppedEmpty'
  BY <1>1, LiveFrame
<1>6. SocketsOK'
  BY <1>1, SocketsFrame
<1>. QED BY <1>3, <1>4, <1>5, <1>6 DEF SessionsInv

LEMMA MessageTypes ==
  ASSUME NEW n \in Nodes, NEW id \in Ids
  PROVE  /\ [kind |-> "request", id |-> id, of |-> n] \in Messages
         /\ \A k \in Broadcasts : [kind |-> k, id |-> id, of |-> n] \in Messages
BY DEF Messages

\* sendRequestTo and broadcastMessage.
LEMMA SendersKeep ==
  ASSUME SessionsInv, NEW n \in Nodes, NEW m \in Nodes, NEW id \in Ids,
         SendRequestTo(n, m, id) \/ BroadcastMessage(n, m, id)
  PROVE  SessionsInv'
<1>1. TypeOK
  BY DEF SessionsInv
<1>2. tasks' \in [Nodes -> SUBSET [from : Nodes, msg : Messages]]
  BY <1>1 DEF SendRequestTo, BroadcastMessage, TypeOK
<1>3. CASE SendRequestTo(n, m, id)
  <2>1. requests' \in [Nodes -> [Ids -> {"unused", "sent", "answered", "broadcast"}]]
    BY <1>1, <1>3 DEF SendRequestTo, TypeOK
  <2>. QED BY <1>2, <1>3, <2>1, MessageTypes, WritersKeep DEF SendRequestTo
<1>4. CASE BroadcastMessage(n, m, id)
  <2>1. requests' \in [Nodes -> [Ids -> {"unused", "sent", "answered", "broadcast"}]]
    BY <1>1, <1>4 DEF BroadcastMessage, TypeOK
  <2>2. PICK k \in Broadcasts :
          Write(sessions[n][m], n, [kind |-> k, id |-> id, of |-> n])
    BY <1>4 DEF BroadcastMessage
  <2>3. [kind |-> k, id |-> id, of |-> n] \in Messages
    BY MessageTypes
  <2>. QED BY <1>2, <1>4, <2>1, <2>2, <2>3, WritersKeep DEF BroadcastMessage
<1>. QED BY <1>3, <1>4

\* handleRequest.
LEMMA HandleRequestKeeps ==
  ASSUME SessionsInv, NEW n \in Nodes, NEW t \in tasks[n], HandleRequest(n, t)
  PROVE  SessionsInv'
<1>1. t \in [from : Nodes, msg : Messages]
  BY DEF SessionsInv, TypeOK
<1>2. t.from \in Nodes /\ [t.msg EXCEPT !.kind = "answer"] \in Messages
  BY <1>1 DEF Messages
<1>3. /\ requests' \in [Nodes -> [Ids -> {"unused", "sent", "answered", "broadcast"}]]
      /\ tasks' \in [Nodes -> SUBSET [from : Nodes, msg : Messages]]
  BY DEF HandleRequest, Done, SessionsInv, TypeOK
<1>. QED BY <1>2, <1>3, WritersKeep DEF HandleRequest

\* The write that is done, and the next one.
LEMMA WriteDoneKeeps ==
  ASSUME SessionsInv, NEW c \in Conns, NEW n \in Nodes, Linked(c, n), WriteDone(c, n)
  PROVE  SessionsInv'
<1>. USE DEF managerVars
<1>1. TypeOK /\ Queued /\ StoppedEmpty /\ RegisteredLive /\ SocketsOK
  BY DEF SessionsInv
<1>2. PICK m \in Nodes : m = Peer(c, n) /\ Linked(c, m)
  BY <1>1, PeerType
<1>3. out[c][n] \in Seq(Messages) /\ out[c][n] # <<>> /\ wire[c][m] \in Seq(Messages)
  BY <1>1 DEF TypeOK, Queued, WriteDone
<1>4. Head(out[c][n]) \in Messages /\ Tail(out[c][n]) \in Seq(Messages)
  BY <1>3, HeadTail
<1>5. Append(wire[c][m], Head(out[c][n])) \in Seq(Messages)
  BY <1>3, <1>4, AppendLast
<1>6. /\ UNCHANGED <<managerVars, link, st, rd, closing>>
      /\ wire' = [wire EXCEPT ![c][m] = IF st[c][m] = "closed" THEN wire[c][m]
                                        ELSE Append(wire[c][m], Head(out[c][n]))]
      /\ out' = [out EXCEPT ![c][n] = Tail(out[c][n])]
      /\ wr' = [wr EXCEPT ![c][n] = IF Len(out[c][n]) = 1 THEN "idle" ELSE "busy"]
  BY <1>2 DEF WriteDone
<1>7. TypeOK'
  BY <1>1, <1>4, <1>5, <1>6 DEF TypeOK
<1>8. Queued'
  <2>1. out'[c][n] = Tail(out[c][n])
    BY <1>1, <1>6 DEF TypeOK
  <2>2. wr'[c][n] = IF Len(out[c][n]) = 1 THEN "idle" ELSE "busy"
    BY <1>1, <1>6 DEF TypeOK
  <2>3. Tail(out[c][n]) = <<>> <=> Len(out[c][n]) = 1
    BY <1>3, HeadTail
  <2>4. \A d \in Conns : \A k \in Nodes : ~(d = c /\ k = n) =>
          out'[d][k] = out[d][k] /\ wr'[d][k] = wr[d][k]
    BY <1>1, <1>6 DEF TypeOK
  <2>5. \/ out'[c][n] # <<>> /\ wr'[c][n] # "idle"
        \/ out'[c][n] = <<>> /\ wr'[c][n] = "idle"
    BY <2>1, <2>2, <2>3
  <2>. QED BY <1>1, <2>4, <2>5, QueueStep
<1>9. RegisteredLive' /\ StoppedEmpty'
  BY <1>1, <1>6, LiveFrame
<1>10. SocketsOK'
  <2>1. \A d \in Conns : \A k \in Nodes : ~(d = c /\ k = m) => wire'[d][k] = wire[d][k]
    BY <1>1, <1>6 DEF TypeOK
  <2>2. wire'[c][m] = IF st[c][m] = "closed" THEN wire[c][m]
                      ELSE Append(wire[c][m], Head(out[c][n]))
    BY <1>1, <1>6 DEF TypeOK
  <2>3. SocketAt(c, m)
    BY <1>1 DEF SocketsOK
  <2>4. st[c][m] # "closed" => wire'[c][m] # <<>>
    BY <1>3, <1>4, <2>2, AppendLast
  <2>5. SocketAt(c, m)'
    <3>1. CASE st[c][m] = "closed"
      BY <1>6, <2>2, <2>3, <3>1 DEF SocketAt, Linked
    <3>2. CASE st[c][m] # "closed"
      BY <1>2, <1>6, <2>4, <3>2 DEF SocketAt, Linked
    <3>. QED BY <3>1, <3>2
  <2>. QED BY <1>6, <2>1, <2>5, SocketStep
<1>. QED BY <1>7, <1>8, <1>9, <1>10 DEF SessionsInv

\* The write that fails, or the pool thread that finds the manager stopped.
LEMMA WriteFailsKeeps ==
  ASSUME SessionsInv, NEW c \in Conns, NEW n \in Nodes, WriteFails(c, n)
  PROVE  SessionsInv'
<1>. USE DEF managerVars
<1>1. TypeOK /\ Queued /\ StoppedEmpty /\ RegisteredLive /\ SocketsOK
  BY DEF SessionsInv
<1>2. /\ UNCHANGED <<managerVars, link, st, rd, closing, out, wire>>
      /\ wr[c][n] = "busy" /\ wr' = [wr EXCEPT ![c][n] = "failed"]
  BY DEF WriteFails
<1>3. TypeOK'
  BY <1>1, <1>2 DEF TypeOK
<1>4. Queued'
  <2>1. /\ wr'[c][n] = "failed" /\ out'[c][n] # <<>>
        /\ \A d \in Conns : \A k \in Nodes : ~(d = c /\ k = n) =>
             out'[d][k] = out[d][k] /\ wr'[d][k] = wr[d][k]
    BY <1>1, <1>2 DEF TypeOK, Queued
  <2>. QED BY <1>1, <2>1, QueueStep
<1>5. RegisteredLive' /\ StoppedEmpty' /\ SocketsOK'
  BY <1>1, <1>2, LiveFrame, SocketsFrame
<1>. QED BY <1>3, <1>4, <1>5 DEF SessionsInv

LEMMA DropTaskKeeps ==
  ASSUME SessionsInv, NEW n \in Nodes, NEW t, DropTask(n, t)
  PROVE  SessionsInv'
<1>. USE DEF socketVars
<1>1. TypeOK /\ Queued /\ StoppedEmpty /\ RegisteredLive /\ SocketsOK
  BY DEF SessionsInv
<1>2. TypeOK'
  BY <1>1 DEF DropTask, Done, TypeOK
<1>3. UNCHANGED <<sessions, requests, stopPc, link, socketVars>>
  BY DEF DropTask
<1>. QED BY <1>1, <1>2, <1>3, LiveFrame, SocketsFrame, QueueFrame DEF SessionsInv

-----------------------------------------------------------------------------
(* Failing and closing *)

\* handle_error of a write.
LEMMA WriteErrorKeeps ==
  ASSUME SessionsInv, NEW c \in Conns, NEW n \in Nodes, Linked(c, n), HandleWriteError(c, n)
  PROVE  SessionsInv'
<1>1. TypeOK /\ Queued /\ StoppedEmpty /\ RegisteredLive /\ SocketsOK
  BY DEF SessionsInv
<1>2. PICK m \in Nodes : m = Peer(c, n)
  BY <1>1, PeerType
<1>3. /\ UNCHANGED <<requests, tasks, stopPc, link, st, rd, out, wire>>
      /\ wr[c][n] = "failed" /\ wr' = [wr EXCEPT ![c][n] = "stuck"]
      /\ sessions' = [sessions EXCEPT ![n][m] = IF Started(n) THEN None ELSE sessions[n][m]]
      /\ closing' = [closing EXCEPT ![c][n] = (st[c][n] # "closed")]
  BY <1>2 DEF HandleWriteError, Unregister, PostClose
<1>4. TypeOK'
  <2>1. closing' \in [Conns -> [Nodes -> BOOLEAN]]
    BY <1>1, <1>3 DEF TypeOK
  <2>. QED BY <1>1, <1>3, <2>1 DEF TypeOK
<1>5. Queued'
  <2>1. /\ wr'[c][n] = "stuck" /\ out'[c][n] # <<>>
        /\ \A d \in Conns : \A k \in Nodes : ~(d = c /\ k = n) =>
             out'[d][k] = out[d][k] /\ wr'[d][k] = wr[d][k]
    BY <1>1, <1>3 DEF TypeOK, Queued
  <2>. QED BY <1>1, <2>1, QueueStep
<1>6. RegisteredLive' /\ StoppedEmpty'
  <2>1. \A d \in Conns : \A k \in Nodes : ~(d = c /\ k = n) => closing'[d][k] = closing[d][k]
    BY <1>1, <1>3 DEF TypeOK
  <2>2. /\ \A k, p \in Nodes : sessions'[k][p] \in {sessions[k][p], None}
        /\ Started(n) => sessions'[n][m] = None
    BY <1>1, <1>3 DEF TypeOK
  <2>3. ~((\E p \in Nodes : sessions'[n][p] = c) /\ Started(n))
    BY <1>1, <1>2, <2>2, NoneAssumption DEF RegisteredLive
  <2>. QED BY <1>3, <2>1, <2>2, <2>3, LiveStep
<1>7. SocketsOK'
  BY <1>1, <1>3, SocketsFrame
<1>. QED BY <1>4, <1>5, <1>6, <1>7 DEF SessionsInv

\* handle_error of a read.
LEMMA ReadErrorKeeps ==
  ASSUME SessionsInv, NEW c \in Conns, NEW n \in Nodes, Linked(c, n), HandleReadError(c, n)
  PROVE  SessionsInv'
<1>1. TypeOK /\ Queued /\ StoppedEmpty /\ RegisteredLive /\ SocketsOK
  BY DEF SessionsInv
<1>2. PICK m \in Nodes : m = Peer(c, n)
  BY <1>1, PeerType
<1>3. /\ UNCHANGED <<requests, tasks, stopPc, link, st, wr, out, wire>>
      /\ rd[c][n] = "failed" /\ rd' = [rd EXCEPT ![c][n] = "none"]
      /\ sessions' = [sessions EXCEPT ![n][m] = IF Started(n) THEN None ELSE sessions[n][m]]
      /\ closing' = [closing EXCEPT ![c][n] = (st[c][n] # "closed")]
  BY <1>2 DEF HandleReadError, Unregister, PostClose
<1>4. TypeOK'
  <2>1. closing' \in [Conns -> [Nodes -> BOOLEAN]]
    BY <1>1, <1>3 DEF TypeOK
  <2>. QED BY <1>1, <1>3, <2>1 DEF TypeOK
<1>5. /\ rd'[c][n] = "none"
      /\ \A d \in Conns : \A k \in Nodes : ~(d = c /\ k = n) =>
           rd'[d][k] = rd[d][k] /\ closing'[d][k] = closing[d][k]
  BY <1>1, <1>3 DEF TypeOK
<1>6. RegisteredLive' /\ StoppedEmpty'
  <2>1. /\ \A k, p \in Nodes : sessions'[k][p] \in {sessions[k][p], None}
        /\ Started(n) => sessions'[n][m] = None
    BY <1>1, <1>3 DEF TypeOK
  <2>2. ~((\E p \in Nodes : sessions'[n][p] = c) /\ Started(n))
    BY <1>1, <1>2, <2>1, NoneAssumption DEF RegisteredLive
  <2>. QED BY <1>3, <1>5, <2>1, <2>2, LiveStep
<1>7. SocketsOK'
  <2>1. SocketAt(c, n)'
    BY <1>1, <1>3, <1>5 DEF SocketsOK, SocketAt, Linked
  <2>. QED BY <1>3, <1>5, <2>1, SocketStep
<1>8. Queued'
  BY <1>1, <1>3, QueueFrame
<1>. QED BY <1>4, <1>6, <1>7, <1>8 DEF SessionsInv

\* do_close.
LEMMA DoCloseKeeps ==
  ASSUME SessionsInv, NEW c \in Conns, NEW n \in Nodes, DoClose(c, n)
  PROVE  SessionsInv'
<1>. USE DEF managerVars
<1>1. TypeOK /\ Queued /\ StoppedEmpty /\ RegisteredLive /\ SocketsOK
  BY DEF SessionsInv
<1>2. /\ closing[c][n] /\ UNCHANGED <<managerVars, link>>
      /\ closing' = [closing EXCEPT ![c][n] = FALSE]
      /\ st' = [st EXCEPT ![c][n] = "closed"]
      /\ rd' = [rd EXCEPT ![c][n] = IF rd[c][n] = "pending" THEN "none" ELSE rd[c][n]]
      /\ wire' = [wire EXCEPT ![c][n] = IF rd[c][n] = "got" THEN <<Head(wire[c][n])>> ELSE <<>>]
      /\ out' = out
      /\ wr' = wr \/ (wr[c][n] = "busy" /\ wr' = [wr EXCEPT ![c][n] = "stuck"])
  BY DEF DoClose
<1>3. PICK w \in Seq(Messages) :
        /\ w = IF rd[c][n] = "got" THEN <<Head(wire[c][n])>> ELSE <<>>
        /\ rd[c][n] = "got" => Len(w) = 1 /\ w # <<>>
        /\ rd[c][n] # "got" => w = <<>>
  <2>1. CASE rd[c][n] = "got"
    <3>1. wire[c][n] \in Seq(Messages) /\ wire[c][n] # <<>>
      BY <1>1, <2>1 DEF TypeOK, SocketsOK, SocketAt
    <3>2. Head(wire[c][n]) \in Messages
      BY <3>1, HeadTail
    <3>. QED BY <2>1, <3>2, Singleton
  <2>2. CASE rd[c][n] # "got"
    BY <2>2, EmptySeq
  <2>. QED BY <2>1, <2>2
<1>4. TypeOK'
  <2>1. wire' \in [Conns -> [Nodes -> Seq(Messages)]]
    BY <1>1, <1>2, <1>3 DEF TypeOK
  <2>2. closing' \in [Conns -> [Nodes -> BOOLEAN]]
    BY <1>1, <1>2 DEF TypeOK
  <2>3. st' \in [Conns -> [Nodes -> {"none", "handshake", "open", "closed"}]]
    BY <1>1, <1>2 DEF TypeOK
  <2>4. rd' \in [Conns -> [Nodes -> {"none", "pending", "got", "failed", "ended"}]]
    BY <1>1, <1>2 DEF TypeOK
  <2>5. wr' \in [Conns -> [Nodes -> {"idle", "busy", "failed", "stuck"}]]
    <3>1. CASE wr' = wr
      BY <1>1, <3>1 DEF TypeOK
    <3>2. CASE wr' = [wr EXCEPT ![c][n] = "stuck"]
      BY <1>1, <3>2 DEF TypeOK
    <3>. QED BY <1>2, <3>1, <3>2
  <2>6. out' \in [Conns -> [Nodes -> Seq(Messages)]]
    BY <1>1, <1>2 DEF TypeOK
  <2>. QED BY <1>1, <1>2, <2>1, <2>2, <2>3, <2>4, <2>5, <2>6 DEF TypeOK
<1>5. /\ st'[c][n] = "closed"
      /\ rd'[c][n] = IF rd[c][n] = "pending" THEN "none" ELSE rd[c][n]
      /\ wire'[c][n] = w
      /\ \A d \in Conns : \A k \in Nodes : ~(d = c /\ k = n) =>
           /\ st'[d][k] = st[d][k] /\ rd'[d][k] = rd[d][k]
           /\ wire'[d][k] = wire[d][k] /\ closing'[d][k] = closing[d][k]
  BY <1>1, <1>2, <1>3 DEF TypeOK
<1>6. Queued'
  <2>1. CASE wr' = wr
    BY <1>1, <1>2, <2>1, QueueFrame
  <2>2. CASE wr[c][n] = "busy" /\ wr' = [wr EXCEPT ![c][n] = "stuck"]
    <3>1. /\ wr'[c][n] = "stuck" /\ out'[c][n] # <<>>
          /\ \A d \in Conns : \A k \in Nodes : ~(d = c /\ k = n) =>
               out'[d][k] = out[d][k] /\ wr'[d][k] = wr[d][k]
      BY <1>1, <1>2, <2>2 DEF TypeOK, Queued
    <3>. QED BY <1>1, <3>1, QueueStep
  <2>. QED BY <1>2, <2>1, <2>2
<1>7. RegisteredLive' /\ StoppedEmpty'
  <2>1. (\E m \in Nodes : sessions'[n][m] = c) /\ Started(n) => Oversized(c, n)
    BY <1>1, <1>2, NoneAssumption DEF RegisteredLive, Reading
  <2>2. Oversized(c, n) => Oversized(c, n)'
    BY <1>5 DEF Oversized
  <2>3. \A k, m \in Nodes : sessions'[k][m] \in {sessions[k][m], None}
    BY <1>2
  <2>4. UNCHANGED <<link, stopPc>>
    BY <1>2
  <2>. QED BY <1>5, <2>1, <2>2, <2>3, <2>4, LiveStep
<1>8. SocketsOK'
  <2>1. SocketAt(c, n)'
    <3>1. ~Linked(c, n)' => w = <<>>
      <4>1. ~Linked(c, n) => wire[c][n] = <<>>
        BY <1>1 DEF SocketsOK, SocketAt
      <4>2. rd[c][n] = "got" => wire[c][n] # <<>>
        BY <1>1 DEF SocketsOK, SocketAt
      <4>. QED BY <1>2, <1>3, <4>1, <4>2 DEF Linked
    <3>2. rd'[c][n] = "got" <=> rd[c][n] = "got"
      BY <1>5
    <3>. QED BY <1>3, <1>5, <3>1, <3>2 DEF SocketAt
  <2>. QED BY <1>2, <1>5, <2>1, SocketStep
<1>. QED BY <1>4, <1>6, <1>7, <1>8 DEF SessionsInv

-----------------------------------------------------------------------------
(* Connecting and the handshake *)

\* Nothing is on the way between the ends of a connection whose name can be used again.
LEMMA ForgottenEmpty ==
  ASSUME SessionsInv, NEW c \in Conns, Forgotten(c), NEW k \in Nodes
  PROVE  wire[c][k] = <<>>
<1>1. SocketAt(c, k)
  BY DEF SessionsInv, SocketsOK
<1>. QED BY <1>1 DEF SocketAt, Forgotten

\* A name is used again for a new connection.
LEMMA ConnectKeeps ==
  ASSUME SessionsInv, NEW c \in Conns, NEW n \in Nodes, NEW m \in Nodes,
         ConnectToServer(c, n, m)
  PROVE  SessionsInv'
<1>. USE DEF managerVars
<1>1. TypeOK /\ Queued /\ StoppedEmpty /\ RegisteredLive /\ SocketsOK
  BY DEF SessionsInv
<1>2. /\ n # m /\ Forgotten(c)
      /\ link' = [link EXCEPT ![c] = [client |-> n, server |-> m]]
      /\ st' = [st EXCEPT ![c] = [k \in Nodes |-> IF k = n THEN "handshake" ELSE "none"]]
      /\ rd' = [rd EXCEPT ![c] = [k \in Nodes |-> "none"]]
      /\ wr' = [wr EXCEPT ![c] = [k \in Nodes |-> "idle"]]
      /\ out' = [out EXCEPT ![c] = [k \in Nodes |-> <<>>]]
      /\ UNCHANGED <<managerVars, closing, wire>>
  BY DEF ConnectToServer
<1>3. TypeOK'
  <2>1. link' \in [Conns -> {l \in [client : Nodes, server : Nodes] : l.client # l.server}
                              \cup {NoLink}]
    BY <1>1, <1>2 DEF TypeOK
  <2>2. out' \in [Conns -> [Nodes -> Seq(Messages)]]
    BY <1>1, <1>2, EmptySeq DEF TypeOK
  <2>. QED BY <1>1, <1>2, <2>1, <2>2 DEF TypeOK
<1>4. \A d \in Conns : d # c => /\ link'[d] = link[d] /\ st'[d] = st[d]
                               /\ rd'[d] = rd[d] /\ wr'[d] = wr[d] /\ out'[d] = out[d]
  BY <1>1, <1>2 DEF TypeOK
<1>5. \A k \in Nodes : /\ st'[c][k] # "closed" /\ rd'[c][k] = "none"
                       /\ wr'[c][k] = "idle" /\ out'[c][k] = <<>>
  BY <1>1, <1>2 DEF TypeOK
<1>6. \A k \in Nodes : wire[c][k] = <<>>
  BY <1>2, ForgottenEmpty
<1>7. Queued'
  <2>1. ASSUME NEW d \in Conns, NEW k \in Nodes
        PROVE  out'[d][k] # <<>> <=> wr'[d][k] # "idle"
    <3>1. CASE d = c
      BY <1>5, <3>1
    <3>2. CASE d # c
      <4>1. out'[d][k] = out[d][k] /\ wr'[d][k] = wr[d][k]
        BY <1>2, <1>4, <3>2
      <4>. QED BY <1>1, <4>1 DEF Queued
    <3>. QED BY <3>1, <3>2
  <2>. QED BY <2>1 DEF Queued
<1>8. RegisteredLive' /\ StoppedEmpty'
  <2>1. StoppedEmpty'
    BY <1>1, <1>2 DEF StoppedEmpty
  <2>2. ASSUME NEW k \in Nodes, NEW p \in Nodes, NEW d,
               d = sessions'[k][p], d # None, Started(k)'
        PROVE  /\ Linked(d, k)' /\ Peer(d, k)' = p
               /\ Reading(d, k)' \/ Oversized(d, k)'
    <3>1. d = sessions[k][p] /\ Started(k) /\ d \in Conns
      BY <1>1, <1>2, <2>2 DEF Started, TypeOK
    <3>2. d # c
      BY <1>2, <3>1 DEF Forgotten
    <3>3. /\ link'[d] = link[d] /\ st'[d] = st[d] /\ rd'[d] = rd[d] /\ closing'[d] = closing[d]
      BY <1>2, <1>4, <3>1, <3>2
    <3>4. /\ Linked(d, k) /\ Peer(d, k) = p
          /\ Reading(d, k) \/ Oversized(d, k)
      BY <1>1, <2>2, <3>1 DEF RegisteredLive
    <3>. QED BY <3>3, <3>4 DEF Linked, Peer, Reading, Oversized
  <2>. QED BY <2>1, <2>2, LivePrime
<1>9. SocketsOK'
  <2>1. ASSUME NEW d \in Conns, NEW k \in Nodes PROVE SocketAt(d, k)'
    <3>1. CASE d = c
      BY <1>2, <1>5, <1>6, <3>1 DEF SocketAt
    <3>2. CASE d # c
      BY <1>1, <1>2, <1>4, <3>2 DEF SocketsOK, SocketAt, Linked
    <3>. QED BY <3>1, <3>2
  <2>. QED BY <2>1 DEF SocketsOK
<1>. QED BY <1>3, <1>7, <1>8, <1>9 DEF SessionsInv

\* on_accept.
LEMMA AcceptKeeps ==
  ASSUME SessionsInv, NEW c \in Conns, OnAccept(c)
  PROVE  SessionsInv'
<1>. USE DEF managerVars
<1>1. TypeOK /\ Queued /\ StoppedEmpty /\ RegisteredLive /\ SocketsOK
  BY DEF SessionsInv
<1>2. PICK n \in Nodes : n = link[c].server
  BY <1>1 DEF OnAccept, TypeOK
<1>3. /\ st[c][n] = "none" /\ st' = [st EXCEPT ![c][n] = "handshake"]
      /\ UNCHANGED <<managerVars, link, rd, wr, closing, out, wire>>
  BY <1>2 DEF OnAccept
<1>4. TypeOK'
  BY <1>1, <1>3 DEF TypeOK
<1>5. /\ st'[c][n] = "handshake"
      /\ \A d \in Conns : \A k \in Nodes : ~(d = c /\ k = n) => st'[d][k] = st[d][k]
  BY <1>1, <1>3 DEF TypeOK
<1>6. RegisteredLive' /\ StoppedEmpty'
  <2>1. (\E m \in Nodes : sessions'[n][m] = c) /\ Started(n) => Oversized(c, n)
    BY <1>1, <1>3, NoneAssumption DEF RegisteredLive, Reading
  <2>2. Oversized(c, n) => Oversized(c, n)'
    BY <1>3 DEF Oversized
  <2>3. \A k, m \in Nodes : sessions'[k][m] \in {sessions[k][m], None}
    BY <1>3
  <2>. QED BY <1>3, <1>5, <2>1, <2>2, <2>3, LiveStep
<1>7. SocketsOK'
  <2>1. SocketAt(c, n)'
    BY <1>1, <1>3, <1>5 DEF SocketsOK, SocketAt, Linked
  <2>. QED BY <1>3, <1>5, <2>1, SocketStep
<1>8. Queued'
  BY <1>1, <1>3, QueueFrame
<1>. QED BY <1>4, <1>6, <1>7, <1>8 DEF SessionsInv

\* finish_handshake: the session is registered and starts to read, or is closed.
LEMMA FinishKeeps ==
  ASSUME SessionsInv, NEW c \in Conns, NEW n \in Nodes, Linked(c, n), FinishHandshake(c, n)
  PROVE  SessionsInv'
<1>1. TypeOK /\ Queued /\ StoppedEmpty /\ RegisteredLive /\ SocketsOK
  BY DEF SessionsInv
<1>2. PICK m \in Nodes : m = Peer(c, n)
  BY <1>1, PeerType
<1>3. /\ st[c][n] = "handshake" /\ closing[c][n] = FALSE
      /\ st' = [st EXCEPT ![c][n] = "open"]
      /\ UNCHANGED <<requests, tasks, stopPc, link, wr, out, wire>>
  BY <1>1 DEF FinishHandshake, TypeOK
<1>4. /\ st'[c][n] = "open"
      /\ \A d \in Conns : \A k \in Nodes : ~(d = c /\ k = n) => st'[d][k] = st[d][k]
      /\ st' \in [Conns -> [Nodes -> {"none", "handshake", "open", "closed"}]]
  BY <1>1, <1>3 DEF TypeOK
<1>5. (\E p \in Nodes : sessions[n][p] = c) /\ Started(n) =>
        Oversized(c, n) /\ sessions[n][m] = c
  BY <1>1, <1>2, <1>3, NoneAssumption DEF RegisteredLive, Reading
<1>6. Queued'
  BY <1>1, <1>3, QueueFrame
<1>7. CASE Registers(n, m)
  <2>1. /\ sessions' = [sessions EXCEPT ![n][m] = c]
        /\ rd' = [rd EXCEPT ![c][n] = "pending"]
        /\ closing' = closing /\ Started(n)
    BY <1>2, <1>7 DEF FinishHandshake, Registers
  <2>2. TypeOK'
    BY <1>1, <1>3, <1>4, <2>1 DEF TypeOK
  <2>3. /\ rd'[c][n] = "pending"
        /\ \A d \in Conns : \A k \in Nodes : ~(d = c /\ k = n) => rd'[d][k] = rd[d][k]
    BY <1>1, <2>1 DEF TypeOK
  <2>4. RegisteredLive' /\ StoppedEmpty'
    <3>1. \A k, p \in Nodes : sessions'[k][p] = IF k = n /\ p = m THEN c ELSE sessions[k][p]
      BY <1>1, <2>1 DEF TypeOK
    <3>2. \A k, p \in Nodes : sessions'[k][p] \in {sessions[k][p], None} \/
            (/\ k = n /\ p = Peer(c, n) /\ sessions'[k][p] = c
             /\ Linked(c, n) /\ Started(n))
      BY <1>2, <2>1, <3>1
    <3>3. Reading(c, n)'
      BY <1>3, <1>4, <2>1, <2>3 DEF Reading
    <3>. QED BY <1>3, <1>4, <2>1, <2>3, <3>2, <3>3, LiveStep
  <2>5. SocketsOK'
    <3>1. SocketAt(c, n)'
      BY <1>3, <1>4, <2>3 DEF SocketAt, Linked
    <3>. QED BY <1>3, <1>4, <2>3, <3>1, SocketStep
  <2>. QED BY <1>6, <2>2, <2>4, <2>5 DEF SessionsInv
<1>8. CASE ~Registers(n, m)
  <2>1. closing' = [closing EXCEPT ![c][n] = TRUE] /\ UNCHANGED <<sessions, rd>>
    BY <1>2, <1>8 DEF FinishHandshake
  <2>2. TypeOK'
    BY <1>1, <1>3, <1>4, <2>1 DEF TypeOK
  <2>3. \A d \in Conns : \A k \in Nodes : ~(d = c /\ k = n) => closing'[d][k] = closing[d][k]
    BY <1>1, <2>1 DEF TypeOK
  <2>4. RegisteredLive' /\ StoppedEmpty'
    <3>1. Oversized(c, n) => Oversized(c, n)'
      BY <2>1 DEF Oversized
    <3>2. \A k, p \in Nodes : sessions'[k][p] = sessions[k][p]
      BY <2>1
    <3>3. UNCHANGED <<link, stopPc, rd, sessions>>
      BY <1>3, <2>1
    <3>. QED BY <1>4, <1>5, <2>3, <3>1, <3>2, <3>3, LiveStep
  <2>5. SocketsOK'
    <3>1. SocketAt(c, n)'
      BY <1>1, <1>3, <1>4, <2>1 DEF SocketsOK, SocketAt, Linked
    <3>. QED BY <1>3, <1>4, <2>1, <3>1, SocketStep
  <2>. QED BY <1>6, <2>2, <2>4, <2>5 DEF SessionsInv
<1>. QED BY <1>7, <1>8

LEMMA HandshakeFailsKeeps ==
  ASSUME SessionsInv, NEW c \in Conns, NEW n \in Nodes, HandshakeFails(c, n)
  PROVE  SessionsInv'
<1>. USE DEF managerVars
<1>1. TypeOK /\ Queued /\ StoppedEmpty /\ RegisteredLive /\ SocketsOK
  BY DEF SessionsInv
<1>2. /\ st[c][n] = "handshake"
      /\ closing' = [closing EXCEPT ![c][n] = TRUE]
      /\ UNCHANGED <<managerVars, link, st, rd, wr, out, wire>>
  BY DEF HandshakeFails
<1>3. TypeOK'
  BY <1>1, <1>2 DEF TypeOK
<1>4. \A d \in Conns : \A k \in Nodes : ~(d = c /\ k = n) => closing'[d][k] = closing[d][k]
  BY <1>1, <1>2 DEF TypeOK
<1>5. RegisteredLive' /\ StoppedEmpty'
  <2>1. (\E m \in Nodes : sessions'[n][m] = c) /\ Started(n) => Oversized(c, n)
    BY <1>1, <1>2, NoneAssumption DEF RegisteredLive, Reading
  <2>2. Oversized(c, n) => Oversized(c, n)'
    BY <1>2 DEF Oversized
  <2>3. \A k, p \in Nodes : sessions'[k][p] \in {sessions[k][p], None}
    BY <1>2
  <2>4. UNCHANGED <<link, stopPc, st, rd>>
    BY <1>2
  <2>. QED BY <1>4, <2>1, <2>2, <2>3, <2>4, LiveStep
<1>6. Queued' /\ SocketsOK'
  BY <1>1, <1>2, QueueFrame, SocketsFrame
<1>. QED BY <1>3, <1>5, <1>6 DEF SessionsInv

-----------------------------------------------------------------------------
(* Reading *)

\* A message has arrived, or the connection is gone.
LEMMA ReadsKeep ==
  ASSUME SessionsInv, NEW c \in Conns, NEW n \in Nodes, OnRead(c, n) \/ ReadFails(c, n)
  PROVE  SessionsInv'
<1>. USE DEF managerVars
<1>1. TypeOK /\ Queued /\ StoppedEmpty /\ RegisteredLive /\ SocketsOK
  BY DEF SessionsInv
<1>2. UNCHANGED <<managerVars, link, st, wr, out, wire>> /\ rd[c][n] = "pending"
  BY DEF OnRead, ReadFails
<1>3. PICK r \in {"ended", "got", "failed"} :
        /\ rd' = [rd EXCEPT ![c][n] = r]
        /\ r = "got" => wire[c][n] # <<>>
        /\ r = "ended" => closing' = [closing EXCEPT ![c][n] = TRUE]
        /\ r # "ended" => closing' = closing
  BY DEF OnRead, ReadFails
<1>4. closing' \in [Conns -> [Nodes -> BOOLEAN]]
  <2>1. CASE r = "ended"
    <3>1. closing' = [closing EXCEPT ![c][n] = TRUE]
      BY <1>3, <2>1
    <3>. QED BY <1>1, <3>1 DEF TypeOK
  <2>2. CASE r # "ended"
    BY <1>1, <1>3, <2>2 DEF TypeOK
  <2>. QED BY <2>1, <2>2
<1>5. TypeOK'
  BY <1>1, <1>2, <1>3, <1>4 DEF TypeOK
<1>6. \A d \in Conns : \A k \in Nodes : ~(d = c /\ k = n) => closing'[d][k] = closing[d][k]
  <2>1. CASE r = "ended"
    BY <1>1, <1>3, <2>1 DEF TypeOK
  <2>2. CASE r # "ended"
    BY <1>1, <1>3, <2>2 DEF TypeOK
  <2>. QED BY <2>1, <2>2
<1>7. /\ rd'[c][n] = r
      /\ \A d \in Conns : \A k \in Nodes : ~(d = c /\ k = n) => rd'[d][k] = rd[d][k]
  BY <1>1, <1>3 DEF TypeOK
<1>8. RegisteredLive' /\ StoppedEmpty'
  <2>1. UNCHANGED <<link, stopPc, st, sessions>>
    BY <1>2
  <2>2. \A k, p \in Nodes : sessions'[k][p] \in {sessions[k][p], None}
    BY <2>1
  <2>3. ASSUME (\E m \in Nodes : sessions'[n][m] = c) /\ Started(n)
        PROVE  Reading(c, n)' \/ Oversized(c, n)'
    <3>1. CASE r = "ended"
      BY <1>7, <3>1 DEF Oversized
    <3>2. CASE r # "ended"
      <4>1. Reading(c, n)
        BY <1>1, <1>2, <2>1, <2>3, NoneAssumption DEF RegisteredLive, Oversized
      <4>2. closing' = closing
        BY <1>3, <3>2
      <4>. QED BY <1>7, <2>1, <3>2, <4>1, <4>2 DEF Reading
    <3>. QED BY <3>1, <3>2
  <2>. QED BY <1>6, <1>7, <2>1, <2>2, <2>3, LiveStep
<1>9. SocketsOK'
  <2>1. SocketAt(c, n)'
    BY <1>1, <1>2, <1>3, <1>7 DEF SocketsOK, SocketAt, Linked
  <2>. QED BY <1>2, <1>7, <2>1, SocketStep
<1>10. Queued'
  BY <1>1, <1>2, QueueFrame
<1>. QED BY <1>5, <1>8, <1>9, <1>10 DEF SessionsInv

\* asyncHandleMessage hands the message to the pool.
LEMMA AsyncKeeps ==
  ASSUME SessionsInv, NEW c \in Conns, NEW n \in Nodes, Linked(c, n), AsyncHandleMessage(c, n)
  PROVE  SessionsInv'
<1>1. TypeOK /\ Queued /\ StoppedEmpty /\ RegisteredLive /\ SocketsOK
  BY DEF SessionsInv
<1>2. PICK m \in Nodes : m = Peer(c, n)
  BY <1>1, PeerType
<1>3. /\ rd[c][n] = "got"
      /\ tasks' = [tasks EXCEPT ![n] = tasks[n] \cup {[from |-> m, msg |-> Head(wire[c][n])]}]
      /\ wire' = [wire EXCEPT ![c][n] = Tail(wire[c][n])]
      /\ rd' = [rd EXCEPT ![c][n] = IF st[c][n] = "closed" THEN "failed" ELSE "pending"]
      /\ UNCHANGED <<sessions, requests, stopPc, link, st, wr, closing, out>>
  BY <1>2 DEF AsyncHandleMessage
<1>4. SocketAt(c, n) /\ wire[c][n] \in Seq(Messages) /\ wire[c][n] # <<>>
  BY <1>1, <1>3 DEF TypeOK, SocketsOK, SocketAt
<1>5. /\ Head(wire[c][n]) \in Messages /\ Tail(wire[c][n]) \in Seq(Messages)
      /\ Tail(wire[c][n]) = <<>> <=> Len(wire[c][n]) = 1
  BY <1>4, HeadTail
<1>6. TypeOK'
  BY <1>1, <1>3, <1>5 DEF TypeOK
<1>7. /\ rd'[c][n] = IF st[c][n] = "closed" THEN "failed" ELSE "pending"
      /\ wire'[c][n] = Tail(wire[c][n])
      /\ \A d \in Conns : \A k \in Nodes : ~(d = c /\ k = n) =>
           rd'[d][k] = rd[d][k] /\ wire'[d][k] = wire[d][k]
  BY <1>1, <1>3 DEF TypeOK
<1>8. RegisteredLive' /\ StoppedEmpty'
  <2>1. \A k, p \in Nodes : sessions'[k][p] \in {sessions[k][p], None}
    BY <1>3
  <2>2. ASSUME (\E p \in Nodes : sessions'[n][p] = c) /\ Started(n)
        PROVE  Reading(c, n)'
    <3>1. Reading(c, n)
      BY <1>1, <1>3, <2>2, NoneAssumption DEF RegisteredLive, Oversized
    <3>. QED BY <1>3, <1>7, <3>1 DEF Reading
  <2>. QED BY <1>3, <1>7, <2>1, <2>2, LiveStep
<1>9. SocketsOK'
  <2>1. Linked(c, n)'
    BY <1>3 DEF Linked
  <2>2. st[c][n] = "closed" => Tail(wire[c][n]) = <<>>
    BY <1>4, <1>5 DEF SocketAt
  <2>3. SocketAt(c, n)'
    <3>1. rd'[c][n] # "got" /\ (st[c][n] = "closed" => rd'[c][n] # "pending")
      BY <1>7
    <3>2. st'[c][n] = st[c][n]
      BY <1>3
    <3>. QED BY <1>7, <2>1, <2>2, <3>1, <3>2 DEF SocketAt
  <2>. QED BY <1>3, <1>7, <2>3, SocketStep
<1>10. Queued'
  BY <1>1, <1>3, QueueFrame
<1>. QED BY <1>6, <1>8, <1>9, <1>10 DEF SessionsInv

-----------------------------------------------------------------------------
(* The pool and the stop *)

\* disconnectSessionInternal closes what it unregisters.
LEMMA DisconnectKeeps ==
  ASSUME SessionsInv, NEW n \in Nodes, NEW m \in Nodes, Started(n),
         DisconnectSession(n, m), UNCHANGED <<link, stopPc, st, rd>>
  PROVE  /\ RegisteredLive' /\ StoppedEmpty'
         /\ sessions' \in [Nodes -> [Nodes -> Conns \cup {None}]]
         /\ closing' \in [Conns -> [Nodes -> BOOLEAN]]
<1>1. TypeOK /\ StoppedEmpty /\ RegisteredLive
  BY DEF SessionsInv
<1>2. CASE sessions[n][m] = None
  <2>1. UNCHANGED <<sessions, closing>>
    BY <1>2 DEF DisconnectSession
  <2>. QED BY <1>1, <2>1, LiveFrame DEF TypeOK
<1>3. CASE sessions[n][m] # None
  <2>1. PICK c \in Conns : c = sessions[n][m]
    BY <1>1, <1>3 DEF TypeOK
  <2>2. /\ closing' = [closing EXCEPT ![c][n] = (st[c][n] # "closed")]
        /\ sessions' = [sessions EXCEPT ![n][m] = None]
    BY <1>3, <2>1 DEF DisconnectSession, PostClose
  <2>3. /\ closing' \in [Conns -> [Nodes -> BOOLEAN]]
        /\ \A d \in Conns : \A k \in Nodes : ~(d = c /\ k = n) => closing'[d][k] = closing[d][k]
    BY <1>1, <2>2 DEF TypeOK
  <2>4. /\ sessions' \in [Nodes -> [Nodes -> Conns \cup {None}]]
        /\ \A k, p \in Nodes : sessions'[k][p] = IF k = n /\ p = m THEN None ELSE sessions[k][p]
    BY <1>1, <2>2 DEF TypeOK
  <2>5. \A k, p \in Nodes : sessions'[k][p] \in {sessions[k][p], None}
    BY <2>4
  <2>6. ~(\E p \in Nodes : sessions'[n][p] = c)
    <3>1. ASSUME NEW p \in Nodes, sessions[n][p] = c PROVE p = m
      BY <1>1, <2>1, <3>1, NoneAssumption DEF RegisteredLive
    <3>. QED BY <2>4, <3>1, NoneAssumption
  <2>. QED BY <2>3, <2>4, <2>5, <2>6, LiveStep
<1>. QED BY <1>2, <1>3

\* handleAnswer, and handleBroadcast of what it refuses.
LEMMA PoolKeeps ==
  ASSUME SessionsInv, NEW n \in Nodes, NEW t \in tasks[n],
         HandleAnswer(n, t) \/ HandleRefused(n, t)
  PROVE  SessionsInv'
<1>1. TypeOK /\ Queued /\ StoppedEmpty /\ RegisteredLive /\ SocketsOK
  BY DEF SessionsInv
<1>2. t.from \in Nodes /\ t.msg.id \in Ids
  BY <1>1 DEF TypeOK, Messages
<1>3. /\ UNCHANGED <<stopPc, link, st, rd, wr, out, wire>>
      /\ Started(n) /\ tasks' = [tasks EXCEPT ![n] = tasks[n] \ {t}]
  BY DEF HandleAnswer, HandleRefused, Done
<1>4. requests' \in [Nodes -> [Ids -> {"unused", "sent", "answered", "broadcast"}]]
  <2>1. PICK id \in Ids : id = t.msg.id
    BY <1>2
  <2>2. requests' = requests \/ requests' = [requests EXCEPT ![n][id] = "answered"]
    BY <2>1 DEF HandleAnswer, HandleRefused
  <2>3. CASE requests' = requests
    BY <1>1, <2>3 DEF TypeOK
  <2>4. CASE requests' = [requests EXCEPT ![n][id] = "answered"]
    BY <1>1, <2>4 DEF TypeOK
  <2>. QED BY <2>2, <2>3, <2>4
<1>5. DisconnectSession(n, t.from) \/ UNCHANGED <<sessions, closing>>
  BY DEF HandleAnswer, HandleRefused
<1>6. /\ RegisteredLive' /\ StoppedEmpty'
      /\ sessions' \in [Nodes -> [Nodes -> Conns \cup {None}]]
      /\ closing' \in [Conns -> [Nodes -> BOOLEAN]]
  <2>1. CASE DisconnectSession(n, t.from)
    BY <1>2, <1>3, <2>1, DisconnectKeeps
  <2>2. CASE UNCHANGED <<sessions, closing>>
    BY <1>1, <1>3, <2>2, LiveFrame DEF TypeOK
  <2>. QED BY <1>5, <2>1, <2>2
<1>7. TypeOK'
  BY <1>1, <1>3, <1>4, <1>6 DEF TypeOK
<1>8. Queued' /\ SocketsOK'
  BY <1>1, <1>3, QueueFrame, SocketsFrame
<1>. QED BY <1>6, <1>7, <1>8 DEF SessionsInv

\* stop() takes stateMutex_.
LEMMA StopBeginKeeps ==
  ASSUME SessionsInv, NEW n \in Nodes, StopBegin(n)
  PROVE  SessionsInv'
<1>. USE DEF socketVars
<1>1. TypeOK /\ Queued /\ StoppedEmpty /\ RegisteredLive /\ SocketsOK
  BY DEF SessionsInv
<1>2. /\ stopPc' = [stopPc EXCEPT ![n] = "clear"]
      /\ UNCHANGED <<sessions, requests, tasks, link, socketVars>>
  BY DEF StopBegin
<1>3. TypeOK' /\ \A k \in Nodes : stopPc'[k] \in {stopPc[k], "clear"}
  BY <1>1, <1>2 DEF TypeOK
<1>. QED BY <1>1, <1>2, <1>3, LiveFrame, SocketsFrame, QueueFrame DEF SessionsInv

\* A node that is not running any more: what the others have registered stays.
LEMMA StoppedFrame ==
  ASSUME SessionsInv, NEW n \in Nodes, UNCHANGED link, stopPc'[n] \in {"join", "down"},
         \A m \in Nodes : sessions'[n][m] = None,
         \A k \in Nodes \ {n} : stopPc'[k] = stopPc[k] /\ sessions'[k] = sessions[k],
         \A d \in Conns : \A k \in Nodes \ {n} :
           st'[d][k] = st[d][k] /\ rd'[d][k] = rd[d][k] /\ closing'[d][k] = closing[d][k]
  PROVE  RegisteredLive' /\ StoppedEmpty'
<1>1. StoppedEmpty'
  BY DEF SessionsInv, StoppedEmpty
<1>2. ASSUME NEW k \in Nodes, NEW p \in Nodes, NEW d,
             d = sessions'[k][p], d # None, Started(k)'
      PROVE  /\ Linked(d, k)' /\ Peer(d, k)' = p
             /\ Reading(d, k)' \/ Oversized(d, k)'
  <2>1. k # n
    BY <1>2
  <2>2. d = sessions[k][p] /\ Started(k) /\ d \in Conns
    BY <1>2, <2>1 DEF SessionsInv, Started, TypeOK
  <2>3. /\ Linked(d, k) /\ Peer(d, k) = p
        /\ Reading(d, k) \/ Oversized(d, k)
    BY <1>2, <2>2 DEF SessionsInv, RegisteredLive
  <2>4. st'[d][k] = st[d][k] /\ rd'[d][k] = rd[d][k] /\ closing'[d][k] = closing[d][k]
    BY <2>1, <2>2
  <2>. QED BY <2>3, <2>4 DEF Linked, Peer, Reading, Oversized
<1>. QED BY <1>1, <1>2, LivePrime

LEMMA StopClearKeeps ==
  ASSUME SessionsInv, NEW n \in Nodes, StopClear(n)
  PROVE  SessionsInv'
<1>1. TypeOK /\ Queued /\ StoppedEmpty /\ RegisteredLive /\ SocketsOK
  BY DEF SessionsInv
<1>2. /\ stopPc' = [stopPc EXCEPT ![n] = "join"]
      /\ sessions' = [sessions EXCEPT ![n] = [m \in Nodes |-> None]]
      /\ UNCHANGED <<requests, tasks, link, st, rd, wr, out, wire>>
  BY DEF StopClear
<1>3. closing' = [c \in Conns |->
        [closing[c] EXCEPT ![n] =
           closing[c][n] \/ (\E m \in Nodes : sessions[n][m] = c /\ st[c][n] # "closed")]]
  BY DEF StopClear
<1>4. /\ closing' \in [Conns -> [Nodes -> BOOLEAN]]
      /\ \A d \in Conns : \A k \in Nodes \ {n} : closing'[d][k] = closing[d][k]
  BY <1>1, <1>3 DEF TypeOK
<1>5. TypeOK'
  BY <1>1, <1>2, <1>4 DEF TypeOK
<1>6. RegisteredLive' /\ StoppedEmpty'
  <2>1. /\ stopPc'[n] = "join" /\ \A m \in Nodes : sessions'[n][m] = None
        /\ \A k \in Nodes \ {n} : stopPc'[k] = stopPc[k] /\ sessions'[k] = sessions[k]
    BY <1>1, <1>2 DEF TypeOK
  <2>. QED BY <1>2, <1>4, <2>1, StoppedFrame
<1>7. Queued' /\ SocketsOK'
  BY <1>1, <1>2, QueueFrame, SocketsFrame
<1>. QED BY <1>5, <1>6, <1>7 DEF SessionsInv

LEMMA StopJoinKeeps ==
  ASSUME SessionsInv, NEW n \in Nodes, StopJoin(n)
  PROVE  SessionsInv'
<1>1. TypeOK /\ Queued /\ StoppedEmpty /\ RegisteredLive /\ SocketsOK
  BY DEF SessionsInv
<1>2. /\ stopPc[n] = "join" /\ stopPc' = [stopPc EXCEPT ![n] = "down"]
      /\ UNCHANGED <<sessions, requests, tasks, link>>
  BY DEF StopJoin
<1>3. /\ st' \in [Conns -> [Nodes -> {"none", "handshake", "open", "closed"}]]
      /\ \A d \in Conns : \A k \in Nodes \ {n} : st'[d][k] = st[d][k]
  BY <1>1 DEF StopJoin, TypeOK
<1>4. /\ rd' \in [Conns -> [Nodes -> {"none", "pending", "got", "failed", "ended"}]]
      /\ \A d \in Conns : rd'[d][n] = "none"
      /\ \A d \in Conns : \A k \in Nodes \ {n} : rd'[d][k] = rd[d][k]
  BY <1>1 DEF StopJoin, TypeOK
<1>5. /\ wr' \in [Conns -> [Nodes -> {"idle", "busy", "failed", "stuck"}]]
      /\ \A d \in Conns : wr'[d][n] = "idle"
      /\ \A d \in Conns : \A k \in Nodes \ {n} : wr'[d][k] = wr[d][k]
  BY <1>1 DEF StopJoin, TypeOK
<1>6. /\ closing' \in [Conns -> [Nodes -> BOOLEAN]]
      /\ \A d \in Conns : \A k \in Nodes \ {n} : closing'[d][k] = closing[d][k]
  BY <1>1 DEF StopJoin, TypeOK
<1>7. /\ out' \in [Conns -> [Nodes -> Seq(Messages)]]
      /\ \A d \in Conns : out'[d][n] = <<>>
      /\ \A d \in Conns : \A k \in Nodes \ {n} : out'[d][k] = out[d][k]
  BY <1>1, EmptySeq DEF StopJoin, TypeOK
<1>8. /\ wire' \in [Conns -> [Nodes -> Seq(Messages)]]
      /\ \A d \in Conns : wire'[d][n] = <<>>
      /\ \A d \in Conns : \A k \in Nodes \ {n} : wire'[d][k] = wire[d][k]
  BY <1>1, EmptySeq DEF StopJoin, TypeOK
<1>9. TypeOK'
  BY <1>1, <1>2, <1>3, <1>4, <1>5, <1>6, <1>7, <1>8 DEF TypeOK
<1>10. Queued'
  <2>1. ASSUME NEW d \in Conns, NEW k \in Nodes
        PROVE  out'[d][k] # <<>> <=> wr'[d][k] # "idle"
    <3>1. CASE k = n
      BY <1>5, <1>7, <3>1
    <3>2. CASE k # n
      <4>1. out'[d][k] = out[d][k] /\ wr'[d][k] = wr[d][k]
        BY <1>5, <1>7, <3>2
      <4>. QED BY <1>1, <4>1 DEF Queued
    <3>. QED BY <3>1, <3>2
  <2>. QED BY <2>1 DEF Queued
<1>11. RegisteredLive' /\ StoppedEmpty'
  <2>1. /\ stopPc'[n] = "down"
        /\ \A k \in Nodes \ {n} : stopPc'[k] = stopPc[k] /\ sessions'[k] = sessions[k]
    BY <1>1, <1>2 DEF TypeOK
  <2>2. \A m \in Nodes : sessions'[n][m] = None
    BY <1>1, <1>2 DEF StoppedEmpty
  <2>. QED BY <1>2, <1>3, <1>4, <1>6, <2>1, <2>2, StoppedFrame
<1>12. SocketsOK'
  <2>1. ASSUME NEW d \in Conns, NEW k \in Nodes PROVE SocketAt(d, k)'
    <3>1. CASE k = n
      BY <1>4, <1>8, <3>1 DEF SocketAt
    <3>2. CASE k # n
      <4>1. SocketAt(d, k)
        BY <1>1 DEF SocketsOK
      <4>2. st'[d][k] = st[d][k] /\ rd'[d][k] = rd[d][k] /\ wire'[d][k] = wire[d][k]
        BY <1>3, <1>4, <1>8, <3>2
      <4>. QED BY <1>2, <4>1, <4>2 DEF SocketAt, Linked
    <3>. QED BY <3>1, <3>2
  <2>. QED BY <2>1 DEF SocketsOK
<1>. QED BY <1>9, <1>10, <1>11, <1>12 DEF SessionsInv

-----------------------------------------------------------------------------
(* The sessions *)

LEMMA InitSessions == Init => SessionsInv
<1>. SUFFICES ASSUME Init PROVE SessionsInv
  OBVIOUS
<1>1. TypeOK
  BY EmptySeq DEF Init, TypeOK
<1>2. Queued /\ StoppedEmpty /\ RegisteredLive /\ SocketsOK
  BY DEF Init, Queued, StoppedEmpty, RegisteredLive, SocketsOK, SocketAt
<1>. QED BY <1>1, <1>2 DEF SessionsInv

\* Every step of the network keeps the sessions in order.
LEMMA NextSessions == SessionsInv /\ [Next]_vars => SessionsInv'
<1>. SUFFICES ASSUME SessionsInv, [Next]_vars PROVE SessionsInv'
  OBVIOUS
<1>1. CASE UNCHANGED vars
  <2>. USE <1>1 DEF vars, managerVars, socketVars
  <2>1. TypeOK'
    BY DEF SessionsInv, TypeOK
  <2>. QED BY <2>1, LiveFrame, SocketsFrame, QueueFrame DEF SessionsInv
<1>2. ASSUME NEW n \in Callers, NEW m \in Nodes, CallerStep(n, m) PROVE SessionsInv'
  <2>1. n \in Nodes
    BY SubsetsAssumption
  <2>. QED BY <1>2, <2>1, ConnectKeeps, SendersKeep DEF CallerStep
<1>3. ASSUME NEW n \in Nodes, PoolStep(n) PROVE SessionsInv'
  BY <1>3, DropTaskKeeps, HandleRequestKeeps, PoolKeeps DEF PoolStep
<1>4. ASSUME NEW n \in Nodes, StopBegin(n) \/ StopStep(n) PROVE SessionsInv'
  BY <1>4, StopBeginKeeps, StopClearKeeps, StopJoinKeeps DEF StopStep
<1>5. ASSUME NEW c \in Conns, OnAccept(c) PROVE SessionsInv'
  BY <1>5, AcceptKeeps
<1>6. ASSUME NEW c \in Conns, NEW n \in Nodes, EndStep(c, n) PROVE SessionsInv'
  <2>1. CASE HandshakeStep(c, n)
    BY <1>6, <2>1, FinishKeeps, HandshakeFailsKeeps DEF EndStep, HandshakeStep
  <2>2. CASE ReadStep(c, n)
    BY <1>6, <2>2, ReadsKeep, AsyncKeeps, ReadErrorKeeps DEF EndStep, ReadStep
  <2>3. CASE WriteStep(c, n)
    BY <1>6, <2>3, WriteDoneKeeps, WriteFailsKeeps, WriteErrorKeeps DEF EndStep, WriteStep
  <2>4. CASE DoClose(c, n)
    BY <2>4, DoCloseKeeps
  <2>. QED BY <1>6, <2>1, <2>2, <2>3, <2>4 DEF EndStep
<1>. QED BY <1>1, <1>2, <1>3, <1>4, <1>5, <1>6 DEF Next

\* The invariant of the sessions: what the two ends of a connection, their queues and
\* the tables of sessions know of each other, at every step of a callback or of stop().
THEOREM SessionsInvariance == Spec => []SessionsInv
BY InitSessions, NextSessions, PTL DEF Spec

\* Type correctness, for any number of nodes and connections.
THEOREM TypeCorrect == Spec => []TypeOK
<1>1. SessionsInv => TypeOK
  BY DEF SessionsInv
<1>. QED BY <1>1, SessionsInvariance, PTL

\* Whatever sessions_ of a running node holds is a session with that very node that
\* still reads: its failure will be noticed.
THEOREM SessionsAlive == Spec => []RegisteredLive
<1>1. SessionsInv => RegisteredLive
  BY DEF SessionsInv
<1>. QED BY <1>1, SessionsInvariance, PTL

\* No session is registered after stop() has erased them.
THEOREM StopIsFinal == Spec => []StoppedEmpty
<1>1. SessionsInv => StoppedEmpty
  BY DEF SessionsInv
<1>. QED BY <1>1, SessionsInvariance, PTL

\* A session with a write that will not go on is closed, or about to be.
Shut(c, n) == closing[c][n] \/ st[c][n] = "closed"
StuckClosed == \A c \in Conns : \A n \in Nodes : wr[c][n] = "stuck" => Shut(c, n)

LEMMA StuckStep ==
  ASSUME StuckClosed,
         \A d \in Conns : \A k \in Nodes : wr'[d][k] = "stuck" =>
           Shut(d, k)' \/ (wr[d][k] = "stuck" /\ (Shut(d, k) => Shut(d, k)'))
  PROVE  StuckClosed'
BY DEF StuckClosed

LEMMA StuckWrite ==
  ASSUME TypeOK, NEW n \in Nodes, NEW c \in Conns \cup {None}, NEW msg, Write(c, n, msg),
         NEW d \in Conns, NEW k \in Nodes, wr'[d][k] = "stuck"
  PROVE  wr[d][k] = "stuck"
<1>1. CASE c = None
  BY <1>1 DEF Write
<1>2. CASE c # None
  <2>1. wr' = [wr EXCEPT ![c][n] = IF wr[c][n] = "idle" THEN "busy" ELSE wr[c][n]]
    BY <1>2 DEF Write
  <2>. QED BY <1>2, <2>1 DEF TypeOK
<1>. QED BY <1>1, <1>2

\* Session::close: if the socket is not closed yet it will be.
LEMMA PostCloseShuts ==
  ASSUME TypeOK, NEW c \in Conns, NEW n \in Nodes, PostClose(c, n), UNCHANGED st
  PROVE  /\ Shut(c, n)'
         /\ \A d \in Conns : \A k \in Nodes : Shut(d, k) => Shut(d, k)'
<1>1. closing' = [closing EXCEPT ![c][n] = (st[c][n] # "closed")]
  BY DEF PostClose
<1>2. Shut(c, n)'
  BY <1>1 DEF Shut, TypeOK
<1>3. ASSUME NEW d \in Conns, NEW k \in Nodes, Shut(d, k) PROVE Shut(d, k)'
  <2>1. CASE d = c /\ k = n
    BY <1>2, <2>1
  <2>2. CASE ~(d = c /\ k = n)
    <3>1. closing'[d][k] = closing[d][k]
      BY <1>1, <2>2 DEF TypeOK
    <3>. QED BY <1>3, <3>1 DEF Shut
  <2>. QED BY <2>1, <2>2
<1>. QED BY <1>2, <1>3

LEMMA StuckEnd ==
  ASSUME TypeOK, StuckClosed, NEW c \in Conns, NEW n \in Nodes, EndStep(c, n)
  PROVE  StuckClosed'
<1>. USE DEF managerVars
<1>1. CASE FinishHandshake(c, n)
  <2>1. /\ st[c][n] = "handshake" /\ closing[c][n] = FALSE
        /\ st' = [st EXCEPT ![c][n] = "open"] /\ wr' = wr
        /\ closing' = closing \/ closing' = [closing EXCEPT ![c][n] = TRUE]
    BY <1>1 DEF FinishHandshake, TypeOK
  <2>2. wr[c][n] # "stuck"
    BY <2>1 DEF StuckClosed, Shut
  <2>3. ASSUME NEW d \in Conns, NEW k \in Nodes, ~(d = c /\ k = n), Shut(d, k)
        PROVE  Shut(d, k)'
    <3>1. st'[d][k] = st[d][k]
      BY <2>1, <2>3 DEF TypeOK
    <3>2. closing'[d][k] = closing[d][k]
      BY <2>1, <2>3 DEF TypeOK
    <3>. QED BY <2>3, <3>1, <3>2 DEF Shut
  <2>. QED BY <2>1, <2>2, <2>3, StuckStep
<1>2. CASE HandshakeFails(c, n) \/ OnRead(c, n)
  <2>1. /\ UNCHANGED <<st, wr>>
        /\ closing' = closing \/ closing' = [closing EXCEPT ![c][n] = TRUE]
    BY <1>2 DEF HandshakeFails, OnRead
  <2>2. ASSUME NEW d \in Conns, NEW k \in Nodes, Shut(d, k) PROVE Shut(d, k)'
    <3>1. CASE closing' = closing
      BY <2>1, <2>2, <3>1 DEF Shut
    <3>2. CASE closing' = [closing EXCEPT ![c][n] = TRUE]
      <4>1. closing'[d][k] = IF d = c /\ k = n THEN TRUE ELSE closing[d][k]
        BY <3>2 DEF TypeOK
      <4>. QED BY <2>1, <2>2, <4>1 DEF Shut
    <3>. QED BY <2>1, <3>1, <3>2
  <2>. QED BY <2>1, <2>2, StuckStep
<1>3. CASE AsyncHandleMessage(c, n) \/ ReadFails(c, n)
  BY <1>3 DEF AsyncHandleMessage, ReadFails, StuckClosed, Shut
<1>4. CASE HandleReadError(c, n)
  <2>1. PostClose(c, n) /\ UNCHANGED <<st, wr>>
    BY <1>4 DEF HandleReadError
  <2>. QED BY <2>1, PostCloseShuts, StuckStep
<1>5. CASE HandleWriteError(c, n)
  <2>1. PostClose(c, n) /\ UNCHANGED st /\ wr' = [wr EXCEPT ![c][n] = "stuck"]
    BY <1>5 DEF HandleWriteError
  <2>2. \A d \in Conns : \A k \in Nodes : ~(d = c /\ k = n) => wr'[d][k] = wr[d][k]
    BY <2>1 DEF TypeOK
  <2>. QED BY <2>1, <2>2, PostCloseShuts, StuckStep
<1>6. CASE WriteDone(c, n) \/ WriteFails(c, n)
  <2>1. /\ UNCHANGED <<st, closing>> /\ wr[c][n] = "busy"
        /\ \E x \in {"idle", "busy", "failed"} : wr' = [wr EXCEPT ![c][n] = x]
    BY <1>6 DEF WriteDone, WriteFails
  <2>2. \A d \in Conns : \A k \in Nodes : wr'[d][k] = "stuck" => wr[d][k] = "stuck"
    BY <2>1 DEF TypeOK
  <2>3. \A d \in Conns : \A k \in Nodes : Shut(d, k) => Shut(d, k)'
    BY <2>1 DEF Shut
  <2>. QED BY <2>2, <2>3, StuckStep
<1>7. CASE DoClose(c, n)
  <2>1. /\ closing' = [closing EXCEPT ![c][n] = FALSE]
        /\ st' = [st EXCEPT ![c][n] = "closed"]
        /\ wr' = wr \/ wr' = [wr EXCEPT ![c][n] = "stuck"]
    BY <1>7 DEF DoClose
  <2>2. Shut(c, n)'
    BY <2>1 DEF Shut, TypeOK
  <2>3. ASSUME NEW d \in Conns, NEW k \in Nodes, ~(d = c /\ k = n)
        PROVE  wr'[d][k] = wr[d][k] /\ (Shut(d, k) => Shut(d, k)')
    <3>1. st'[d][k] = st[d][k] /\ wr'[d][k] = wr[d][k]
      BY <2>1, <2>3 DEF TypeOK
    <3>2. closing'[d][k] = closing[d][k]
      BY <2>1, <2>3 DEF TypeOK
    <3>. QED BY <3>1, <3>2 DEF Shut
  <2>. QED BY <2>2, <2>3, StuckStep
<1>. QED BY <1>1, <1>2, <1>3, <1>4, <1>5, <1>6, <1>7
     DEF EndStep, HandshakeStep, ReadStep, WriteStep

LEMMA StuckPool ==
  ASSUME TypeOK, StuckClosed, NEW n \in Nodes, PoolStep(n)
  PROVE  StuckClosed'
<1>. USE DEF socketVars
<1>1. PICK t \in tasks[n] :
        DropTask(n, t) \/ HandleRequest(n, t) \/ HandleAnswer(n, t) \/ HandleRefused(n, t)
  BY DEF PoolStep
<1>2. t.from \in Nodes
  BY DEF TypeOK
<1>3. CASE DropTask(n, t)
  BY <1>3 DEF DropTask, StuckClosed, Shut
<1>4. CASE HandleRequest(n, t)
  <2>1. PICK c \in Conns \cup {None} : c = sessions[n][t.from]
    BY <1>2 DEF TypeOK
  <2>2. PICK msg : Write(c, n, msg)
    BY <1>4, <2>1 DEF HandleRequest
  <2>3. UNCHANGED <<st, closing>>
    BY <1>4 DEF HandleRequest
  <2>4. \A d \in Conns : \A k \in Nodes : Shut(d, k) => Shut(d, k)'
    BY <2>3 DEF Shut
  <2>. QED BY <2>2, <2>4, StuckWrite, StuckStep
<1>5. CASE HandleAnswer(n, t) \/ HandleRefused(n, t)
  <2>1. UNCHANGED <<st, wr>> /\ (DisconnectSession(n, t.from) \/ UNCHANGED closing)
    BY <1>5 DEF HandleAnswer, HandleRefused
  <2>2. CASE UNCHANGED closing
    BY <2>1, <2>2 DEF StuckClosed, Shut
  <2>3. CASE sessions[n][t.from] # None /\ DisconnectSession(n, t.from)
    <3>1. PICK c \in Conns : c = sessions[n][t.from]
      BY <1>2, <2>3 DEF TypeOK
    <3>2. PostClose(c, n)
      BY <2>3, <3>1 DEF DisconnectSession
    <3>. QED BY <2>1, <3>2, PostCloseShuts, StuckStep
  <2>. QED BY <2>1, <2>2, <2>3 DEF DisconnectSession
<1>. QED BY <1>1, <1>3, <1>4, <1>5

LEMMA StuckCaller ==
  ASSUME TypeOK, StuckClosed, NEW n \in Nodes, NEW m \in Nodes, CallerStep(n, m)
  PROVE  StuckClosed'
<1>. USE DEF managerVars
<1>1. ASSUME NEW c \in Conns, ConnectToServer(c, n, m) PROVE StuckClosed'
  <2>1. /\ st' = [st EXCEPT ![c] = [k \in Nodes |-> IF k = n THEN "handshake" ELSE "none"]]
        /\ wr' = [wr EXCEPT ![c] = [k \in Nodes |-> "idle"]]
        /\ UNCHANGED closing
    BY <1>1 DEF ConnectToServer
  <2>2. /\ \A k \in Nodes : wr'[c][k] = "idle"
        /\ \A d \in Conns : d # c => wr'[d] = wr[d] /\ st'[d] = st[d]
    BY <2>1 DEF TypeOK
  <2>3. \A d \in Conns : \A k \in Nodes : d # c => (Shut(d, k) => Shut(d, k)')
    BY <2>1, <2>2 DEF Shut
  <2>. QED BY <2>2, <2>3, StuckStep
<1>2. ASSUME NEW id \in Ids, SendRequestTo(n, m, id) \/ BroadcastMessage(n, m, id)
      PROVE  StuckClosed'
  <2>1. PICK c \in Conns \cup {None} : c = sessions[n][m]
    BY DEF TypeOK
  <2>2. PICK msg : Write(c, n, msg)
    BY <1>2, <2>1 DEF SendRequestTo, BroadcastMessage
  <2>3. UNCHANGED <<st, closing>>
    BY <1>2 DEF SendRequestTo, BroadcastMessage
  <2>4. \A d \in Conns : \A k \in Nodes : Shut(d, k) => Shut(d, k)'
    BY <2>3 DEF Shut
  <2>. QED BY <2>2, <2>4, StuckWrite, StuckStep
<1>. QED BY <1>1, <1>2 DEF CallerStep

LEMMA StuckStop ==
  ASSUME TypeOK, StuckClosed, NEW n \in Nodes, StopBegin(n) \/ StopStep(n)
  PROVE  StuckClosed'
<1>. USE DEF socketVars
<1>1. CASE StopBegin(n)
  BY <1>1 DEF StopBegin, StuckClosed, Shut
<1>2. CASE StopClear(n)
  <2>1. UNCHANGED <<st, wr>>
    BY <1>2 DEF StopClear
  <2>2. closing' = [c \in Conns |->
          [closing[c] EXCEPT ![n] =
             closing[c][n] \/ (\E m \in Nodes : sessions[n][m] = c /\ st[c][n] # "closed")]]
    BY <1>2 DEF StopClear
  <2>3. \A d \in Conns : \A k \in Nodes : closing[d][k] => closing'[d][k]
    BY <2>2 DEF TypeOK
  <2>4. \A d \in Conns : \A k \in Nodes : Shut(d, k) => Shut(d, k)'
    BY <2>1, <2>3 DEF Shut
  <2>. QED BY <2>1, <2>4, StuckStep
<1>3. CASE StopJoin(n)
  <2>1. \A d \in Conns : wr'[d][n] = "idle" /\ \A k \in Nodes \ {n} : wr'[d][k] = wr[d][k]
    BY <1>3 DEF StopJoin, TypeOK
  <2>2. \A d \in Conns : \A k \in Nodes \ {n} : st'[d][k] = st[d][k]
    BY <1>3 DEF StopJoin, TypeOK
  <2>3. \A d \in Conns : \A k \in Nodes \ {n} : closing'[d][k] = closing[d][k]
    BY <1>3 DEF StopJoin, TypeOK
  <2>4. \A d \in Conns : \A k \in Nodes \ {n} : Shut(d, k) => Shut(d, k)'
    BY <2>2, <2>3 DEF Shut
  <2>. QED BY <2>1, <2>4, StuckStep
<1>. QED BY <1>1, <1>2, <1>3 DEF StopStep

LEMMA NextStuck == TypeOK /\ StuckClosed /\ [Next]_vars => StuckClosed'
<1>. SUFFICES ASSUME TypeOK, StuckClosed, [Next]_vars PROVE StuckClosed'
  OBVIOUS
<1>1. CASE UNCHANGED vars
  BY <1>1 DEF vars, managerVars, socketVars, StuckClosed, Shut
<1>2. ASSUME NEW c \in Conns, OnAccept(c) PROVE StuckClosed'
  <2>1. PICK n \in Nodes : n = link[c].server
    BY <1>2 DEF OnAccept, TypeOK
  <2>2. /\ st[c][n] = "none" /\ st' = [st EXCEPT ![c][n] = "handshake"]
        /\ UNCHANGED <<wr, closing>>
    BY <1>2, <2>1 DEF OnAccept
  <2>3. \A d \in Conns : \A k \in Nodes : st[d][k] = "closed" => st'[d][k] = "closed"
    BY <2>2 DEF TypeOK
  <2>4. \A d \in Conns : \A k \in Nodes : Shut(d, k) => Shut(d, k)'
    BY <2>2, <2>3 DEF Shut
  <2>. QED BY <2>2, <2>4, StuckStep
<1>. QED BY <1>1, <1>2, SubsetsAssumption, StuckCaller, StuckPool, StuckStop, StuckEnd DEF Next

\* write() and on_write_message do not miss each other: a queue that is not empty has a
\* write under way, or its session is closed or about to be and, unless a message that
\* was too large has closed it, no running node has it registered.
THEOREM QueuesServed == Spec => []QueueDrains
<1>1. Init => StuckClosed
  BY DEF Init, StuckClosed
<1>2. SessionsInv => TypeOK
  BY DEF SessionsInv
<1>3. SessionsInv /\ StuckClosed => QueueDrains
  <2>. SUFFICES ASSUME SessionsInv, StuckClosed PROVE QueueDrains
    OBVIOUS
  <2>1. ASSUME NEW c \in Conns, NEW n \in Nodes, wr[c][n] = "stuck",
               Started(n), NEW m \in Nodes, sessions[n][m] = c
        PROVE  Oversized(c, n)
    <3>1. Shut(c, n)
      BY <2>1 DEF StuckClosed
    <3>2. Reading(c, n) \/ Oversized(c, n)
      BY <2>1, NoneAssumption DEF SessionsInv, RegisteredLive
    <3>. QED BY <3>1, <3>2 DEF Shut, Reading
  <2>. QED BY <2>1 DEF SessionsInv, Queued, StuckClosed, Shut, QueueDrains
<1>. QED BY <1>1, <1>2, <1>3, NextStuck, SessionsInvariance, PTL DEF Spec

-----------------------------------------------------------------------------
(* Which messages are about which requests *)

LEMMA KeyCases ==
  ASSUME NEW msg
  PROVE  \/ Key(msg) = {} /\ msg.kind \notin {"request", "answer"}
         \/ Key(msg) = {<<msg.of, msg.id>>} /\ msg.kind \in {"request", "answer"}
BY DEF Key

LEMMA KeysAppend ==
  ASSUME NEW q \in Seq(Messages), NEW e \in Messages
  PROVE  /\ Keys(Append(q, e)) = Keys(q) \cup Key(e)
         /\ Distinct(q) /\ Keys(q) \cap Key(e) = {} => Distinct(Append(q, e))
<1>1. /\ Len(q) \in Nat /\ DOMAIN q = 1..Len(q)
      /\ DOMAIN Append(q, e) = 1..(Len(q) + 1)
      /\ \A i \in DOMAIN q : Append(q, e)[i] = q[i]
      /\ Append(q, e)[Len(q) + 1] = e
  BY AppendLast
<1>2. PICK r : r = Append(q, e)
  OBVIOUS
<1>3. \A i \in DOMAIN r : (i \in DOMAIN q /\ r[i] = q[i]) \/ (i = Len(q) + 1 /\ r[i] = e)
  BY <1>1, <1>2
<1>4. Len(q) + 1 \in DOMAIN r /\ \A i \in DOMAIN q : i \in DOMAIN r /\ r[i] = q[i]
  BY <1>1, <1>2
<1>5. Keys(r) = Keys(q) \cup Key(e)
  <2>1. \A k : k \in Keys(r) <=> \E i \in DOMAIN r : k \in Key(r[i])
    BY DEF Keys
  <2>2. \A k : k \in Keys(q) <=> \E i \in DOMAIN q : k \in Key(q[i])
    BY DEF Keys
  <2>3. r[Len(q) + 1] = e
    BY <1>1, <1>2
  <2>. QED BY <1>3, <1>4, <2>1, <2>2, <2>3
<1>6. ASSUME Distinct(q), Keys(q) \cap Key(e) = {} PROVE Distinct(r)
  <2>1. \A i \in DOMAIN q : Key(q[i]) \cap Key(e) = {}
    BY <1>6 DEF Keys
  <2>2. ASSUME NEW i \in DOMAIN r, NEW j \in DOMAIN r, Key(r[i]) \cap Key(r[j]) # {}
        PROVE  i = j
    <3>1. CASE i \in DOMAIN q /\ j \in DOMAIN q
      BY <1>4, <1>6, <2>2, <3>1 DEF Distinct
    <3>2. CASE i \notin DOMAIN q \/ j \notin DOMAIN q
      BY <1>3, <2>1, <2>2, <3>2
    <3>. QED BY <3>1, <3>2
  <2>. QED BY <2>2 DEF Distinct
<1>. QED BY <1>2, <1>5, <1>6

LEMMA KeysTail ==
  ASSUME NEW q \in Seq(Messages), q # <<>>
  PROVE  /\ Key(Head(q)) \subseteq Keys(q) /\ Keys(Tail(q)) \subseteq Keys(q)
         /\ Distinct(q) => Distinct(Tail(q)) /\ Keys(Tail(q)) \cap Key(Head(q)) = {}
<1>1. /\ Head(q) = q[1] /\ 1 \in DOMAIN q
      /\ \A i \in DOMAIN Tail(q) : i + 1 \in DOMAIN q /\ Tail(q)[i] = q[i + 1]
      /\ DOMAIN Tail(q) = 1..(Len(q) - 1) /\ Len(q) \in Nat
  BY HeadTail
<1>2. PICK r : r = Tail(q)
  OBVIOUS
<1>3. \A i \in DOMAIN r : i + 1 \in DOMAIN q /\ r[i] = q[i + 1] /\ i \in Nat /\ i > 0
  BY <1>1, <1>2
<1>4. Key(q[1]) \subseteq Keys(q) /\ Keys(r) \subseteq Keys(q)
  BY <1>1, <1>3 DEF Keys
<1>5. ASSUME Distinct(q) PROVE Distinct(r) /\ Keys(r) \cap Key(q[1]) = {}
  <2>1. ASSUME NEW i \in DOMAIN r, NEW j \in DOMAIN r, Key(r[i]) \cap Key(r[j]) # {}
        PROVE  i = j
    <3>1. i + 1 = j + 1
      BY <1>3, <1>5, <2>1 DEF Distinct
    <3>. QED BY <1>3, <3>1
  <2>2. ASSUME NEW i \in DOMAIN r PROVE Key(r[i]) \cap Key(q[1]) = {}
    <3>1. i + 1 # 1 /\ i + 1 \in DOMAIN q /\ r[i] = q[i + 1]
      BY <1>3
    <3>. QED BY <1>1, <1>5, <3>1 DEF Distinct
  <2>3. Keys(r) \cap Key(q[1]) = {}
    BY <2>2 DEF Keys
  <2>. QED BY <2>1, <2>3 DEF Distinct
<1>. QED BY <1>1, <1>2, <1>4, <1>5

LEMMA KeysShort ==
  /\ Keys(<<>>) = {} /\ Distinct(<<>>)
  /\ \A e \in Messages : Keys(<<e>>) = Key(e) /\ Distinct(<<e>>)
<1>1. ASSUME NEW e \in Messages PROVE Keys(<<e>>) = Key(e) /\ Distinct(<<e>>)
  <2>1. PICK r : r = <<e>>
    OBVIOUS
  <2>2. DOMAIN r = {1} /\ r[1] = e
    BY <2>1, Singleton
  <2>3. Keys(r) = Key(e) /\ Distinct(r)
    BY <2>2 DEF Keys, Distinct
  <2>. QED BY <2>1, <2>3
<1>2. Keys(<<>>) = {} /\ Distinct(<<>>)
  BY DEF Keys, Distinct
<1>. QED BY <1>1, <1>2

\* What a place is, before and after a step.
LEMMA PlaceForms ==
  ASSUME NEW p \in Places
  PROVE  \/ \E c \in Conns, n \in Nodes :
              /\ p = <<"out", c, n>>
              /\ Holds(p) = Keys(out[c][n]) /\ Holds(p)' = Keys(out'[c][n])
         \/ \E c \in Conns, n \in Nodes :
              /\ p = <<"wire", c, n>>
              /\ Holds(p) = Keys(wire[c][n]) /\ Holds(p)' = Keys(wire'[c][n])
         \/ \E n \in Nodes, t \in Tasks :
              /\ p = <<"task", n, t>>
              /\ Holds(p) = IF t \in tasks[n] THEN Key(t.msg) ELSE {}
              /\ Holds(p)' = IF t \in tasks'[n] THEN Key(t.msg) ELSE {}
BY DEF Places, Holds

LEMMA EndPlaces ==
  ASSUME NEW c \in Conns, NEW n \in Nodes
  PROVE  /\ \E p \in Places : /\ p = <<"out", c, n>> /\ Holds(p) = Keys(out[c][n])
                               /\ Holds(p)' = Keys(out'[c][n])
         /\ \E p \in Places : /\ p = <<"wire", c, n>> /\ Holds(p) = Keys(wire[c][n])
                               /\ Holds(p)' = Keys(wire'[c][n])
<1>1. PICK p \in Places : p = <<"out", c, n>>
  BY DEF Places
<1>2. PICK q \in Places : q = <<"wire", c, n>>
  BY DEF Places
<1>. QED BY <1>1, <1>2 DEF Holds

LEMMA TaskPlace ==
  ASSUME NEW n \in Nodes, NEW t \in Tasks
  PROVE  \E p \in Places : /\ p = <<"task", n, t>>
                           /\ Holds(p) = IF t \in tasks[n] THEN Key(t.msg) ELSE {}
                           /\ Holds(p)' = IF t \in tasks'[n] THEN Key(t.msg) ELSE {}
<1>1. PICK p \in Places : p = <<"task", n, t>>
  BY DEF Places
<1>. QED BY <1>1 DEF Holds

\* A message about the requests in K arrives at the place dst, and is nowhere else.
LEMMA TokensMove ==
  ASSUME TokensOK, NEW dst \in Places, NEW K,
         \A p \in Places : p # dst => Holds(p)' \subseteq Holds(p) /\ Holds(p)' \cap K = {},
         Holds(dst)' \subseteq Holds(dst) \cup K,
         \A p \in Places : \A k \in Holds(p)' : requests'[k[1]][k[2]] = "sent",
         \A c \in Conns : \A n \in Nodes : Distinct(out'[c][n]) /\ Distinct(wire'[c][n])
  PROVE  TokensOK'
<1>1. \A p, q \in Places : p # q => Holds(p)' \cap Holds(q)' = {}
  <2>1. SUFFICES ASSUME NEW p \in Places, NEW q \in Places, p # q
                 PROVE  Holds(p)' \cap Holds(q)' = {}
    OBVIOUS
  <2>2. Holds(p) \cap Holds(q) = {}
    BY <2>1 DEF TokensOK
  <2>3. CASE p = dst
    BY <2>1, <2>2, <2>3
  <2>4. CASE q = dst
    BY <2>1, <2>2, <2>4
  <2>5. CASE p # dst /\ q # dst
    BY <2>2, <2>5
  <2>. QED BY <2>3, <2>4, <2>5
<1>. QED BY <1>1 DEF TokensOK

\* Messages disappear.
LEMMA TokensShrink ==
  ASSUME TokensOK, UNCHANGED requests,
         \A p \in Places : Holds(p)' \subseteq Holds(p),
         \A c \in Conns : \A n \in Nodes : Distinct(out'[c][n]) /\ Distinct(wire'[c][n])
  PROVE  TokensOK'
<1>1. \A p, q \in Places : p # q => Holds(p)' \cap Holds(q)' = {}
  BY DEF TokensOK
<1>2. \A p \in Places : \A k \in Holds(p)' : requests'[k[1]][k[2]] = "sent"
  BY DEF TokensOK
<1>. QED BY <1>1, <1>2 DEF TokensOK

\* The requests that messages are about are requests of nodes.
LEMMA HoldsType ==
  ASSUME TypeOK, NEW p \in Places, NEW k \in Holds(p)
  PROVE  k[1] \in Nodes /\ k[2] \in Ids /\ k = <<k[1], k[2]>>
<1>1. ASSUME NEW msg \in Messages, k \in Key(msg)
      PROVE  k[1] \in Nodes /\ k[2] \in Ids /\ k = <<k[1], k[2]>>
  BY <1>1, KeyCases DEF Messages
<1>2. ASSUME NEW q \in Seq(Messages), k \in Keys(q)
      PROVE  k[1] \in Nodes /\ k[2] \in Ids /\ k = <<k[1], k[2]>>
  <2>1. PICK i \in DOMAIN q : k \in Key(q[i])
    BY <1>2 DEF Keys
  <2>2. q[i] \in Messages
    OBVIOUS
  <2>. QED BY <1>1, <2>1, <2>2
<1>3. ASSUME NEW c \in Conns, NEW n \in Nodes
      PROVE  out[c][n] \in Seq(Messages) /\ wire[c][n] \in Seq(Messages)
  BY DEF TypeOK
<1>4. \A t \in Tasks : t.msg \in Messages
  BY DEF Tasks
<1>. QED BY <1>1, <1>2, <1>3, <1>4, PlaceForms

-----------------------------------------------------------------------------
(* Steps that move no message on: messages stay where they are or disappear *)

\* What is left of a queue.
Left(q) == {q, <<>>} \cup (IF q = <<>> THEN {} ELSE {<<Head(q)>>})

LEMMA LeftOf ==
  ASSUME NEW q \in Seq(Messages), NEW r \in Left(q)
  PROVE  /\ Keys(r) \subseteq Keys(q) /\ (Distinct(q) => Distinct(r))
         /\ \A i \in DOMAIN r : \E j \in DOMAIN q : r[i] = q[j]
<1>1. CASE r = q
  BY <1>1
<1>2. CASE r = <<>>
  BY <1>2, KeysShort
<1>3. CASE q # <<>> /\ r = <<Head(q)>>
  <2>1. /\ Head(q) \in Messages /\ Head(q) = q[1] /\ 1 \in DOMAIN q
        /\ Key(Head(q)) \subseteq Keys(q)
    BY <1>3, HeadTail, KeysTail
  <2>2. Keys(r) = Key(Head(q)) /\ Distinct(r) /\ DOMAIN r = {1} /\ r[1] = Head(q)
    BY <1>3, <2>1, KeysShort, Singleton
  <2>. QED BY <2>1, <2>2
<1>. QED BY <1>1, <1>2, <1>3 DEF Left

LEMMA MessagesShrink ==
  ASSUME IInv, UNCHANGED <<link, requests>>,
         \A c \in Conns : \A n \in Nodes :
           out'[c][n] \in Left(out[c][n]) /\ wire'[c][n] \in Left(wire[c][n]),
         \A n \in Nodes : tasks'[n] \subseteq tasks[n]
  PROVE  AddressesOK' /\ TokensOK'
<1>1. \A c \in Conns : \A n \in Nodes : out[c][n] \in Seq(Messages) /\ wire[c][n] \in Seq(Messages)
  BY DEF IInv, SessionsInv, TypeOK
<1>2. ASSUME NEW c \in Conns, NEW n \in Nodes
      PROVE  /\ Keys(out'[c][n]) \subseteq Keys(out[c][n]) /\ Distinct(out'[c][n])
             /\ Keys(wire'[c][n]) \subseteq Keys(wire[c][n]) /\ Distinct(wire'[c][n])
             /\ \A i \in DOMAIN out'[c][n] : OutAddress(c, n, out'[c][n][i])
             /\ \A i \in DOMAIN wire'[c][n] : WireAddress(c, n, wire'[c][n][i])
  <2>1. Distinct(out[c][n]) /\ Distinct(wire[c][n])
    BY DEF IInv, TokensOK
  <2>2. /\ Keys(out'[c][n]) \subseteq Keys(out[c][n]) /\ Distinct(out'[c][n])
        /\ \A i \in DOMAIN out'[c][n] : \E j \in DOMAIN out[c][n] : out'[c][n][i] = out[c][n][j]
    BY <1>1, <2>1, LeftOf
  <2>3. /\ Keys(wire'[c][n]) \subseteq Keys(wire[c][n]) /\ Distinct(wire'[c][n])
        /\ \A i \in DOMAIN wire'[c][n] : \E j \in DOMAIN wire[c][n] : wire'[c][n][i] = wire[c][n][j]
    BY <1>1, <2>1, LeftOf
  <2>4. /\ \A i \in DOMAIN out[c][n] : OutAddress(c, n, out[c][n][i])
        /\ \A i \in DOMAIN wire[c][n] : WireAddress(c, n, wire[c][n][i])
    BY DEF IInv, AddressesOK
  <2>. QED BY <2>2, <2>3, <2>4
<1>3. AddressesOK'
  <2>1. \A c \in Conns : \A n \in Nodes : Peer(c, n)' = Peer(c, n)
    BY DEF Peer
  <2>2. \A n \in Nodes : \A t \in tasks'[n] :
          /\ t.msg.kind = "request" => t.msg.of = t.from
          /\ t.msg.kind = "answer" => t.msg.of = n
    BY DEF IInv, AddressesOK
  <2>. QED BY <1>2, <2>1, <2>2 DEF AddressesOK, OutAddress, WireAddress
<1>4. ASSUME NEW p \in Places PROVE Holds(p)' \subseteq Holds(p)
  BY <1>2, PlaceForms
<1>. QED BY <1>2, <1>3, <1>4, TokensShrink DEF IInv

LEMMA LeftSame == \A q : q \in Left(q) /\ <<>> \in Left(q)
BY DEF Left

\* The steps of the sockets and of the stop that change no message.
LEMMA QuietSteps ==
  ASSUME IInv, UNCHANGED <<link, requests, out, wire, tasks>>
  PROVE  AddressesOK' /\ TokensOK'
BY LeftSame, MessagesShrink

\* The steps that lose messages: a close, a stop, a task that is dropped or a
\* broadcast that is refused.
LEMMA LosingSteps ==
  ASSUME IInv, NEW c \in Conns, NEW n \in Nodes, NEW t,
         \/ DoClose(c, n) \/ DropTask(n, t)
         \/ HandleRefused(n, t) \/ StopJoin(n)
  PROVE  AddressesOK' /\ TokensOK'
<1>. USE DEF managerVars, socketVars
<1>1. TypeOK
  BY DEF IInv, SessionsInv
<1>3. CASE DoClose(c, n)
  <2>1. UNCHANGED <<link, requests, tasks, out>>
    BY <1>3 DEF DoClose
  <2>3. wire' = [wire EXCEPT ![c][n] = IF rd[c][n] = "got" THEN <<Head(wire[c][n])>> ELSE <<>>]
    BY <1>3 DEF DoClose
  <2>4. rd[c][n] = "got" => wire[c][n] # <<>>
    BY DEF IInv, SessionsInv, SocketsOK, SocketAt
  <2>5. (IF rd[c][n] = "got" THEN <<Head(wire[c][n])>> ELSE <<>>) \in Left(wire[c][n])
    BY <2>4 DEF Left
  <2>6. wire'[c][n] \in Left(wire[c][n])
    BY <1>1, <2>3, <2>5 DEF TypeOK
  <2>7. \A d \in Conns : \A k \in Nodes : ~(d = c /\ k = n) => wire'[d][k] = wire[d][k]
    BY <1>1, <2>3 DEF TypeOK
  <2>8. \A d \in Conns : \A k \in Nodes : wire'[d][k] \in Left(wire[d][k])
    BY <2>6, <2>7, LeftSame
  <2>. QED BY <2>1, <2>8, LeftSame, MessagesShrink
<1>4. CASE DropTask(n, t) \/ HandleRefused(n, t)
  <2>1. UNCHANGED <<link, requests, out, wire>> /\ tasks' = [tasks EXCEPT ![n] = tasks[n] \ {t}]
    BY <1>4 DEF DropTask, HandleRefused, Done
  <2>2. \A k \in Nodes : tasks'[k] \subseteq tasks[k]
    BY <1>1, <2>1 DEF TypeOK
  <2>. QED BY <2>1, <2>2, LeftSame, MessagesShrink
<1>5. CASE StopJoin(n)
  <2>1. UNCHANGED <<link, requests, tasks>>
    BY <1>5 DEF StopJoin
  <2>2. \A d \in Conns : \A k \in Nodes : out'[d][k] \in {out[d][k], <<>>}
    BY <1>1, <1>5 DEF StopJoin, TypeOK
  <2>3. \A d \in Conns : \A k \in Nodes : wire'[d][k] \in {wire[d][k], <<>>}
    BY <1>1, <1>5 DEF StopJoin, TypeOK
  <2>. QED BY <2>1, <2>2, <2>3, LeftSame, MessagesShrink
<1>. QED BY <1>3, <1>4, <1>5

\* A new connection carries no message of an old one.
LEMMA ConnectTokens ==
  ASSUME IInv, NEW c \in Conns, NEW n \in Nodes, NEW m \in Nodes, ConnectToServer(c, n, m)
  PROVE  AddressesOK' /\ TokensOK'
<1>. USE DEF managerVars
<1>1. /\ UNCHANGED <<requests, wire, tasks>> /\ Forgotten(c)
      /\ link' = [link EXCEPT ![c] = [client |-> n, server |-> m]]
      /\ out' = [out EXCEPT ![c] = [k \in Nodes |-> <<>>]]
  BY DEF ConnectToServer
<1>2. /\ \A k \in Nodes : out'[c][k] = <<>>
      /\ \A d \in Conns : d # c => \A k \in Nodes : out'[d][k] = out[d][k]
  BY <1>1 DEF IInv, SessionsInv, TypeOK
<1>3. \A d \in Conns : d # c => \A k \in Nodes : Peer(d, k)' = Peer(d, k)
  BY <1>1 DEF IInv, SessionsInv, TypeOK, Peer
<1>4. ASSUME NEW d \in Conns, NEW k \in Nodes
      PROVE  \/ d = c /\ DOMAIN out'[d][k] = {} /\ DOMAIN wire'[d][k] = {}
             \/ /\ Peer(d, k)' = Peer(d, k)
                /\ out'[d][k] = out[d][k] /\ wire'[d][k] = wire[d][k]
  <2>1. CASE d = c
    <3>1. out'[d][k] = <<>> /\ wire'[d][k] = <<>>
      BY <1>1, <1>2, <2>1, ForgottenEmpty DEF IInv
    <3>. QED BY <2>1, <3>1
  <2>2. CASE d # c
    BY <1>1, <1>2, <1>3, <2>2
  <2>. QED BY <2>1, <2>2
<1>5. AddressesOK'
  <2>1. ASSUME NEW d \in Conns, NEW k \in Nodes
        PROVE  (/\ \A i \in DOMAIN out[d][k] : OutAddress(d, k, out[d][k][i])
                /\ \A i \in DOMAIN wire[d][k] : WireAddress(d, k, wire[d][k][i]))'
    <3>1. /\ \A i \in DOMAIN out[d][k] : OutAddress(d, k, out[d][k][i])
          /\ \A i \in DOMAIN wire[d][k] : WireAddress(d, k, wire[d][k][i])
      BY DEF IInv, AddressesOK
    <3>2. CASE Peer(d, k)' = Peer(d, k) /\ out'[d][k] = out[d][k] /\ wire'[d][k] = wire[d][k]
      BY <3>1, <3>2 DEF OutAddress, WireAddress
    <3>. QED BY <1>4, <3>2
  <2>2. \A k \in Nodes : \A t \in tasks'[k] :
          /\ t.msg.kind = "request" => t.msg.of = t.from
          /\ t.msg.kind = "answer" => t.msg.of = k
    BY <1>1 DEF IInv, AddressesOK
  <2>. QED BY <2>1, <2>2 DEF AddressesOK
<1>6. ASSUME NEW d \in Conns, NEW k \in Nodes
      PROVE  Keys(out'[d][k]) \subseteq Keys(out[d][k]) /\ Distinct(out'[d][k])
  <2>1. CASE d = c
    BY <1>2, <2>1, KeysShort
  <2>2. CASE d # c
    BY <1>2, <2>2 DEF IInv, TokensOK
  <2>. QED BY <2>1, <2>2
<1>7. ASSUME NEW p \in Places PROVE Holds(p)' \subseteq Holds(p)
  BY <1>1, <1>6, PlaceForms
<1>8. \A d \in Conns : \A k \in Nodes : Distinct(out'[d][k]) /\ Distinct(wire'[d][k])
  BY <1>1, <1>6 DEF IInv, TokensOK
<1>9. TokensOK'
  BY <1>1, <1>7, <1>8, TokensShrink DEF IInv
<1>. QED BY <1>5, <1>9

-----------------------------------------------------------------------------
(* Steps that move a message on *)

\* A message goes over the wire.
LEMMA WriteDoneTokens ==
  ASSUME IInv, NEW c \in Conns, NEW n \in Nodes, Linked(c, n), WriteDone(c, n)
  PROVE  AddressesOK' /\ TokensOK'
<1>. USE DEF managerVars
<1>1. TypeOK /\ Queued /\ AddressesOK /\ TokensOK
  BY DEF IInv, SessionsInv
<1>2. PICK m \in Nodes : m = Peer(c, n) /\ Peer(c, m) = n /\ m # n
  BY <1>1, PeerType
<1>3. PICK o \in Seq(Messages) : o = out[c][n] /\ o # <<>>
  BY <1>1 DEF TypeOK, Queued, WriteDone
<1>4. PICK w \in Seq(Messages) : w = wire[c][m]
  BY <1>1 DEF TypeOK
<1>5. PICK e \in Messages : /\ e = Head(o) /\ e = o[1] /\ 1 \in DOMAIN o
                            /\ Key(e) \subseteq Keys(o)
  BY <1>3, HeadTail, KeysTail
<1>6. /\ UNCHANGED <<managerVars, link>>
      /\ wire' = [wire EXCEPT ![c][m] = IF st[c][m] = "closed" THEN w ELSE Append(w, e)]
      /\ out' = [out EXCEPT ![c][n] = Tail(o)]
  BY <1>2, <1>3, <1>4, <1>5 DEF WriteDone
<1>7. PICK v : v = IF st[c][m] = "closed" THEN w ELSE Append(w, e)
  OBVIOUS
<1>8. /\ out'[c][n] = Tail(o) /\ wire'[c][m] = v
      /\ \A d \in Conns : \A k \in Nodes :
           /\ ~(d = c /\ k = n) => out'[d][k] = out[d][k]
           /\ ~(d = c /\ k = m) => wire'[d][k] = wire[d][k]
  BY <1>1, <1>6, <1>7 DEF TypeOK
<1>9. /\ Keys(Tail(o)) \subseteq Keys(o) /\ Keys(Tail(o)) \cap Key(e) = {}
      /\ Distinct(Tail(o)) /\ Distinct(w)
      /\ \A i \in DOMAIN Tail(o) : i + 1 \in DOMAIN o /\ Tail(o)[i] = o[i + 1]
  BY <1>1, <1>3, <1>4, <1>5, KeysTail, HeadTail DEF TokensOK
<1>10. PICK po \in Places : po = <<"out", c, n>> /\ Holds(po) = Keys(o)
  BY <1>3, EndPlaces
<1>11. PICK pw \in Places : /\ pw = <<"wire", c, m>> /\ Holds(pw) = Keys(w)
                            /\ Holds(pw)' = Keys(v) /\ pw # po
  BY <1>4, <1>8, <1>10, EndPlaces
<1>12. Keys(w) \cap Key(e) = {}
  BY <1>1, <1>5, <1>10, <1>11 DEF TokensOK
<1>13. /\ Keys(v) \subseteq Keys(w) \cup Key(e) /\ Distinct(v)
       /\ \A i \in DOMAIN v : (\E j \in DOMAIN w : v[i] = w[j]) \/ v[i] = e
  <2>1. CASE st[c][m] = "closed"
    BY <1>7, <1>9, <2>1
  <2>2. CASE st[c][m] # "closed"
    BY <1>7, <1>9, <1>12, <2>2, KeysAppend, AppendLast
  <2>. QED BY <2>1, <2>2
<1>14. AddressesOK'
  <2>1. OutAddress(c, n, e)
    BY <1>1, <1>3, <1>5 DEF AddressesOK
  <2>2. WireAddress(c, m, e)
    BY <1>2, <2>1 DEF OutAddress, WireAddress
  <2>3. ASSUME NEW d \in Conns, NEW k \in Nodes
        PROVE  /\ \A i \in DOMAIN out'[d][k] : OutAddress(d, k, out'[d][k][i])
               /\ \A i \in DOMAIN wire'[d][k] : WireAddress(d, k, wire'[d][k][i])
    <3>1. /\ \A i \in DOMAIN out[d][k] : OutAddress(d, k, out[d][k][i])
          /\ \A i \in DOMAIN wire[d][k] : WireAddress(d, k, wire[d][k][i])
      BY <1>1 DEF AddressesOK
    <3>2. \A i \in DOMAIN out'[d][k] : OutAddress(d, k, out'[d][k][i])
      <4>1. CASE d = c /\ k = n
        <5>1. \A i \in DOMAIN o : OutAddress(d, k, o[i])
          BY <1>3, <3>1, <4>1
        <5>2. ASSUME NEW i \in DOMAIN Tail(o) PROVE OutAddress(d, k, Tail(o)[i])
          BY <1>9, <5>1
        <5>3. out'[d][k] = Tail(o)
          BY <1>8, <4>1
        <5>. QED BY <5>2, <5>3
      <4>2. CASE ~(d = c /\ k = n)
        BY <1>8, <3>1, <4>2
      <4>. QED BY <4>1, <4>2
    <3>3. \A i \in DOMAIN wire'[d][k] : WireAddress(d, k, wire'[d][k][i])
      BY <1>4, <1>8, <1>13, <2>2, <3>1
    <3>. QED BY <3>2, <3>3
  <2>4. \A d \in Conns : \A k \in Nodes : Peer(d, k)' = Peer(d, k)
    BY <1>6 DEF Peer
  <2>. QED BY <1>1, <1>6, <2>3, <2>4 DEF AddressesOK, OutAddress, WireAddress
<1>15. ASSUME NEW p \in Places, p # pw
       PROVE  Holds(p)' \subseteq Holds(p) /\ Holds(p)' \cap Key(e) = {}
  <2>1. CASE p = po
    <3>1. Holds(p)' = Keys(Tail(o))
      BY <1>8, <1>10, <2>1 DEF Holds
    <3>. QED BY <1>9, <1>10, <2>1, <3>1
  <2>2. CASE p # po
    <3>1. Holds(p)' = Holds(p)
      BY <1>6, <1>8, <1>10, <1>11, <1>15, <2>2, PlaceForms
    <3>2. Holds(p) \cap Keys(o) = {}
      BY <1>1, <1>10, <2>2 DEF TokensOK
    <3>. QED BY <1>5, <3>1, <3>2
  <2>. QED BY <2>1, <2>2
<1>16. Holds(pw)' \subseteq Holds(pw) \cup Key(e)
  BY <1>11, <1>13
<1>17. ASSUME NEW p \in Places, NEW k \in Holds(p)' PROVE requests'[k[1]][k[2]] = "sent"
  <2>1. k \in Holds(p) \/ k \in Holds(po)
    BY <1>5, <1>10, <1>15, <1>16
  <2>. QED BY <1>1, <1>6, <2>1 DEF TokensOK
<1>18. \A d \in Conns : \A k \in Nodes : Distinct(out'[d][k]) /\ Distinct(wire'[d][k])
  BY <1>1, <1>8, <1>9, <1>13 DEF TokensOK
<1>19. TokensOK'
  BY <1>1, <1>15, <1>16, <1>17, <1>18, TokensMove
<1>. QED BY <1>14, <1>19
\* asyncHandleMessage takes the message from the wire to the pool.
LEMMA AsyncTokens ==
  ASSUME IInv, NEW c \in Conns, NEW n \in Nodes, Linked(c, n), AsyncHandleMessage(c, n)
  PROVE  AddressesOK' /\ TokensOK'
<1>1. TypeOK /\ SocketsOK /\ AddressesOK /\ TokensOK
  BY DEF IInv, SessionsInv
<1>2. PICK m \in Nodes : m = Peer(c, n)
  BY <1>1, PeerType
<1>3. PICK w \in Seq(Messages) : w = wire[c][n] /\ w # <<>>
  BY <1>1 DEF TypeOK, SocketsOK, SocketAt, AsyncHandleMessage
<1>4. PICK e \in Messages : /\ e = Head(w) /\ e = w[1] /\ 1 \in DOMAIN w
                            /\ Key(e) \subseteq Keys(w)
  BY <1>3, HeadTail, KeysTail
<1>5. PICK t \in Tasks : t = [from |-> m, msg |-> e]
  BY DEF Tasks
<1>6. /\ UNCHANGED <<requests, link, out>>
      /\ tasks' = [tasks EXCEPT ![n] = tasks[n] \cup {t}]
      /\ wire' = [wire EXCEPT ![c][n] = Tail(w)]
  BY <1>2, <1>3, <1>4, <1>5 DEF AsyncHandleMessage
<1>7. /\ wire'[c][n] = Tail(w) /\ tasks'[n] = tasks[n] \cup {t}
      /\ \A d \in Conns : \A k \in Nodes : ~(d = c /\ k = n) => wire'[d][k] = wire[d][k]
      /\ \A k \in Nodes : k # n => tasks'[k] = tasks[k]
  BY <1>1, <1>6 DEF TypeOK
<1>8. /\ Keys(Tail(w)) \subseteq Keys(w) /\ Keys(Tail(w)) \cap Key(e) = {}
      /\ Distinct(Tail(w))
      /\ \A i \in DOMAIN Tail(w) : i + 1 \in DOMAIN w /\ Tail(w)[i] = w[i + 1]
  BY <1>1, <1>3, <1>4, KeysTail, HeadTail DEF TokensOK
<1>9. PICK pw \in Places : /\ pw = <<"wire", c, n>> /\ Holds(pw) = Keys(w)
                           /\ Holds(pw)' = Keys(Tail(w))
  BY <1>3, <1>7, EndPlaces
<1>10. PICK pt \in Places : /\ pt = <<"task", n, t>> /\ Holds(pt)' = Key(e) /\ pt # pw
  <2>1. t.msg = e /\ t \in tasks'[n]
    BY <1>5, <1>7
  <2>. QED BY <1>9, <2>1, TaskPlace
<1>11. AddressesOK'
  <2>1. WireAddress(c, n, e)
    BY <1>1, <1>3, <1>4 DEF AddressesOK
  <2>2. /\ t.msg.kind = "request" => t.msg.of = t.from
        /\ t.msg.kind = "answer" => t.msg.of = n
    BY <1>2, <1>5, <2>1 DEF WireAddress
  <2>3. ASSUME NEW k \in Nodes, NEW u \in tasks'[k]
        PROVE  /\ u.msg.kind = "request" => u.msg.of = u.from
               /\ u.msg.kind = "answer" => u.msg.of = k
    <3>1. u \in tasks[k] \/ (u = t /\ k = n)
      BY <1>7
    <3>. QED BY <1>1, <2>2, <3>1 DEF AddressesOK
  <2>4. ASSUME NEW d \in Conns, NEW k \in Nodes
        PROVE  \A i \in DOMAIN wire'[d][k] : WireAddress(d, k, wire'[d][k][i])
    <3>1. \A i \in DOMAIN wire[d][k] : WireAddress(d, k, wire[d][k][i])
      BY <1>1 DEF AddressesOK
    <3>2. CASE d = c /\ k = n
      <4>1. \A i \in DOMAIN w : WireAddress(d, k, w[i])
        BY <1>3, <3>1, <3>2
      <4>2. ASSUME NEW i \in DOMAIN Tail(w) PROVE WireAddress(d, k, Tail(w)[i])
        BY <1>8, <4>1
      <4>3. wire'[d][k] = Tail(w)
        BY <1>7, <3>2
      <4>. QED BY <4>2, <4>3
    <3>3. CASE ~(d = c /\ k = n)
      BY <1>7, <3>1, <3>3
    <3>. QED BY <3>2, <3>3
  <2>5. \A d \in Conns : \A k \in Nodes : Peer(d, k)' = Peer(d, k)
    BY <1>6 DEF Peer
  <2>. QED BY <1>1, <1>6, <2>3, <2>4, <2>5 DEF AddressesOK, OutAddress, WireAddress
<1>12. ASSUME NEW p \in Places, p # pt
       PROVE  Holds(p)' \subseteq Holds(p) /\ Holds(p)' \cap Key(e) = {}
  <2>1. CASE p = pw
    BY <1>8, <1>9, <2>1
  <2>2. CASE p # pw
    <3>1. Holds(p)' = Holds(p)
      <4>1. CASE \E d \in Conns, k \in Nodes : p \in {<<"out", d, k>>, <<"wire", d, k>>}
        BY <1>6, <1>7, <1>9, <2>2, <4>1, PlaceForms
      <4>2. ASSUME NEW k \in Nodes, NEW u \in Tasks, p = <<"task", k, u>>
            PROVE  Holds(p)' = Holds(p)
        <5>1. ~(k = n /\ u = t)
          BY <1>10, <1>12, <4>2
        <5>2. u \in tasks'[k] <=> u \in tasks[k]
          BY <1>7, <5>1
        <5>. QED BY <4>2, <5>2, TaskPlace
      <4>. QED BY <4>1, <4>2, PlaceForms
    <3>2. Holds(p) \cap Keys(w) = {}
      BY <1>1, <1>9, <2>2 DEF TokensOK
    <3>. QED BY <1>4, <3>1, <3>2
  <2>. QED BY <2>1, <2>2
<1>13. ASSUME NEW p \in Places, NEW k \in Holds(p)' PROVE requests'[k[1]][k[2]] = "sent"
  <2>1. k \in Holds(p) \/ k \in Holds(pw)
    BY <1>4, <1>9, <1>10, <1>12
  <2>. QED BY <1>1, <1>6, <2>1 DEF TokensOK
<1>14. \A d \in Conns : \A k \in Nodes : Distinct(out'[d][k]) /\ Distinct(wire'[d][k])
  BY <1>1, <1>6, <1>7, <1>8 DEF TokensOK
<1>15. TokensOK'
  BY <1>1, <1>10, <1>12, <1>13, <1>14, TokensMove
<1>. QED BY <1>11, <1>15

\* A message that is about nothing that another message is about is written, or lost.
LEMMA WriteTokens ==
  ASSUME IInv, NEW n \in Nodes, NEW m \in Nodes, NEW msg \in Messages, Started(n),
         Write(sessions[n][m], n, msg), UNCHANGED <<link, wire>>,
         msg.kind = "request" => msg.of = n, msg.kind = "answer" => msg.of = m,
         \A k \in Nodes : tasks'[k] \subseteq tasks[k],
         \A d \in Conns : \A k \in Nodes :
           Keys(out[d][k]) \cap Key(msg) = {} /\ Keys(wire[d][k]) \cap Key(msg) = {},
         \A k \in Nodes : \A u \in tasks'[k] : Key(u.msg) \cap Key(msg) = {},
         \A k \in Nodes, i \in Ids : requests[k][i] = "sent" => requests'[k][i] = "sent",
         \A k \in Key(msg) : requests'[k[1]][k[2]] = "sent"
  PROVE  AddressesOK' /\ TokensOK'
<1>1. TypeOK /\ Queued /\ RegisteredLive /\ AddressesOK /\ TokensOK
  BY DEF IInv, SessionsInv
<1>2. PICK c \in Conns \cup {None} : c = sessions[n][m]
  BY <1>1 DEF TypeOK
<1>3. \A d \in Conns : \A k \in Nodes :
        out'[d][k] = IF d = c /\ k = n THEN Append(out[d][k], msg) ELSE out[d][k]
  BY <1>1, <1>2, WriteQueues
<1>4. c \in Conns => OutAddress(c, n, msg)
  BY <1>1, <1>2, NoneAssumption DEF RegisteredLive, OutAddress
<1>5. ASSUME NEW d \in Conns, NEW k \in Nodes
      PROVE  /\ \A i \in DOMAIN out'[d][k] : OutAddress(d, k, out'[d][k][i])
             /\ Distinct(out'[d][k])
             /\ Keys(out'[d][k]) \subseteq Keys(out[d][k]) \cup Key(msg)
             /\ ~(d = c /\ k = n) => out'[d][k] = out[d][k]
  <2>1. out[d][k] \in Seq(Messages) /\ Distinct(out[d][k])
    BY <1>1 DEF TypeOK, TokensOK
  <2>2. \A i \in DOMAIN out[d][k] : OutAddress(d, k, out[d][k][i])
    BY <1>1 DEF AddressesOK
  <2>3. CASE out'[d][k] = out[d][k]
    BY <2>1, <2>2, <2>3
  <2>4. CASE d = c /\ k = n /\ out'[d][k] = Append(out[d][k], msg)
    <3>1. PICK q : q = Append(out[d][k], msg)
      OBVIOUS
    <3>2. \A i \in DOMAIN q : (\E j \in DOMAIN out[d][k] : q[i] = out[d][k][j]) \/ q[i] = msg
      BY <2>1, <3>1, AppendLast
    <3>3. Keys(q) = Keys(out[d][k]) \cup Key(msg) /\ Distinct(q)
      BY <2>1, <3>1, KeysAppend
    <3>4. \A i \in DOMAIN q : OutAddress(d, k, q[i])
      BY <1>4, <2>2, <2>4, <3>2
    <3>5. out'[d][k] = q
      BY <2>4, <3>1
    <3>. QED BY <2>4, <3>3, <3>4, <3>5
  <2>. QED BY <1>3, <2>3, <2>4
<1>6. AddressesOK'
  <2>1. \A k \in Nodes : \A t \in tasks'[k] :
          /\ t.msg.kind = "request" => t.msg.of = t.from
          /\ t.msg.kind = "answer" => t.msg.of = k
    BY <1>1 DEF AddressesOK
  <2>2. \A d \in Conns : \A k \in Nodes : Peer(d, k)' = Peer(d, k)
    BY DEF Peer
  <2>. QED BY <1>1, <1>5, <2>1, <2>2 DEF AddressesOK, OutAddress, WireAddress
<1>7. ASSUME NEW p \in Places, p # <<"out", c, n>>
      PROVE  Holds(p)' \subseteq Holds(p) /\ Holds(p)' \cap Key(msg) = {}
  BY <1>5, <1>7, PlaceForms
<1>8. ASSUME NEW p \in Places
      PROVE  Holds(p)' \subseteq Holds(p) \cup Key(msg)
  BY <1>5, <1>7, PlaceForms
<1>9. ASSUME NEW p \in Places, NEW k \in Holds(p)' PROVE requests'[k[1]][k[2]] = "sent"
  <2>1. CASE k \in Key(msg)
    BY <2>1
  <2>2. CASE k \in Holds(p)
    BY <1>1, <2>2, HoldsType DEF TokensOK
  <2>. QED BY <1>8, <2>1, <2>2
<1>10. \A d \in Conns : \A k \in Nodes : Distinct(out'[d][k]) /\ Distinct(wire'[d][k])
  BY <1>1, <1>5 DEF TokensOK
<1>11. TokensOK'
  <2>1. CASE c \in Conns
    <3>1. PICK dst \in Places : dst = <<"out", c, n>>
      BY <2>1 DEF Places
    <3>. QED BY <1>1, <1>7, <1>8, <1>9, <1>10, <3>1, TokensMove
  <2>2. CASE c \notin Conns
    <3>1. PICK dst \in Places : dst = <<"task", n, [from |-> m, msg |-> msg]>>
      BY DEF Places, Tasks
    <3>2. \A p \in Places : p # <<"out", c, n>>
      BY <2>2 DEF Places
    <3>3. \A p \in Places : Holds(p)' \subseteq Holds(p)
      BY <1>7, <3>2
    <3>4. \A p \in Places : p # dst => Holds(p)' \subseteq Holds(p) /\ Holds(p)' \cap {} = {}
      BY <3>3
    <3>5. Holds(dst)' \subseteq Holds(dst) \cup {}
      BY <3>1, <3>3
    <3>. QED BY <1>1, <1>9, <1>10, <3>1, <3>4, <3>5, TokensMove
  <2>. QED BY <2>1, <2>2
<1>. QED BY <1>6, <1>11
\* A message about a request that has not been sent is nowhere.
LEMMA UnsentNowhere ==
  ASSUME IInv, NEW k \in Nodes, NEW id \in Ids, requests[k][id] # "sent"
  PROVE  /\ \A d \in Conns : \A n \in Nodes :
              <<k, id>> \notin Keys(out[d][n]) /\ <<k, id>> \notin Keys(wire[d][n])
         /\ \A n \in Nodes : \A t \in tasks[n] : <<k, id>> \notin Key(t.msg)
<1>1. TokensOK /\ TypeOK
  BY DEF IInv, SessionsInv
<1>2. \A p \in Places : <<k, id>> \notin Holds(p)
  BY <1>1 DEF TokensOK
<1>3. ASSUME NEW d \in Conns, NEW n \in Nodes
      PROVE  <<k, id>> \notin Keys(out[d][n]) /\ <<k, id>> \notin Keys(wire[d][n])
  BY <1>2, EndPlaces
<1>4. ASSUME NEW n \in Nodes, NEW t \in tasks[n] PROVE <<k, id>> \notin Key(t.msg)
  <2>1. t \in Tasks
    BY <1>1 DEF TypeOK, Tasks
  <2>. QED BY <1>2, <2>1, TaskPlace
<1>. QED BY <1>3, <1>4

\* sendRequestTo and broadcastMessage write a message with a fresh id.
LEMMA SendersTokens ==
  ASSUME IInv, NEW n \in Nodes, NEW m \in Nodes, NEW id \in Ids,
         SendRequestTo(n, m, id) \/ BroadcastMessage(n, m, id)
  PROVE  AddressesOK' /\ TokensOK'
<1>1. TypeOK
  BY DEF IInv, SessionsInv
<1>2. /\ Started(n) /\ Fresh(n, id) /\ UNCHANGED <<link, wire, tasks>>
  BY DEF SendRequestTo, BroadcastMessage
<1>3. id >= id
  BY MaxAssumption DEF Ids
<1>4. requests[n][id] = "unused"
  BY <1>2, <1>3 DEF Fresh
<1>5. /\ \A d \in Conns : \A k \in Nodes :
           <<n, id>> \notin Keys(out[d][k]) /\ <<n, id>> \notin Keys(wire[d][k])
      /\ \A k \in Nodes : \A t \in tasks[k] : <<n, id>> \notin Key(t.msg)
  BY <1>4, UnsentNowhere
<1>6. CASE SendRequestTo(n, m, id)
  <2>1. PICK msg \in Messages : msg = [kind |-> "request", id |-> id, of |-> n]
    BY MessageTypes
  <2>2. /\ Write(sessions[n][m], n, msg) /\ requests' = [requests EXCEPT ![n][id] = "sent"]
    BY <1>6, <2>1 DEF SendRequestTo
  <2>3. Key(msg) = {<<n, id>>} /\ msg.kind = "request" /\ msg.of = n
    BY <2>1 DEF Key
  <2>4. /\ \A k \in Nodes, i \in Ids : requests[k][i] = "sent" => requests'[k][i] = "sent"
        /\ \A k \in Key(msg) : requests'[k[1]][k[2]] = "sent"
    BY <1>1, <2>2, <2>3 DEF TypeOK
  <2>5. /\ \A d \in Conns : \A k \in Nodes :
             Keys(out[d][k]) \cap Key(msg) = {} /\ Keys(wire[d][k]) \cap Key(msg) = {}
        /\ \A k \in Nodes : \A u \in tasks'[k] : Key(u.msg) \cap Key(msg) = {}
        /\ \A k \in Nodes : tasks'[k] \subseteq tasks[k]
    BY <1>2, <1>5, <2>3
  <2>. QED BY <1>2, <2>2, <2>3, <2>4, <2>5, WriteTokens
<1>7. CASE BroadcastMessage(n, m, id)
  <2>1. PICK b \in Broadcasts : Write(sessions[n][m], n, [kind |-> b, id |-> id, of |-> n])
    BY <1>7 DEF BroadcastMessage
  <2>2. PICK msg \in Messages : msg = [kind |-> b, id |-> id, of |-> n]
    BY MessageTypes
  <2>3. Key(msg) = {} /\ msg.kind \notin {"request", "answer"}
    BY <2>2, BroadcastsAssumption DEF Key
  <2>4. requests' = [requests EXCEPT ![n][id] = "broadcast"]
    BY <1>7 DEF BroadcastMessage
  <2>5. /\ \A k \in Nodes, i \in Ids : requests[k][i] = "sent" => requests'[k][i] = "sent"
        /\ \A k \in Key(msg) : requests'[k[1]][k[2]] = "sent"
    BY <1>1, <1>4, <2>3, <2>4 DEF TypeOK
  <2>6. /\ \A d \in Conns : \A k \in Nodes :
             Keys(out[d][k]) \cap Key(msg) = {} /\ Keys(wire[d][k]) \cap Key(msg) = {}
        /\ \A k \in Nodes : \A u \in tasks'[k] : Key(u.msg) \cap Key(msg) = {}
        /\ \A k \in Nodes : tasks'[k] \subseteq tasks[k]
    BY <1>2, <2>3
  <2>7. Write(sessions[n][m], n, msg)
    BY <2>1, <2>2
  <2>. QED BY <1>2, <2>3, <2>5, <2>6, <2>7, WriteTokens
<1>. QED BY <1>6, <1>7

\* What a task is about is nowhere else, and no other task is about it.
LEMMA TaskAlone ==
  ASSUME IInv, NEW n \in Nodes, NEW t \in tasks[n]
  PROVE  /\ \A d \in Conns : \A k \in Nodes :
              Keys(out[d][k]) \cap Key(t.msg) = {} /\ Keys(wire[d][k]) \cap Key(t.msg) = {}
         /\ \A k \in Nodes : \A u \in tasks[k] :
              ~(k = n /\ u = t) => Key(u.msg) \cap Key(t.msg) = {}
         /\ \A k \in Key(t.msg) : requests[k[1]][k[2]] = "sent"
<1>1. TokensOK /\ TypeOK
  BY DEF IInv, SessionsInv
<1>2. \A k \in Nodes : \A u \in tasks[k] : u \in Tasks
  BY <1>1 DEF TypeOK, Tasks
<1>3. PICK pt \in Places : pt = <<"task", n, t>> /\ Holds(pt) = Key(t.msg)
  BY <1>2, TaskPlace
<1>4. \A p \in Places : p # pt => Holds(p) \cap Key(t.msg) = {}
  BY <1>1, <1>3 DEF TokensOK
<1>5. ASSUME NEW d \in Conns, NEW k \in Nodes
      PROVE  Keys(out[d][k]) \cap Key(t.msg) = {} /\ Keys(wire[d][k]) \cap Key(t.msg) = {}
  <2>1. PICK po \in Places : po = <<"out", d, k>> /\ Holds(po) = Keys(out[d][k])
    BY EndPlaces
  <2>2. PICK pw \in Places : pw = <<"wire", d, k>> /\ Holds(pw) = Keys(wire[d][k])
    BY EndPlaces
  <2>3. po # pt /\ pw # pt
    BY <1>3, <2>1, <2>2
  <2>. QED BY <1>4, <2>1, <2>2, <2>3
<1>6. ASSUME NEW k \in Nodes, NEW u \in tasks[k], ~(k = n /\ u = t)
      PROVE  Key(u.msg) \cap Key(t.msg) = {}
  <2>1. PICK pu \in Places : pu = <<"task", k, u>> /\ Holds(pu) = Key(u.msg)
    BY <1>2, TaskPlace
  <2>2. pu # pt
    BY <1>3, <1>6, <2>1
  <2>. QED BY <1>4, <2>1, <2>2
<1>7. \A k \in Key(t.msg) : requests[k[1]][k[2]] = "sent"
  BY <1>1, <1>3 DEF TokensOK
<1>. QED BY <1>5, <1>6, <1>7

\* handleRequest turns the request into its answer.
LEMMA HandleRequestTokens ==
  ASSUME IInv, NEW n \in Nodes, NEW t \in tasks[n], HandleRequest(n, t)
  PROVE  AddressesOK' /\ TokensOK'
<1>1. TypeOK /\ AddressesOK
  BY DEF IInv, SessionsInv
<1>2. t \in Tasks /\ t.from \in Nodes /\ t.msg \in Messages
  BY <1>1 DEF TypeOK, Tasks
<1>3. PICK m \in Nodes : m = t.from
  BY <1>2
<1>4. PICK msg \in Messages : msg = [t.msg EXCEPT !.kind = "answer"]
  BY <1>2 DEF Messages
<1>5. /\ t.msg.kind = "request" /\ Started(n) /\ UNCHANGED <<link, wire, requests>>
      /\ Write(sessions[n][m], n, msg) /\ tasks' = [tasks EXCEPT ![n] = tasks[n] \ {t}]
  BY <1>3, <1>4 DEF HandleRequest, Done
<1>6. msg.kind = "answer" /\ msg.of = m /\ msg.of = t.msg.of /\ msg.id = t.msg.id
  BY <1>1, <1>2, <1>3, <1>4, <1>5 DEF AddressesOK, Messages
<1>7. Key(msg) = Key(t.msg)
  BY <1>5, <1>6 DEF Key
<1>8. /\ tasks'[n] = tasks[n] \ {t} /\ \A k \in Nodes : k # n => tasks'[k] = tasks[k]
  BY <1>1, <1>5 DEF TypeOK
<1>9. /\ \A d \in Conns : \A k \in Nodes :
           Keys(out[d][k]) \cap Key(msg) = {} /\ Keys(wire[d][k]) \cap Key(msg) = {}
      /\ \A k \in Nodes : \A u \in tasks'[k] : Key(u.msg) \cap Key(msg) = {}
      /\ \A k \in Key(msg) : requests'[k[1]][k[2]] = "sent"
      /\ \A k \in Nodes : tasks'[k] \subseteq tasks[k]
  BY <1>5, <1>7, <1>8, TaskAlone
<1>. QED BY <1>5, <1>6, <1>9, WriteTokens

\* handleAnswer finds the request that the answer is for.
LEMMA HandleAnswerTokens ==
  ASSUME IInv, NEW n \in Nodes, NEW t \in tasks[n], HandleAnswer(n, t)
  PROVE  AddressesOK' /\ TokensOK'
<1>1. TypeOK /\ AddressesOK /\ TokensOK
  BY DEF IInv, SessionsInv
<1>2. t \in Tasks /\ t.msg \in Messages /\ t.msg.kind = "answer" /\ t.msg.of = n
  BY <1>1 DEF TypeOK, Tasks, AddressesOK, HandleAnswer
<1>3. PICK id \in Ids : id = t.msg.id
  BY <1>2 DEF Messages
<1>4. Key(t.msg) = {<<n, id>>}
  BY <1>2, <1>3 DEF Key
<1>5. requests[n][id] = "sent"
  <2>1. \A k \in Key(t.msg) : requests[k[1]][k[2]] = "sent"
    BY TaskAlone
  <2>. QED BY <1>4, <2>1
<1>6. /\ requests' = [requests EXCEPT ![n][id] = "answered"]
      /\ UNCHANGED <<link, out, wire>> /\ tasks' = [tasks EXCEPT ![n] = tasks[n] \ {t}]
  BY <1>3, <1>5 DEF HandleAnswer, Done
<1>7. /\ tasks'[n] = tasks[n] \ {t} /\ \A k \in Nodes : k # n => tasks'[k] = tasks[k]
  BY <1>1, <1>6 DEF TypeOK
<1>8. AddressesOK'
  <2>1. \A d \in Conns : \A k \in Nodes : Peer(d, k)' = Peer(d, k)
    BY <1>6 DEF Peer
  <2>2. \A k \in Nodes : \A u \in tasks'[k] :
          /\ u.msg.kind = "request" => u.msg.of = u.from
          /\ u.msg.kind = "answer" => u.msg.of = k
    BY <1>1, <1>7 DEF AddressesOK
  <2>. QED BY <1>1, <1>6, <2>1, <2>2 DEF AddressesOK, OutAddress, WireAddress
<1>9. PICK pt \in Places : /\ pt = <<"task", n, t>> /\ Holds(pt) = {<<n, id>>}
                           /\ Holds(pt)' = {}
  BY <1>2, <1>4, <1>7, TaskPlace
<1>10. ASSUME NEW p \in Places
       PROVE  Holds(p)' \subseteq Holds(p) /\ <<n, id>> \notin Holds(p)'
  <2>1. CASE p = pt
    BY <1>9, <2>1
  <2>2. CASE p # pt
    <3>1. Holds(p)' = Holds(p)
      BY <1>6, <1>7, <1>9, <2>2, PlaceForms
    <3>2. Holds(p) \cap {<<n, id>>} = {}
      BY <1>1, <1>9, <2>2 DEF TokensOK
    <3>. QED BY <3>1, <3>2
  <2>. QED BY <2>1, <2>2
<1>11. ASSUME NEW p \in Places, NEW k \in Holds(p)' PROVE requests'[k[1]][k[2]] = "sent"
  <2>1. k \in Holds(p) /\ k # <<n, id>>
    BY <1>10
  <2>2. /\ k[1] \in Nodes /\ k[2] \in Ids /\ k = <<k[1], k[2]>>
        /\ requests[k[1]][k[2]] = "sent"
    BY <1>1, <2>1, HoldsType DEF TokensOK
  <2>3. ~(k[1] = n /\ k[2] = id)
    BY <2>1, <2>2
  <2>. QED BY <1>1, <1>6, <2>2, <2>3 DEF TypeOK
<1>12. \A d \in Conns : \A k \in Nodes : Distinct(out'[d][k]) /\ Distinct(wire'[d][k])
  BY <1>1, <1>6 DEF TokensOK
<1>13. \A p, q \in Places : p # q => Holds(p)' \cap Holds(q)' = {}
  BY <1>1, <1>10 DEF TokensOK
<1>14. TokensOK'
  BY <1>11, <1>12, <1>13 DEF TokensOK
<1>. QED BY <1>8, <1>14
-----------------------------------------------------------------------------
(* The invariant of the messages *)

LEMMA InitIInv == Init => IInv
<1>. SUFFICES ASSUME Init PROVE IInv
  OBVIOUS
<1>1. SessionsInv
  BY InitSessions
<1>2. \A c \in Conns : \A n \in Nodes :
        /\ out[c][n] = <<>> /\ wire[c][n] = <<>>
        /\ DOMAIN out[c][n] = {} /\ DOMAIN wire[c][n] = {}
  BY DEF Init
<1>3. \A n \in Nodes : tasks[n] = {}
  BY DEF Init
<1>4. AddressesOK
  BY <1>2, <1>3 DEF AddressesOK
<1>5. \A p \in Places : Holds(p) = {}
  BY <1>2, <1>3, KeysShort, PlaceForms
<1>6. TokensOK
  BY <1>2, <1>5, KeysShort DEF TokensOK
<1>. QED BY <1>1, <1>4, <1>6 DEF IInv

LEMMA NextIInv == IInv /\ [Next]_vars => IInv'
<1>. SUFFICES ASSUME IInv, [Next]_vars PROVE IInv'
  OBVIOUS
<1>. USE DEF managerVars, socketVars
<1>1. SessionsInv'
  BY NextSessions DEF IInv
<1>2. AddressesOK' /\ TokensOK'
  <2>1. CASE UNCHANGED vars
    BY <2>1, QuietSteps DEF vars
  <2>2. ASSUME NEW n \in Callers, NEW m \in Nodes, CallerStep(n, m)
        PROVE  AddressesOK' /\ TokensOK'
    BY <2>2, SubsetsAssumption, ConnectTokens, SendersTokens DEF CallerStep
  <2>3. ASSUME NEW n \in Nodes, NEW t \in tasks[n],
               HandleRequest(n, t) \/ HandleAnswer(n, t)
        PROVE  AddressesOK' /\ TokensOK'
    BY <2>3, HandleRequestTokens, HandleAnswerTokens
  <2>4. ASSUME NEW n \in Nodes, NEW t, DropTask(n, t) \/ HandleRefused(n, t) \/ StopJoin(n)
        PROVE  AddressesOK' /\ TokensOK'
    <3>1. CASE Conns # {}
      BY <2>4, <3>1, LosingSteps
    <3>2. CASE Conns = {}
      <4>1. UNCHANGED <<link, requests>> /\ \A k \in Nodes : tasks'[k] \subseteq tasks[k]
        BY <2>4 DEF DropTask, HandleRefused, StopJoin, Done, IInv, SessionsInv, TypeOK
      <4>. QED BY <3>2, <4>1, MessagesShrink
    <3>. QED BY <3>1, <3>2
  <2>5. ASSUME NEW n \in Nodes, StopBegin(n) \/ StopClear(n)
        PROVE  AddressesOK' /\ TokensOK'
    BY <2>5, QuietSteps DEF StopBegin, StopClear
  <2>6. ASSUME NEW c \in Conns, OnAccept(c) PROVE AddressesOK' /\ TokensOK'
    BY <2>6, QuietSteps DEF OnAccept
  <2>7. ASSUME NEW c \in Conns, NEW n \in Nodes, EndStep(c, n)
        PROVE  AddressesOK' /\ TokensOK'
    <3>1. Linked(c, n)
      BY <2>7 DEF EndStep
    <3>2. CASE WriteDone(c, n)
      BY <3>1, <3>2, WriteDoneTokens
    <3>3. CASE AsyncHandleMessage(c, n)
      BY <3>1, <3>3, AsyncTokens
    <3>4. CASE DoClose(c, n)
      BY <3>4, LosingSteps
    <3>5. CASE HandshakeStep(c, n)
      BY <3>5, QuietSteps DEF HandshakeStep, FinishHandshake, HandshakeFails
    <3>6. CASE OnRead(c, n) \/ ReadFails(c, n) \/ HandleReadError(c, n)
      BY <3>6, QuietSteps DEF OnRead, ReadFails, HandleReadError
    <3>7. CASE WriteFails(c, n) \/ HandleWriteError(c, n)
      BY <3>7, QuietSteps DEF WriteFails, HandleWriteError
    <3>. QED BY <2>7, <3>2, <3>3, <3>4, <3>5, <3>6, <3>7
      DEF EndStep, ReadStep, WriteStep
  <2>. QED BY <2>1, <2>2, <2>3, <2>4, <2>5, <2>6, <2>7 DEF Next, PoolStep, StopStep
<1>. QED BY <1>1, <1>2 DEF IInv

\* Every message is about a request that waits for its answer, and no request is in
\* two messages, whatever connections are lost and opened on the way.
THEOREM Invariance == Spec => []IInv
BY InitIInv, NextIInv, PTL DEF Spec

\* handleAnswer never meets an answer that nobody waits for: setAnswer does not throw
\* and no session is closed for an answer, however late it comes and over whichever
\* connection.
THEOREM AnswersAwaited == Spec => []AnswersExpected
<1>1. IInv => AnswersExpected
  <2>. SUFFICES ASSUME IInv, NEW n \in Nodes, NEW msg \in AnswersTo(n)
                PROVE  requests[n][msg.id] = "sent"
    BY DEF AnswersExpected
  <2>1. msg \in Messages /\ msg.kind = "answer" /\ msg.of = n
    BY DEF AnswersTo
  <2>2. PICK id \in Ids : id = msg.id
    BY <2>1 DEF Messages
  <2>3. <<n, id>> \in Key(msg)
    BY <2>1, <2>2 DEF Key
  <2>4. ASSUME requests[n][id] # "sent" PROVE FALSE
    <3>1. /\ \A d \in Conns : \A k \in Nodes :
               <<n, id>> \notin Keys(out[d][k]) /\ <<n, id>> \notin Keys(wire[d][k])
          /\ \A k \in Nodes : \A t \in tasks[k] : <<n, id>> \notin Key(t.msg)
      BY <2>4, UnsentNowhere
    <3>2. ASSUME NEW q, NEW i \in DOMAIN q, q[i] = msg PROVE <<n, id>> \in Keys(q)
      BY <2>3, <3>2 DEF Keys
    <3>3. \/ \E t \in tasks[n] : t.msg = msg
          \/ \E c \in Conns : \E m \in Nodes \ {n} :
               \/ \E i \in DOMAIN wire[c][n] : wire[c][n][i] = msg
               \/ \E i \in DOMAIN out[c][m] : out[c][m][i] = msg
      BY DEF AnswersTo
    <3>. QED BY <2>3, <3>1, <3>2, <3>3
  <2>. QED BY <2>2, <2>4
<1>. QED BY <1>1, Invariance, PTL
=============================================================================
