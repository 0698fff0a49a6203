-------------------------------- MODULE WSHub ---------------------------------
(***************************************************************************)
(* The WebSocket hub, service/WSClient.go, with the handler that feeds it  *)
(* connections (handler/serveWs.go) and the goroutines that send through   *)
(* it (SendJSON, called from the goroutine ChatService.CreateMessage       *)
(* starts).                                                                *)
(*                                                                         *)
(* A client is one connection: its send channel, its writePump and its     *)
(* readPump.  The hub maps a user to one client.  Payloads do not matter   *)
(* here, a channel is the number of messages in it.  The hub's lock makes  *)
(* AddClient and RemoveClient atomic; SendToUser releases it between       *)
(* looking the client up and sending on its channel.                       *)
(*                                                                         *)
(* Users and networks are the environment: they connect, and their         *)
(* connections break (close, vanish or stall for longer than the write and *)
(* pong deadlines), at any time.                                           *)
(***************************************************************************)
EXTENDS Naturals, UserIds

CONSTANTS
    Clients,    \* one element per connection ever made
    Senders,    \* goroutines that notify users
    Cap,        \* capacity of a send channel (256 in the code)
    NoClient

ASSUME CapAssumption == Cap \in Nat \ {0}
ASSUME NoClientAssumption == NoClient \notin Clients

VARIABLES
    clients,    \* Hub.clients: user -> registered client
    user,       \* Client.userID
    queue,      \* messages in Client.send
    closed,     \* the clients whose channel, Client.send, has been closed
    conn,       \* the server's side of Client.conn
    peer,       \* whether the other side still answers
    writer,     \* where the writePump is
    reader,     \* where the readPump is
    target,     \* the client a sender has looked up, between the two steps
    panic       \* the panic that ended the process

hubVars == <<clients, user, queue, closed, conn, peer, writer, reader, target, panic>>

(* Every variable keeps its type; a send channel never holds more messages *)
(* than the capacity AddClient makes it with.                              *)
HubTypeOK ==
    /\ clients \in [Users -> Clients \cup {NoClient}]
    /\ user \in [Clients -> Users \cup {NoUser}]
    /\ queue \in [Clients -> 0..Cap]
    /\ closed \subseteq Clients
    /\ conn \in [Clients -> {"none", "open", "closed"}]
    /\ peer \in [Clients -> {"up", "gone"}]
    /\ writer \in [Clients -> {"none", "run", "removing", "done"}]
    /\ reader \in [Clients -> {"none", "run", "removing", "closing", "done"}]
    /\ target \in [Senders -> Clients \cup {NoClient}]
    /\ panic \in {"none", "close of closed channel", "send on closed channel"}

HubInit ==
    /\ clients = [u \in Users |-> NoClient]
    /\ user = [c \in Clients |-> NoUser]
    /\ queue = [c \in Clients |-> 0]
    /\ closed = {}
    /\ conn = [c \in Clients |-> "none"]
    /\ peer = [c \in Clients |-> "up"]
    /\ writer = [c \in Clients |-> "none"]
    /\ reader = [c \in Clients |-> "none"]
    /\ target = [s \in Senders |-> NoClient]
    /\ panic = "none"

Alive == panic = "none"

-------------------------------------------------------------------------------
(* Registration. *)

(* ServeWs upgraded a connection: a new client takes the user's place in   *)
(* the map, whoever had it, and its pumps start.                           *)
AddClient(c, u) ==
    /\ Alive
    /\ conn[c] = "none"
    /\ user' = [user EXCEPT ![c] = u]
    /\ conn' = [conn EXCEPT ![c] = "open"]
    /\ clients' = [clients EXCEPT ![u] = c]
    /\ writer' = [writer EXCEPT ![c] = "run"]
    /\ reader' = [reader EXCEPT ![c] = "run"]
    /\ UNCHANGED <<queue, closed, peer, target, panic>>

(* Mutation: the entry is not deleted. *)
RemoveClientKeepEntry(u) ==
    LET c == clients[u]
    IN  IF c = NoClient
          THEN UNCHANGED <<clients, closed, conn, panic>>
          ELSE /\ conn' = [conn EXCEPT ![c] = "closed"]
               /\ closed' = closed \cup {c}
               /\ panic' = IF c \in closed THEN "close of closed channel" ELSE panic
               /\ UNCHANGED clients

(* Whichever client the user has now is closed and forgotten.  Closing a   *)
(* closed channel panics.                                                  *)
RemoveClient(u) ==
    LET c == clients[u]
    IN  IF c = NoClient
          THEN UNCHANGED <<clients, closed, conn, panic>>
          ELSE /\ conn' = [conn EXCEPT ![c] = "closed"]
               /\ closed' = closed \cup {c}
               /\ panic' = IF c \in closed THEN "close of closed channel" ELSE panic
               /\ clients' = [clients EXCEPT ![u] = NoClient]

-------------------------------------------------------------------------------
(* SendToUser, in two steps. *)

(* The lookup, under the read lock; an unknown user ends the call. *)
LookUp(s, u) ==
    /\ Alive
    /\ target[s] = NoClient
    /\ clients[u] # NoClient
    /\ target' = [target EXCEPT ![s] = clients[u]]
    /\ UNCHANGED <<clients, user, queue, closed, conn, peer, writer, reader, panic>>

(* Mutation: the select has no default case. *)
EnqueueBlocking(s) ==
    LET c == target[s]
    IN  /\ Alive
        /\ c # NoClient
        /\ \/ c \in closed /\ panic' = "send on closed channel" /\ UNCHANGED queue
           \/ c \notin closed /\ queue[c] < Cap
              /\ queue' = [queue EXCEPT ![c] = @ + 1] /\ UNCHANGED panic
        /\ target' = [target EXCEPT ![s] = NoClient]
        /\ UNCHANGED <<clients, user, closed, conn, peer, writer, reader>>

(* Mutation: the channel takes any number of messages. *)
EnqueueUnbounded(s) ==
    LET c == target[s]
    IN  /\ Alive
        /\ c # NoClient
        /\ c \notin closed /\ queue' = [queue EXCEPT ![c] = @ + 1]
        /\ target' = [target EXCEPT ![s] = NoClient]
        /\ UNCHANGED <<clients, user, closed, conn, peer, writer, reader, panic>>

(* The select: a full channel drops the message, a channel that has been   *)
(* closed since the lookup panics, also in a select with a default case.   *)
Enqueue(s) ==
    LET c == target[s]
    IN  /\ Alive
        /\ c # NoClient
        /\ \/ c \in closed /\ panic' = "send on closed channel" /\ UNCHANGED queue
           \/ c \notin closed /\ queue[c] < Cap
              /\ queue' = [queue EXCEPT ![c] = @ + 1] /\ UNCHANGED panic
           \/ c \notin closed /\ queue[c] = Cap /\ UNCHANGED <<queue, panic>>
        /\ target' = [target EXCEPT ![s] = NoClient]
        /\ UNCHANGED <<clients, user, closed, conn, peer, writer, reader>>

-------------------------------------------------------------------------------
(* writePump. *)

(* Reading or writing fails once the server closed the connection, and may *)
(* fail as soon as the peer is gone.                                       *)
Broken(c) == conn[c] = "closed" \/ peer[c] = "gone"

(* Mutation: the pump returns after every message. *)
WriteMessageOnce(c) ==
    /\ Alive
    /\ writer[c] = "run"
    /\ queue[c] > 0
    /\ queue' = [queue EXCEPT ![c] = @ - 1]
    /\ writer' = [writer EXCEPT ![c] = "removing"]
    /\ UNCHANGED <<clients, user, closed, conn, peer, reader, target, panic>>

(* A message is taken from the channel and written; an error ends the      *)
(* loop.  A write to a peer that is gone may still succeed, into the       *)
(* buffers of the socket.                                                  *)
WriteMessage(c) ==
    /\ Alive
    /\ writer[c] = "run"
    /\ queue[c] > 0
    /\ queue' = [queue EXCEPT ![c] = @ - 1]
    /\ \/ conn[c] = "open" /\ UNCHANGED writer
       \/ Broken(c) /\ writer' = [writer EXCEPT ![c] = "removing"]
    /\ UNCHANGED <<clients, user, closed, conn, peer, reader, target, panic>>

(* The channel is closed and drained: a Close frame, and the loop ends. *)
WriteClose(c) ==
    /\ Alive
    /\ writer[c] = "run"
    /\ c \in closed /\ queue[c] = 0
    /\ writer' = [writer EXCEPT ![c] = "removing"]
    /\ UNCHANGED <<clients, user, queue, closed, conn, peer, reader, target, panic>>

(* Mutation: no ticker. *)
NoPing(c) == FALSE /\ UNCHANGED hubVars

(* The ticker: a ping that fails ends the loop.  A ping that succeeds      *)
(* changes nothing.                                                        *)
PingFails(c) ==
    /\ Alive
    /\ writer[c] = "run"
    /\ Broken(c)
    /\ writer' = [writer EXCEPT ![c] = "removing"]
    /\ UNCHANGED <<clients, user, queue, closed, conn, peer, reader, target, panic>>

(* Mutation: the deferred call is missing. *)
WriterJustEnds(c) ==
    /\ Alive
    /\ writer[c] = "removing"
    /\ writer' = [writer EXCEPT ![c] = "done"]
    /\ UNCHANGED <<clients, user, queue, closed, conn, peer, reader, target, panic>>

(* The deferred RemoveClient(c.userID): by user, not by client. *)
WriterEnds(c) ==
    /\ Alive
    /\ writer[c] = "removing"
    /\ RemoveClient(user[c])
    /\ writer' = [writer EXCEPT ![c] = "done"]
    /\ UNCHANGED <<user, queue, peer, reader, target>>

-------------------------------------------------------------------------------
(* readPump. *)

(* ReadMessage fails: closed by the server, by the peer, or no pong within *)
(* the deadline.  What it reads successfully is dropped.                   *)
ReadFails(c) ==
    /\ Alive
    /\ reader[c] = "run"
    /\ Broken(c)
    /\ reader' = [reader EXCEPT ![c] = "removing"]
    /\ UNCHANGED <<clients, user, queue, closed, conn, peer, writer, target, panic>>

(* The deferred function: RemoveClient(c.userID) ... *)
ReaderRemoves(c) ==
    /\ Alive
    /\ reader[c] = "removing"
    /\ RemoveClient(user[c])
    /\ reader' = [reader EXCEPT ![c] = "closing"]
    /\ UNCHANGED <<user, queue, peer, writer, target>>

(* ... and then the close of its own connection. *)
ReaderCloses(c) ==
    /\ Alive
    /\ reader[c] = "closing"
    /\ conn' = [conn EXCEPT ![c] = "closed"]
    /\ reader' = [reader EXCEPT ![c] = "done"]
    /\ UNCHANGED <<clients, user, queue, closed, peer, writer, target, panic>>

-------------------------------------------------------------------------------
(* The peer closes, vanishes or stalls. *)
PeerGone(c) ==
    /\ Alive
    /\ conn[c] # "none"
    /\ peer[c] = "up"
    /\ peer' = [peer EXCEPT ![c] = "gone"]
    /\ UNCHANGED <<clients, user, queue, closed, conn, writer, reader, target, panic>>

Writer(c) == WriteMessage(c) \/ WriteClose(c) \/ PingFails(c) \/ WriterEnds(c)
Reader(c) == ReadFails(c) \/ ReaderRemoves(c) \/ ReaderCloses(c)

HubNext ==
    \/ \E c \in Clients, u \in Users : AddClient(c, u)
    \/ \E s \in Senders, u \in Users : LookUp(s, u)
    \/ \E s \in Senders : Enqueue(s)
    \/ \E c \in Clients : Writer(c) \/ Reader(c) \/ PeerGone(c)

HubSpec == HubInit /\ [][HubNext]_hubVars

(* Goroutines are scheduled; the ping period, the write deadline and the   *)
(* pong deadline make a pump notice sooner or later that its connection is *)
(* broken, also one that keeps writing messages successfully (hence its    *)
(* own fairness for the ping).  Connecting and disconnecting is up to      *)
(* users.                                                                  *)
Fairness ==
    /\ \A c \in Clients : WF_hubVars(Writer(c)) /\ WF_hubVars(Reader(c)) /\ WF_hubVars(PingFails(c))
    /\ \A s \in Senders : WF_hubVars(Enqueue(s))

HubFairSpec == HubSpec /\ Fairness

-------------------------------------------------------------------------------
(* Properties. *)

(* RemoveClient runs twice per connection, once from each pump, and may    *)
(* run for a client it was not meant for, yet no channel is closed twice   *)
(* (that would bring the process down).                                    *)
NoDoubleClose == panic # "close of closed channel"

(* A client in the map is served: it belongs to that user, its channel and *)
(* its connection are open, and neither pump has finished its cleanup.  So *)
(* a message queued for a registered client has a reader.                  *)
RegisteredIsServed ==
    \A u \in Users, c \in Clients :
        clients[u] = c =>
            /\ user[c] = u
            /\ c \notin closed
            /\ conn[c] = "open"
            /\ writer[c] \in {"run", "removing"}
            /\ reader[c] \in {"run", "removing"}

(* What makes the two invariants above inductive: a pump that left its     *)
(* loop had a reason to, and a channel is closed together with its         *)
(* connection.                                                             *)
PumpsHaveCause ==
    \A c \in Clients :
        /\ conn[c] = "none" => writer[c] = "none" /\ reader[c] = "none"
        /\ conn[c] # "none" => user[c] \in Users
        /\ c \in closed => conn[c] = "closed"
        /\ writer[c] \in {"removing", "done"} => Broken(c)
        /\ reader[c] \in {"removing", "closing", "done"} => Broken(c)

HubIInv == HubTypeOK /\ NoDoubleClose /\ RegisteredIsServed /\ PumpsHaveCause

(* A connection that still answers leaves the map only because of another  *)
(* connection of the same user, one that replaces it or one whose pump is  *)
(* cleaning up.  Other users and its own pumps never evict it.             *)
EvictedOnlyByOwnConnections ==
    [][\A u \in Users, c \in Clients :
          clients[u] = c /\ peer[c] = "up" /\ clients'[u] # c =>
              \E d \in Clients \ {c} :
                  /\ user'[d] = u
                  /\ clients'[u] = d \/ writer[d] = "removing" \/ reader[d] = "removing"]_hubVars

(* Both pumps of a connection whose peer is gone end, also those of a      *)
(* connection that was replaced in the map and whose channel is therefore  *)
(* never closed: no goroutine is left behind.                              *)
PumpsEnd ==
    \A c \in Clients :
        conn[c] # "none" /\ peer[c] = "gone"
            ~> (writer[c] = "done" /\ reader[c] = "done") \/ ~Alive

(* A notification never waits for a slow or dead receiver. *)
SendersNeverBlock ==
    \A s \in Senders : target[s] # NoClient ~> target[s] = NoClient \/ ~Alive

===============================================================================
