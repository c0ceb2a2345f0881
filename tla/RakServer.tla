------------------------------ MODULE RakServer ------------------------------
(***************************************************************************)
(* The threads of the server and what they share: the RakNet thread        *)
(* (tick_raknet_task) owns the sockets and the connections, the workers    *)
(* (handle_raknet_main_to_threaded) run the handlers of server.c, which    *)
(* own the players, and main starts and stops the rest.  They talk through *)
(* two queues, whose operations are atomic (MutexQueue implements          *)
(* WorkQueue), and share `connections` without a lock.                     *)
(*                                                                         *)
(* A connection is its port: its IP is a pointer to the one buffer of      *)
(* inet_ntoa (socket.c), which always reads as the sender of the latest    *)
(* datagram.  The messages of the queues hold copies of the whole address. *)
(***************************************************************************)
EXTENDS Naturals, Sequences

CONSTANTS Ips, Ports,
          Workers,       \* server.c creates one
          FrameSets,     \* what a datagram of a connected client holds
          MaxDatagrams   \* bound: datagrams received

Address == [ip : Ips, port : Ports]
Anyone == CHOOSE a \in Address : TRUE
FrameKinds == {"new_incoming_connection", "disconnect_notification",
               "network_settings", "play", "not_a_game"}

ASSUME PortsExist == Ports # {}
ASSUME FrameSetsHoldFrames == FrameSets \subseteq Seq(FrameKinds)
ASSUME MaxDatagramsIsNat == MaxDatagrams \in Nat

VARIABLES inet_address,     \* the buffer of inet_ntoa
          connections,      \* server->connections, the ports
          threaded_to_main, main_to_threaded,
          server_running,   \* is_running of server.c
          is_running,       \* server->is_running
          destroyed,        \* destroy_raknet_server has freed the queues
          tick,             \* where tick_raknet is,
          peer, frames,     \* whom it serves or disconnects, the frames of its datagram left
          worker,           \* where each worker is, what it holds
          main,             \* where main() is
          players,          \* player_manager, the addresses
          process,
          datagrams

vars == <<inet_address, connections, threaded_to_main, main_to_threaded, server_running,
          is_running, destroyed, tick, peer, frames, worker, main, players, process, datagrams>>
network == <<inet_address, connections, is_running, destroyed, tick, peer, frames, datagrams>>

Message(kind, address) == [kind |-> kind, address |-> address]
Disconnect(address) == Message("disconnect_notification", address)
Messages == [kind : FrameKinds \cup {"reply", "shutdown"}, address : Address]

Idle == [at |-> "waiting", message |-> <<>>, connection |-> <<>>, dangling |-> FALSE]

\* main() up to its loop; no client is connected, no datagram was received.
Init ==
  /\ inet_address \in Ips
  /\ connections = <<>>
  /\ threaded_to_main = <<>> /\ main_to_threaded = <<>>
  /\ server_running = TRUE /\ is_running = TRUE /\ destroyed = FALSE
  /\ tick = "packet" /\ peer = Anyone /\ frames = <<>>
  /\ worker = [w \in Workers |-> Idle]
  /\ main = "serving"
  /\ players = {}
  /\ process = "running"
  /\ datagrams = 0

Elements(s) == {s[k] : k \in DOMAIN s}

\* has_raknet_connection, get_raknet_connection.
has_connection(a) == a.ip = inet_address /\ a.port \in Elements(connections)

\* The array remove_raknet_connection makes: all others, in their order.
Without(port) ==
  LET k == CHOOSE k \in DOMAIN connections : connections[k] = port
  IN [n \in 1 .. Len(connections) - 1 |-> IF n < k THEN connections[n] ELSE connections[n + 1]]

\* An address read through connection->address.
AddressOf(port) == [ip |-> inet_address, port |-> port]

\* The array moves when it grows or shrinks: every pointer into it dangles.
Dangle == worker' = [w \in Workers |-> [worker[w] EXCEPT !.dangling = @ \/ worker[w].at = "executing"]]

\* put_queue; once the queues are freed it reallocates a freed array, which the C
\* library may or may not notice.
Put(queue, m) ==
  \/ queue' = Append(queue, m) /\ UNCHANGED process
  \/ destroyed /\ process' = "crashed" /\ UNCHANGED queue
------------------------------------------------------------------------------
\* receive_data returns nothing, or a datagram that changes nothing here.
ReceiveNothing ==
  /\ tick = "packet"
  /\ tick' = "internal"
  /\ UNCHANGED <<inet_address, connections, threaded_to_main, main_to_threaded, server_running,
                 is_running, destroyed, peer, frames, worker, main, players, process, datagrams>>

Received(a, next) ==
  /\ tick = "packet" /\ datagrams < MaxDatagrams
  /\ tick' = next
  /\ inet_address' = a.ip
  /\ datagrams' = datagrams + 1

\* handle_open_connection_request_2: the port alone decides, both addresses are the buffer.
OpenConnection(a) ==
  /\ Received(a, "internal")
  /\ IF a.port \in Elements(connections)
     THEN UNCHANGED <<connections, worker>>
     ELSE connections' = Append(connections, a.port) /\ Dangle
  /\ UNCHANGED <<threaded_to_main, main_to_threaded, server_running, is_running, destroyed,
                 peer, frames, main, players, process>>

\* The loop over the frames of a set ends with its last one.
NextFrame(set) == IF set = <<>> THEN "internal" ELSE "frames"
PeerOf(a, set) == IF set = <<>> THEN Anyone ELSE a

\* handle_frame_set: for a client that is connected, frame by frame, ...
FrameSet(a, set) ==
  /\ a.port \in Elements(connections)
  /\ Received(a, NextFrame(set))
  /\ peer' = PeerOf(a, set) /\ frames' = set
  /\ UNCHANGED <<connections, threaded_to_main, main_to_threaded, server_running, is_running,
                 destroyed, worker, main, players, process>>

\* Mutant: a notification is obeyed at once, and what follows it is handled all the same.
MutHandleFrame ==
  /\ tick = "frames" /\ frames # <<>>
  /\ frames' = Tail(frames)
  /\ tick' = NextFrame(Tail(frames)) /\ peer' = PeerOf(peer, Tail(frames))
  /\ main_to_threaded' = Append(main_to_threaded, Message(Head(frames), peer))
  /\ IF Head(frames) = "disconnect_notification" /\ has_connection(peer)
     THEN connections' = Without(peer.port) /\ Dangle
     ELSE UNCHANGED <<connections, worker>>
  /\ UNCHANGED <<inet_address, threaded_to_main, server_running, is_running, destroyed,
                 main, players, process, datagrams>>

\* ... each while the client is connected, which this thread alone can end (handle_frame): a
\* disconnect notification goes to its own queue, to be handled after the set; the rest goes to
\* the workers.
HandleFrame ==
  /\ tick = "frames" /\ frames # <<>> /\ has_connection(peer)
  /\ frames' = Tail(frames)
  /\ tick' = NextFrame(Tail(frames)) /\ peer' = PeerOf(peer, Tail(frames))
  /\ IF Head(frames) = "disconnect_notification"
     THEN /\ threaded_to_main' = Append(threaded_to_main, Disconnect(peer))
          /\ UNCHANGED main_to_threaded
     ELSE /\ main_to_threaded' = Append(main_to_threaded, Message(Head(frames), peer))
          /\ UNCHANGED threaded_to_main
  /\ UNCHANGED <<inet_address, connections, server_running, is_running, destroyed, worker,
                 main, players, process, datagrams>>

HeadIs(kind) ==
  /\ tick = "internal" /\ threaded_to_main # <<>>
  /\ Head(threaded_to_main).kind = kind

\* INTERNAL_FRAME: into the connection's own queue (RakSender), or dropped.
SendReply ==
  /\ HeadIs("reply")
  /\ threaded_to_main' = Tail(threaded_to_main)
  /\ UNCHANGED <<inet_address, connections, main_to_threaded, server_running, is_running,
                 destroyed, tick, peer, frames, worker, main, players, process, datagrams>>

\* Mutant: the workers are not told.
MutNotifyWorkers ==
  /\ HeadIs("disconnect_notification")
  /\ threaded_to_main' = Tail(threaded_to_main)
  /\ peer' = Head(threaded_to_main).address
  /\ tick' = "disconnecting"
  /\ UNCHANGED <<inet_address, connections, main_to_threaded, server_running, is_running,
                 destroyed, frames, worker, main, players, process, datagrams>>

\* disconnect_raknet_client: first the workers are told ...
NotifyWorkers ==
  /\ HeadIs("disconnect_notification")
  /\ threaded_to_main' = Tail(threaded_to_main)
  /\ peer' = Head(threaded_to_main).address
  /\ Put(main_to_threaded, Disconnect(Head(threaded_to_main).address))
  /\ tick' = "disconnecting"
  /\ UNCHANGED <<inet_address, connections, server_running, is_running, destroyed, frames,
                 worker, main, players, datagrams>>

\* ... then the connection is freed, whichever session of that address it is.
RemoveConnection ==
  /\ tick = "disconnecting"
  /\ tick' = "internal" /\ peer' = Anyone
  /\ IF has_connection(peer)
     THEN connections' = Without(peer.port) /\ Dangle
     ELSE UNCHANGED <<connections, worker>>
  /\ UNCHANGED <<inet_address, threaded_to_main, main_to_threaded, server_running, is_running,
                 destroyed, frames, main, players, process, datagrams>>

\* Mutant: the threads are not told to end.
MutDestroy ==
  /\ HeadIs("shutdown")
  /\ threaded_to_main' = Tail(threaded_to_main)
  /\ tick' = "destroying"
  /\ UNCHANGED <<inet_address, connections, main_to_threaded, server_running, is_running,
                 destroyed, peer, frames, worker, main, players, process, datagrams>>

\* destroy_raknet_server: the flag, ...
Destroy ==
  /\ HeadIs("shutdown")
  /\ threaded_to_main' = Tail(threaded_to_main)
  /\ is_running' = FALSE
  /\ tick' = "destroying"
  /\ UNCHANGED <<inet_address, connections, main_to_threaded, server_running, destroyed,
                 peer, frames, worker, main, players, process, datagrams>>

\* ... on_dn for each connection, in this thread, ...
DestroyConnection ==
  /\ tick = "destroying" /\ connections # <<>>
  /\ players' = players \ {AddressOf(Head(connections))}
  /\ connections' = Tail(connections) /\ Dangle
  /\ UNCHANGED <<inet_address, threaded_to_main, main_to_threaded, server_running, is_running,
                 destroyed, tick, peer, frames, main, process, datagrams>>

\* ... and the queues, with what they hold, their locks and the socket.
DestroyQueues ==
  /\ tick = "destroying" /\ connections = <<>>
  /\ threaded_to_main' = <<>> /\ main_to_threaded' = <<>>
  /\ destroyed' = TRUE
  /\ tick' = "internal"
  /\ UNCHANGED <<inet_address, connections, server_running, is_running, peer, frames, worker, main,
                 players, process, datagrams>>

\* The queue is empty: update_raknet_connections, a pause, and the loop's condition.
EndTick ==
  /\ tick = "internal" /\ threaded_to_main = <<>>
  /\ tick' = IF is_running THEN "packet" ELSE "exited"
  /\ UNCHANGED <<inet_address, connections, threaded_to_main, main_to_threaded, server_running,
                 is_running, destroyed, peer, frames, worker, main, players, process, datagrams>>

TickRaknet ==
  \/ ReceiveNothing
  \/ \E a \in Address : OpenConnection(a) \/ \E set \in FrameSets : FrameSet(a, set)
  \/ HandleFrame
  \/ SendReply \/ NotifyWorkers \/ RemoveConnection
  \/ Destroy \/ DestroyConnection \/ DestroyQueues \/ EndTick
------------------------------------------------------------------------------
InLoop(w) == worker[w].at = "waiting"

WorkerExit(w) ==
  /\ InLoop(w) /\ ~is_running
  /\ worker' = [worker EXCEPT ![w].at = "exited"]
  /\ UNCHANGED <<network, threaded_to_main, main_to_threaded, server_running, main, players, process>>

WorkerTake(w) ==
  /\ InLoop(w) /\ is_running /\ main_to_threaded # <<>>
  /\ worker' = [worker EXCEPT ![w] = [Idle EXCEPT !.at = "taken", !.message = Head(main_to_threaded)]]
  /\ main_to_threaded' = Tail(main_to_threaded)
  /\ UNCHANGED <<network, threaded_to_main, server_running, main, players, process>>

Taken(w, kinds) == worker[w].at = "taken" /\ worker[w].message.kind \in kinds

\* get_raknet_connection, in the array of another thread: the executor gets a pointer.
WorkerLookup(w) ==
  /\ Taken(w, FrameKinds \ {"disconnect_notification"})
  /\ worker' = [worker EXCEPT ![w] =
       IF has_connection(worker[w].message.address)
       THEN [@ EXCEPT !.at = "executing", !.connection = worker[w].message.address.port]
       ELSE Idle]
  /\ UNCHANGED <<network, threaded_to_main, main_to_threaded, server_running, main, players, process>>

\* Mutant: the player stays.
MutOnDn(w) ==
  /\ Taken(w, {"disconnect_notification"})
  /\ worker' = [worker EXCEPT ![w] = Idle]
  /\ UNCHANGED <<network, threaded_to_main, main_to_threaded, server_running, main, players, process>>

on_dn(w) ==
  /\ Taken(w, {"disconnect_notification"})
  /\ players' = players \ {worker[w].message.address}
  /\ worker' = [worker EXCEPT ![w] = Idle]
  /\ UNCHANGED <<network, threaded_to_main, main_to_threaded, server_running, main, process>>

\* What connection->address reads in an executor.  A dangling pointer reads what was
\* there, or what the array has moved there since.
Read(w) == {AddressOf(worker[w].connection)}
             \cup IF worker[w].dangling THEN {AddressOf(p) : p \in Elements(connections)} ELSE {}

Executing(w, kind) ==
  /\ worker[w].at = "executing" /\ worker[w].message.kind = kind
  /\ worker' = [worker EXCEPT ![w] = Idle]

\* send_raknet_frame.
send_raknet_frame(a) ==
  IF has_connection(a) THEN Put(threaded_to_main, Message("reply", a))
                       ELSE UNCHANGED <<threaded_to_main, process>>

\* on_nic only logs.
on_nic(w) ==
  /\ Executing(w, "new_incoming_connection")
  /\ UNCHANGED <<network, threaded_to_main, main_to_threaded, server_running, main, players, process>>

\* on_f, a request for the network settings: the player record is made here.
on_f_network_settings(w) ==
  /\ Executing(w, "network_settings")
  /\ \E a \in Read(w) :
       /\ players' = players \cup {a}
       /\ send_raknet_frame(a)
  /\ UNCHANGED <<network, main_to_threaded, server_running, main>>

\* on_f, any packet for which the player must be known, and its answer, if any.
on_f_play(w) ==
  /\ Executing(w, "play")
  /\ \/ \E a \in Read(w) \cap players : send_raknet_frame(a)
     \/ UNCHANGED <<threaded_to_main, process>>
  /\ UNCHANGED <<network, main_to_threaded, server_running, main, players>>

\* on_f, what is not a game packet: the client is to be disconnected.
on_f_not_a_game(w) ==
  /\ Executing(w, "not_a_game")
  /\ \E a \in Read(w) : Put(threaded_to_main, Disconnect(a))
  /\ UNCHANGED <<network, main_to_threaded, server_running, main, players>>

\* A dangling pointer may as well end the process.
WorkerCrash(w) ==
  /\ worker[w].at = "executing" /\ worker[w].dangling
  /\ process' = "crashed"
  /\ UNCHANGED <<network, threaded_to_main, main_to_threaded, server_running, worker, main, players>>

Work(w) ==
  \/ WorkerExit(w) \/ WorkerTake(w) \/ WorkerLookup(w) \/ on_dn(w)
  \/ on_nic(w) \/ on_f_network_settings(w) \/ on_f_play(w) \/ on_f_not_a_game(w) \/ WorkerCrash(w)
------------------------------------------------------------------------------
\* "stop" on the console (command_task).
Stop ==
  /\ server_running
  /\ server_running' = FALSE
  /\ UNCHANGED <<network, threaded_to_main, main_to_threaded, worker, main, players, process>>

\* send_raknet_shutdown.
MainShutdown ==
  /\ main = "serving" /\ ~server_running
  /\ Put(threaded_to_main, Message("shutdown", Anyone))
  /\ main' = "joining"
  /\ UNCHANGED <<network, main_to_threaded, server_running, worker, players>>

\* join_worker of the RakNet thread alone; the process ends with the workers in it.
MainJoin ==
  /\ main = "joining" /\ tick = "exited"
  /\ main' = "exited"
  /\ process' = "exited"
  /\ UNCHANGED <<network, threaded_to_main, main_to_threaded, server_running, worker, players>>

Main == MainShutdown \/ MainJoin

Running == process = "running"

Next == Running /\ (TickRaknet \/ (\E w \in Workers : Work(w)) \/ Stop \/ Main)

Spec == Init /\ [][Next]_vars

\* The operating system runs every thread; clients and the console owe nothing.
FairSpec ==
  /\ Spec
  /\ WF_vars(Running /\ TickRaknet)
  /\ \A w \in Workers : WF_vars(Running /\ Work(w))
  /\ WF_vars(Running /\ Main)
------------------------------------------------------------------------------
Ats == {"waiting", "taken", "executing", "exited"}

TypeOK ==
  /\ inet_address \in Ips
  /\ connections \in Seq(Ports)
  /\ \A k, l \in DOMAIN connections : connections[k] = connections[l] => k = l
  /\ threaded_to_main \in Seq(Messages) /\ main_to_threaded \in Seq(Messages)
  /\ server_running \in BOOLEAN /\ is_running \in BOOLEAN /\ destroyed \in BOOLEAN
  /\ tick \in {"packet", "frames", "internal", "disconnecting", "destroying", "exited"}
  /\ peer \in Address /\ frames \in Seq(FrameKinds)
  /\ \A w \in Workers :
       /\ worker[w].at \in Ats /\ worker[w].dangling \in BOOLEAN
       /\ worker[w].at \in {"taken", "executing"} => worker[w].message \in Messages
       /\ worker[w].at = "executing" => worker[w].connection \in Ports
  /\ main \in {"serving", "joining", "exited"}
  /\ players \subseteq Address
  /\ process \in {"running", "exited", "crashed"}
  /\ datagrams \in Nat

Notified(a) ==
  \/ Disconnect(a) \in Elements(main_to_threaded)
  \/ \E w \in Workers : Taken(w, {"disconnect_notification"}) /\ worker[w].message.address = a

\* The players of server.c follow the connections of another thread through a queue
\* only: the tables hold what they should, no connection twice, and a player without a
\* connection is about to be removed.  It fails with two workers, or with clients of two
\* IPs (the buffer of inet_ntoa).
NoOrphanPlayer ==
  /\ TypeOK
  /\ is_running => \A a \in players : has_connection(a) \/ Notified(a)

Connected(port) == port \in Elements(connections)

\* The message that the client of a port is gone.
Ends(m, port) == m.kind = "disconnect_notification" /\ m.address.port = port

\* The handlers see a session's end after all of its frames: a frame of a port that is not
\* connected any more, queued or in a handler, is followed by the notification of that port,
\* so what it still does to the players comes before the end.
NotificationComesLast ==
  is_running =>
    /\ \A k \in DOMAIN main_to_threaded :
         LET port == main_to_threaded[k].address.port
         IN Connected(port) \/ \E l \in DOMAIN main_to_threaded : k <= l /\ Ends(main_to_threaded[l], port)
    /\ \A w \in Workers : worker[w].at = "executing" =>
         LET port == worker[w].message.address.port
         IN Connected(port) \/ \E m \in Elements(main_to_threaded) : Ends(m, port)

\* A player whose connection is gone goes, or comes back with a new connection.
PlayersLeave ==
  \A a \in Address :
    (a \in players /\ ~has_connection(a)) ~>
      (a \notin players \/ has_connection(a) \/ ~is_running \/ ~Running)

\* "stop" ends the process, whatever the clients and the workers do.
StopEnds == ~server_running ~> ~Running
==============================================================================
