--------------------------- MODULE RakServerProofs ---------------------------
(***************************************************************************)
(* The handlers of server.c follow the connections of the RakNet thread,   *)
(* for the one worker that main creates, with clients of any number of IPs *)
(* and ports, any frames in the datagrams and any number of them.          *)
(***************************************************************************)
EXTENDS RakServer, SequenceTheorems, TLAPS

-----------------------------------------------------------------------------
(* Sequences and their elements *)

LEMMA AppendElements ==
  ASSUME NEW S, NEW s \in Seq(S), NEW x \in S
  PROVE  /\ Append(s, x) \in Seq(S)
         /\ Len(Append(s, x)) = Len(s) + 1
         /\ Append(s, x)[Len(s) + 1] = x
         /\ \A k \in DOMAIN s : k \in DOMAIN Append(s, x) /\ Append(s, x)[k] = s[k]
         /\ DOMAIN Append(s, x) = DOMAIN s \cup {Len(s) + 1}
         /\ Elements(Append(s, x)) = Elements(s) \cup {x}
<1>1. /\ Append(s, x) \in Seq(S) /\ Len(Append(s, x)) = Len(s) + 1 /\ Append(s, x)[Len(s) + 1] = x
      /\ \A k \in DOMAIN s : k \in DOMAIN Append(s, x) /\ Append(s, x)[k] = s[k]
      /\ DOMAIN Append(s, x) = DOMAIN s \cup {Len(s) + 1}
  OBVIOUS
<1>2. Elements(Append(s, x)) = Elements(s) \cup {x}
  BY <1>1 DEF Elements
<1> QED
  BY <1>1, <1>2

LEMMA TailElements ==
  ASSUME NEW S, NEW s \in Seq(S), s # <<>>
  PROVE  /\ Head(s) \in S /\ Tail(s) \in Seq(S)
         /\ 1 \in DOMAIN s /\ Head(s) = s[1]
         /\ Len(Tail(s)) = Len(s) - 1
         /\ \A k \in DOMAIN Tail(s) : k + 1 \in DOMAIN s /\ Tail(s)[k] = s[k + 1]
         /\ \A k \in DOMAIN s : k # 1 => k - 1 \in DOMAIN Tail(s)
         /\ Elements(s) = {Head(s)} \cup Elements(Tail(s))
<1>1. /\ Head(s) \in S /\ Tail(s) \in Seq(S) /\ Len(Tail(s)) = Len(s) - 1 /\ Len(s) \in Nat \ {0}
      /\ \A k \in 1 .. Len(Tail(s)) : Tail(s)[k] = s[k + 1]
  BY HeadTailProperties, EmptySeq
<1>2. DOMAIN s = 1 .. Len(s) /\ DOMAIN Tail(s) = 1 .. Len(s) - 1 /\ Head(s) = s[1]
  BY <1>1
<1>3. /\ 1 \in DOMAIN s
      /\ \A k \in DOMAIN Tail(s) : k + 1 \in DOMAIN s /\ Tail(s)[k] = s[k + 1]
      /\ \A k \in DOMAIN s : k # 1 => k - 1 \in DOMAIN Tail(s)
  BY <1>1, <1>2
<1>4. Elements(s) \subseteq {Head(s)} \cup Elements(Tail(s))
  <2> SUFFICES ASSUME NEW k \in DOMAIN s PROVE s[k] \in {Head(s)} \cup Elements(Tail(s))
    BY DEF Elements
  <2>1. CASE k = 1
    BY <2>1, <1>2
  <2>2. CASE k # 1
    <3>1. k - 1 \in DOMAIN Tail(s) /\ Tail(s)[k - 1] = s[(k - 1) + 1] /\ (k - 1) + 1 = k
      BY <2>2, <1>2, <1>3, <1>1
    <3> QED
      BY <3>1 DEF Elements
  <2> QED
    BY <2>1, <2>2
<1>5. {Head(s)} \cup Elements(Tail(s)) \subseteq Elements(s)
  BY <1>2, <1>3 DEF Elements
<1> QED
  BY <1>1, <1>2, <1>3, <1>4, <1>5

\* remove_raknet_connection takes one port out of an array without duplicates, and no other.
LEMMA WithoutOne ==
  ASSUME NEW port \in Ports, connections \in Seq(Ports), port \in Elements(connections),
         \A k, l \in DOMAIN connections : connections[k] = connections[l] => k = l
  PROVE  /\ Without(port) \in Seq(Ports)
         /\ \A k, l \in DOMAIN Without(port) : Without(port)[k] = Without(port)[l] => k = l
         /\ Elements(Without(port)) = Elements(connections) \ {port}
<1> DEFINE k0 == CHOOSE k \in DOMAIN connections : connections[k] = port
           n == Len(connections)
           old(k) == IF k < k0 THEN k ELSE k + 1
           rest == [k \in 1 .. n - 1 |-> IF k < k0 THEN connections[k] ELSE connections[k + 1]]
<1>1. k0 \in DOMAIN connections /\ connections[k0] = port
  BY DEF Elements
<1>2. n \in Nat \ {0} /\ DOMAIN connections = 1 .. n /\ k0 \in 1 .. n
  BY <1>1
<1>3. Without(port) = rest
  BY DEF Without
<1> HIDE DEF k0, n
<1>4. \A k \in 1 .. n - 1 : old(k) \in 1 .. n /\ old(k) # k0 /\ rest[k] = connections[old(k)]
  BY <1>2
<1>5. \A k \in 1 .. n : connections[k] \in Ports
  BY <1>2
<1>6. rest \in [1 .. n - 1 -> Ports]
  BY <1>2, <1>5
<1>7. rest \in Seq(Ports) /\ DOMAIN rest = 1 .. n - 1
  BY <1>2, <1>6, SeqDef
<1>8. \A k, l \in 1 .. n - 1 : rest[k] = rest[l] => k = l
  <2> SUFFICES ASSUME NEW k \in 1 .. n - 1, NEW l \in 1 .. n - 1, rest[k] = rest[l] PROVE k = l
    OBVIOUS
  <2>1. old(k) = old(l)
    BY <1>2, <1>4
  <2> QED
    BY <2>1, <1>2
<1>9. Elements(rest) \subseteq Elements(connections) \ {port}
  <2> SUFFICES ASSUME NEW k \in 1 .. n - 1 PROVE rest[k] \in Elements(connections) /\ rest[k] # port
    BY <1>7 DEF Elements
  <2>1. old(k) \in DOMAIN connections /\ rest[k] = connections[old(k)] /\ old(k) # k0
    BY <1>2, <1>4
  <2> QED
    BY <2>1, <1>1 DEF Elements
<1>10. Elements(connections) \ {port} \subseteq Elements(rest)
  <2> SUFFICES ASSUME NEW k \in 1 .. n, connections[k] # port PROVE \E l \in 1 .. n - 1 : rest[l] = connections[k]
    BY <1>2, <1>7 DEF Elements
  <2>1. k # k0
    BY <1>1
  <2>2. CASE k < k0
    BY <2>2, <1>2
  <2>3. CASE k > k0
    <3>1. k - 1 \in 1 .. n - 1 /\ ~(k - 1 < k0) /\ (k - 1) + 1 = k
      BY <2>3, <1>2
    <3>2. rest[k - 1] = connections[k]
      BY <3>1
    <3> QED
      BY <3>1, <3>2
  <2> QED
    BY <2>1, <2>2, <2>3, <1>2
<1> QED
  BY <1>3, <1>7, <1>8, <1>9, <1>10
-----------------------------------------------------------------------------
(* Types *)

\* What a worker holds.
Holding == [at : Ats, message : Messages \cup {<<>>}, connection : Ports \cup {<<>>}, dangling : BOOLEAN]

TypeInv == TypeOK /\ worker \in [Workers -> Holding]

LEMMA AddressType ==
  /\ Anyone \in [ip : Ips, port : Ports] \/ Ips = {}
  /\ \A kind \in FrameKinds \cup {"reply", "shutdown"}, a \in Address : Message(kind, a) \in Messages
  /\ \A a \in Address : Disconnect(a) \in Messages
<1>1. ASSUME NEW ip \in Ips PROVE \E a : a \in Address
  <2>1. PICK port : port \in Ports
    BY PortsExist
  <2>2. [ip |-> ip, port |-> port] \in Address
    BY <2>1 DEF Address
  <2> QED
    BY <2>2
<1> QED
  BY <1>1 DEF Anyone, Address, Message, Messages, Disconnect, FrameKinds

LEMMA IdleType == Idle \in Holding /\ Idle.at = "waiting"
BY DEF Idle, Holding, Ats

LEMMA InitType == Init => TypeInv
<1> SUFFICES ASSUME Init PROVE TypeInv
  OBVIOUS
<1>1. Anyone \in Address
  BY AddressType DEF Init, Address
<1>2. \A S : <<>> \in Seq(S) /\ DOMAIN <<>> = {}
  OBVIOUS
<1> QED
  BY <1>1, <1>2, IdleType DEF Init, TypeInv, TypeOK, Holding, Ats

\* The pointers of the executors dangle, nothing else of the workers changes.
LEMMA DangleKeeps ==
  ASSUME TypeInv, Dangle
  PROVE  /\ worker' \in [Workers -> Holding]
         /\ \A w \in Workers : /\ worker'[w].at = worker[w].at
                               /\ worker'[w].message = worker[w].message
                               /\ worker'[w].connection = worker[w].connection
BY DEF TypeInv, Dangle, Holding, Ats

\* The conjuncts of the types that are about one worker follow for all from its own.
WorkerType(h) ==
  /\ h \in Holding
  /\ h.at \in {"taken", "executing"} => h.message \in Messages
  /\ h.at = "executing" => h.connection \in Ports

\* The types, by owner.
NetworkType ==
  /\ inet_address \in Ips
  /\ connections \in Seq(Ports)
  /\ \A k, l \in DOMAIN connections : connections[k] = connections[l] => k = l
  /\ is_running \in BOOLEAN /\ destroyed \in BOOLEAN
  /\ tick \in {"packet", "frames", "internal", "disconnecting", "destroying", "exited"}
  /\ peer \in Address /\ frames \in Seq(FrameKinds)
  /\ datagrams \in Nat
QueueType == threaded_to_main \in Seq(Messages) /\ main_to_threaded \in Seq(Messages)
WorkersType == worker \in [Workers -> Holding] /\ \A w \in Workers : WorkerType(worker[w])
MainType ==
  /\ server_running \in BOOLEAN
  /\ main \in {"serving", "joining", "exited"}
  /\ players \subseteq Address
  /\ process \in {"running", "exited", "crashed"}

LEMMA TypeParts == TypeInv <=> NetworkType /\ QueueType /\ WorkersType /\ MainType
BY DEF TypeInv, TypeOK, NetworkType, QueueType, WorkersType, MainType, WorkerType, Holding

LEMMA TypePartsNext == NetworkType' /\ QueueType' /\ WorkersType' /\ MainType' => TypeInv'
BY DEF TypeInv, TypeOK, NetworkType, QueueType, WorkersType, MainType, WorkerType, Holding

LEMMA PutType ==
  ASSUME NEW m \in Messages, MainType, QueueType
  PROVE  /\ Put(threaded_to_main, m) => threaded_to_main' \in Seq(Messages) /\ process' \in {"running", "exited", "crashed"}
         /\ Put(main_to_threaded, m) => main_to_threaded' \in Seq(Messages) /\ process' \in {"running", "exited", "crashed"}
<1>1. Append(threaded_to_main, m) \in Seq(Messages) /\ Append(main_to_threaded, m) \in Seq(Messages)
  BY AppendElements DEF QueueType
<1> QED
  BY <1>1 DEF Put, MainType, QueueType

LEMMA DangleType ==
  ASSUME WorkersType, Dangle PROVE WorkersType'
<1>1. ASSUME NEW w \in Workers PROVE WorkerType(worker'[w])
  BY DEF WorkersType, WorkerType, Dangle, Holding, Ats
<1> QED
  BY <1>1 DEF WorkersType, WorkerType, Dangle

\* A step of one worker.
LEMMA OneWorkerType ==
  ASSUME WorkersType, NEW w \in Workers, NEW h, WorkerType(h), worker' = [worker EXCEPT ![w] = h]
  PROVE  WorkersType'
BY DEF WorkersType, WorkerType

LEMMA TickType ==
  ASSUME TypeInv, TickRaknet PROVE TypeInv'
<1> USE DEF Received, HeadIs, NetworkType, QueueType, MainType, network
<1>0. NetworkType /\ QueueType /\ WorkersType /\ MainType
  BY TypeParts
<1>t. threaded_to_main # <<>> => Head(threaded_to_main) \in Messages /\ Tail(threaded_to_main) \in Seq(Messages)
  BY <1>0, TailElements
<1>a. Anyone \in Address
  BY AddressType, <1>0 DEF Address
<1>f. frames # <<>> => Head(frames) \in FrameKinds /\ Tail(frames) \in Seq(FrameKinds)
  BY <1>0, TailElements
<1>p. \A set : \A a \in Address : PeerOf(a, set) \in Address /\ NextFrame(set) \in {"frames", "internal"}
  BY <1>a DEF PeerOf, NextFrame
<1>w. UNCHANGED worker => WorkersType'
  BY <1>0 DEF WorkersType, WorkerType
<1>1. CASE ReceiveNothing
  BY <1>0, <1>1, <1>w, TypePartsNext DEF ReceiveNothing
<1>2. ASSUME NEW a \in Address, OpenConnection(a) PROVE TypeInv'
  <2>1. a.ip \in Ips /\ a.port \in Ports
    BY DEF Address
  <2>2. WorkersType'
    BY <1>0, <1>2, <1>w, DangleType DEF OpenConnection
  <2>3. CASE a.port \in Elements(connections)
    BY <1>0, <1>2, <2>1, <2>2, <2>3, TypePartsNext DEF OpenConnection
  <2>4. CASE a.port \notin Elements(connections)
    <3>1. connections' = Append(connections, a.port)
      BY <1>2, <2>4 DEF OpenConnection
    <3>2. /\ connections' \in Seq(Ports)
          /\ \A k \in DOMAIN connections : connections'[k] = connections[k]
          /\ DOMAIN connections' = DOMAIN connections \cup {Len(connections) + 1}
          /\ connections'[Len(connections) + 1] = a.port
      BY <1>0, <2>1, <3>1, AppendElements
    <3>3. \A k \in DOMAIN connections : connections[k] # a.port
      BY <2>4 DEF Elements
    <3>4. \A k, l \in DOMAIN connections' : connections'[k] = connections'[l] => k = l
      BY <1>0, <3>2, <3>3
    <3> QED
      BY <1>0, <1>2, <2>1, <2>2, <3>2, <3>4, TypePartsNext DEF OpenConnection
  <2> QED
    BY <2>3, <2>4
<1>3. ASSUME NEW a \in Address, NEW set \in FrameSets, FrameSet(a, set) PROVE TypeInv'
  <2>1. a.ip \in Ips /\ a.port \in Ports
    BY DEF Address
  <2>2. set \in Seq(FrameKinds)
    BY FrameSetsHoldFrames
  <2> QED
    BY <1>0, <1>3, <2>1, <2>2, <1>p, <1>w, TypePartsNext DEF FrameSet
<1>4. CASE HandleFrame
  <2>1. Append(threaded_to_main, Disconnect(peer)) \in Seq(Messages)
    BY <1>0, AddressType, AppendElements
  <2>2. Append(main_to_threaded, Message(Head(frames), peer)) \in Seq(Messages)
    BY <1>0, <1>4, <1>f, AddressType, AppendElements DEF HandleFrame
  <2> QED
    BY <1>0, <1>4, <2>1, <2>2, <1>f, <1>p, <1>w, TypePartsNext DEF HandleFrame
<1>5. CASE SendReply
  BY <1>0, <1>5, <1>t, <1>w, TypePartsNext DEF SendReply
<1>6. CASE NotifyWorkers
  <2>1. Head(threaded_to_main).address \in Address
    BY <1>6, <1>t DEF NotifyWorkers, Messages
  <2>2. main_to_threaded' \in Seq(Messages) /\ process' \in {"running", "exited", "crashed"}
    BY <1>0, <1>6, <2>1, AddressType, PutType DEF NotifyWorkers
  <2> QED
    BY <1>0, <1>6, <2>1, <2>2, <1>t, <1>w, TypePartsNext DEF NotifyWorkers
<1>7. CASE RemoveConnection
  <2>1. peer.port \in Ports
    BY <1>0 DEF Address
  <2>2. WorkersType'
    BY <1>0, <1>7, <1>w, DangleType DEF RemoveConnection
  <2>3. CASE has_connection(peer)
    <3>1. connections' = Without(peer.port) /\ peer.port \in Elements(connections)
      BY <1>7, <2>3 DEF RemoveConnection, has_connection
    <3>2. connections' \in Seq(Ports) /\ \A k, l \in DOMAIN connections' : connections'[k] = connections'[l] => k = l
      BY <1>0, <2>1, <3>1, WithoutOne
    <3> QED
      BY <1>0, <1>7, <1>a, <2>2, <3>2, TypePartsNext DEF RemoveConnection
  <2>4. CASE ~has_connection(peer)
    BY <1>0, <1>7, <1>a, <2>2, <2>4, TypePartsNext DEF RemoveConnection
  <2> QED
    BY <2>3, <2>4
<1>8. CASE Destroy
  BY <1>0, <1>8, <1>t, <1>w, TypePartsNext DEF Destroy
<1>9. CASE DestroyConnection
  <2>1. WorkersType'
    BY <1>0, <1>9, DangleType DEF DestroyConnection
  <2>2. /\ Tail(connections) \in Seq(Ports)
        /\ \A k \in DOMAIN Tail(connections) : k + 1 \in DOMAIN connections /\ Tail(connections)[k] = connections[k + 1]
    BY <1>0, <1>9, TailElements DEF DestroyConnection
  <2>3. \A k \in DOMAIN Tail(connections) : k \in Nat
    BY <2>2
  <2>4. \A k, l \in DOMAIN Tail(connections) : Tail(connections)[k] = Tail(connections)[l] => k = l
    BY <1>0, <2>2, <2>3
  <2> QED
    BY <1>0, <1>9, <2>1, <2>2, <2>4, TypePartsNext DEF DestroyConnection
<1>10. CASE DestroyQueues
  BY <1>0, <1>10, <1>w, TypePartsNext DEF DestroyQueues
<1>11. CASE EndTick
  BY <1>0, <1>11, <1>w, TypePartsNext DEF EndTick
<1> QED
  BY <1>1, <1>2, <1>3, <1>4, <1>5, <1>6, <1>7, <1>8, <1>9, <1>10, <1>11 DEF TickRaknet

\* An executor reads the address of its connection, or of one the array holds now.
LEMMA ReadType ==
  ASSUME TypeInv, NEW w \in Workers, worker[w].at = "executing"
  PROVE  Read(w) \subseteq Address
<1>1. inet_address \in Ips /\ worker[w].connection \in Ports /\ Elements(connections) \subseteq Ports
  BY DEF TypeInv, TypeOK, Elements
<1> QED
  BY <1>1 DEF Read, AddressOf, Address

LEMMA ReplyType ==
  ASSUME MainType, QueueType, NEW a \in Address, send_raknet_frame(a)
  PROVE  threaded_to_main' \in Seq(Messages) /\ process' \in {"running", "exited", "crashed"}
<1>1. Message("reply", a) \in Messages
  BY AddressType
<1> QED
  BY <1>1, PutType DEF send_raknet_frame, MainType, QueueType

LEMMA WorkType ==
  ASSUME TypeInv, NEW w \in Workers, Work(w) PROVE TypeInv'
<1> USE DEF NetworkType, QueueType, MainType, network
<1>0. NetworkType /\ QueueType /\ WorkersType /\ MainType
  BY TypeParts
<1>i. WorkerType(Idle) /\ WorkerType(worker[w])
  BY <1>0, IdleType DEF WorkerType, WorkersType
<1>d. ASSUME worker' = [worker EXCEPT ![w] = Idle] PROVE WorkersType'
  BY <1>0, <1>i, <1>d, OneWorkerType
<1>n. UNCHANGED network => NetworkType'
  BY <1>0
<1>1. CASE WorkerExit(w)
  <2>1. WorkerType([worker[w] EXCEPT !.at = "exited"])
    BY <1>i DEF WorkerType, Holding, Ats
  <2>2. WorkersType'
    BY <1>0, <1>1, <2>1, OneWorkerType DEF WorkerExit
  <2> QED
    BY <1>0, <1>1, <1>n, <2>2, TypePartsNext DEF WorkerExit
<1>2. CASE WorkerTake(w)
  <2> DEFINE h == [Idle EXCEPT !.at = "taken", !.message = Head(main_to_threaded)]
  <2>1. Head(main_to_threaded) \in Messages /\ Tail(main_to_threaded) \in Seq(Messages)
    BY <1>0, <1>2, TailElements DEF WorkerTake
  <2>2. WorkerType(h)
    BY <2>1, IdleType DEF WorkerType, Holding, Ats, Idle
  <2>3. WorkersType'
    BY <1>0, <1>2, <2>2, OneWorkerType DEF WorkerTake
  <2> QED
    BY <1>0, <1>2, <1>n, <2>1, <2>3, TypePartsNext DEF WorkerTake
<1>3. CASE WorkerLookup(w)
  <2> DEFINE h == [worker[w] EXCEPT !.at = "executing", !.connection = worker[w].message.address.port]
  <2>1. worker[w].at = "taken"
    BY <1>3 DEF WorkerLookup, Taken
  <2>2. worker[w].message \in Messages /\ worker[w].message.address.port \in Ports
    BY <1>i, <2>1 DEF WorkerType, Messages, Address
  <2>3. WorkerType(h)
    BY <1>i, <2>2 DEF WorkerType, Holding, Ats
  <2>4. worker' = [worker EXCEPT ![w] = h] \/ worker' = [worker EXCEPT ![w] = Idle]
    BY <1>3 DEF WorkerLookup
  <2>5. WorkersType'
    BY <1>0, <1>i, <2>3, <2>4, OneWorkerType
  <2> QED
    BY <1>0, <1>3, <1>n, <2>5, TypePartsNext DEF WorkerLookup
<1>4. CASE on_dn(w)
  BY <1>0, <1>4, <1>n, <1>d, TypePartsNext DEF on_dn
<1>5. CASE on_nic(w)
  BY <1>0, <1>5, <1>n, <1>d, TypePartsNext DEF on_nic, Executing
<1>6. CASE on_f_network_settings(w)
  <2>1. PICK a \in Read(w) : players' = players \cup {a} /\ send_raknet_frame(a)
    BY <1>6 DEF on_f_network_settings
  <2>2. a \in Address
    BY <1>6, ReadType DEF on_f_network_settings, Executing
  <2>3. threaded_to_main' \in Seq(Messages) /\ process' \in {"running", "exited", "crashed"}
    BY <1>0, <2>1, <2>2, ReplyType
  <2> QED
    BY <1>0, <1>6, <1>n, <1>d, <2>1, <2>2, <2>3, TypePartsNext DEF on_f_network_settings, Executing
<1>7. CASE on_f_play(w)
  <2>1. threaded_to_main' \in Seq(Messages) /\ process' \in {"running", "exited", "crashed"}
    <3>1. CASE \E a \in Read(w) \cap players : send_raknet_frame(a)
      BY <1>0, <3>1, ReplyType
    <3> QED
      BY <1>0, <1>7, <3>1 DEF on_f_play
  <2> QED
    BY <1>0, <1>7, <1>n, <1>d, <2>1, TypePartsNext DEF on_f_play, Executing
<1>8. CASE on_f_not_a_game(w)
  <2>1. PICK a \in Read(w) : Put(threaded_to_main, Disconnect(a))
    BY <1>8 DEF on_f_not_a_game
  <2>2. a \in Address
    BY <1>8, ReadType DEF on_f_not_a_game, Executing
  <2>3. threaded_to_main' \in Seq(Messages) /\ process' \in {"running", "exited", "crashed"}
    BY <1>0, <2>1, <2>2, AddressType, PutType
  <2> QED
    BY <1>0, <1>8, <1>n, <1>d, <2>3, TypePartsNext DEF on_f_not_a_game, Executing
<1>9. CASE WorkerCrash(w)
  BY <1>0, <1>9, <1>n, TypePartsNext DEF WorkerCrash, WorkersType, WorkerType
<1> QED
  BY <1>1, <1>2, <1>3, <1>4, <1>5, <1>6, <1>7, <1>8, <1>9 DEF Work

LEMMA MainStepType ==
  ASSUME TypeInv, Stop \/ Main PROVE TypeInv'
<1> USE DEF NetworkType, QueueType, MainType, network
<1>0. NetworkType /\ QueueType /\ WorkersType /\ MainType
  BY TypeParts
<1>w. UNCHANGED worker => WorkersType'
  BY <1>0 DEF WorkersType, WorkerType
<1>1. CASE Stop
  BY <1>0, <1>1, <1>w, TypePartsNext DEF Stop
<1>2. CASE MainShutdown
  <2>1. Message("shutdown", Anyone) \in Messages
    BY <1>0, AddressType DEF Address
  <2>2. threaded_to_main' \in Seq(Messages) /\ process' \in {"running", "exited", "crashed"}
    BY <1>0, <1>2, <2>1, PutType DEF MainShutdown
  <2> QED
    BY <1>0, <1>2, <1>w, <2>2, TypePartsNext DEF MainShutdown
<1>3. CASE MainJoin
  BY <1>0, <1>3, <1>w, TypePartsNext DEF MainJoin
<1> QED
  BY <1>1, <1>2, <1>3 DEF Main

LEMMA TypeStep == TypeInv /\ [Next]_vars => TypeInv'
<1>1. ASSUME TypeInv, UNCHANGED vars PROVE TypeInv'
  BY <1>1 DEF vars, TypeInv, TypeOK
<1> QED
  BY <1>1, TickType, WorkType, MainStepType DEF Next
-----------------------------------------------------------------------------
(* Connections and notifications *)

\* The workers of server.c: main creates one.
OneWorker == \E w : Workers = {w}

Queued(port) == \E m \in Elements(main_to_threaded) : Ends(m, port)

FollowedAt(q, k) == \E l \in DOMAIN q : k <= l /\ Ends(q[l], q[k].address.port)

AllFollowed(q, ports) == \A k \in DOMAIN q : q[k].address.port \in ports \/ FollowedAt(q, k)

QueueFollows == AllFollowed(main_to_threaded, Elements(connections))

ExecutorFollows ==
  \A w \in Workers : worker[w].at = "executing" =>
    Connected(worker[w].message.address.port) \/ Queued(worker[w].message.address.port)

\* Between the two steps of disconnect_raknet_client the workers know: the notification is the
\* last message, or the queue is empty and no worker is in a handler.
NothingComesAfter ==
  \/ main_to_threaded # <<>> /\ Ends(main_to_threaded[Len(main_to_threaded)], peer.port)
  \/ main_to_threaded = <<>> /\ \A w \in Workers : worker[w].at # "executing" /\ ~Taken(w, FrameKinds \ {"disconnect_notification"})

Follows ==
  /\ QueueFollows /\ ExecutorFollows
  /\ tick = "disconnecting" => NothingComesAfter

\* The inductive invariant.  Once the server is being destroyed nothing is promised.
ServerInv ==
  /\ TypeInv
  /\ destroyed \/ tick = "destroying" => ~is_running
  /\ is_running => Follows

LEMMA DisconnectFields ==
  \A a : Disconnect(a).kind = "disconnect_notification" /\ Disconnect(a).address = a
BY DEF Disconnect, Message

LEMMA ServerInvImplies ==
  ASSUME ServerInv PROVE NotificationComesLast
<1> SUFFICES ASSUME is_running
             PROVE  /\ \A k \in DOMAIN main_to_threaded :
                         \/ Connected(main_to_threaded[k].address.port)
                         \/ FollowedAt(main_to_threaded, k)
                    /\ \A w \in Workers : worker[w].at = "executing" =>
                         Connected(worker[w].message.address.port) \/ Queued(worker[w].message.address.port)
  BY DEF NotificationComesLast, FollowedAt, Queued
<1> QED
  BY DEF ServerInv, Follows, QueueFollows, AllFollowed, ExecutorFollows, Connected

LEMMA InitFollows == Init => ServerInv
<1> SUFFICES ASSUME Init PROVE ServerInv
  OBVIOUS
<1>1. \A w \in Workers : worker[w].at = "waiting"
  BY DEF Init, Idle
<1>2. DOMAIN main_to_threaded = {} /\ tick = "packet" /\ ~destroyed
  BY DEF Init
<1>3. Follows
  BY <1>1, <1>2 DEF Follows, QueueFollows, AllFollowed, ExecutorFollows
<1> QED
  BY <1>2, <1>3, InitType DEF ServerInv

\* A step after which a worker waits that held a message, and the others are where they were.
WorkersReturn ==
  \A w \in Workers : \/ worker'[w].at = worker[w].at /\ worker'[w].message = worker[w].message
                     \/ worker'[w].at \in {"waiting", "exited"}

\* No connection goes and no message comes or is taken: what was followed still is.
LEMMA NothingGoes ==
  ASSUME Follows, WorkersReturn,
         UNCHANGED main_to_threaded, Elements(connections) \subseteq Elements(connections'),
         tick' = "disconnecting" => tick = "disconnecting" /\ peer' = peer
  PROVE  Follows'
<1>1. \A port : (Connected(port) => Connected(port)') /\ (Queued(port) => Queued(port)')
  BY DEF Connected, Queued
<1>2. QueueFollows'
  BY DEF Follows, QueueFollows, AllFollowed, FollowedAt
<1>3. ExecutorFollows'
  BY <1>1 DEF Follows, ExecutorFollows, WorkersReturn
<1>4. ASSUME tick' = "disconnecting" PROVE NothingComesAfter'
  BY <1>4 DEF Follows, NothingComesAfter, WorkersReturn, Taken
<1> QED
  BY <1>2, <1>3, <1>4 DEF Follows

\* A message is put behind the others, for a client that is connected or as the end of one.
LEMMA PutFollows ==
  ASSUME Follows, main_to_threaded \in Seq(Messages), NEW m \in Messages,
         main_to_threaded' = Append(main_to_threaded, m), UNCHANGED <<connections, worker>>,
         Connected(m.address.port) \/ Ends(m, m.address.port)
  PROVE  QueueFollows' /\ ExecutorFollows'
<1> DEFINE n == Len(main_to_threaded)
<1>1. /\ DOMAIN main_to_threaded' = DOMAIN main_to_threaded \cup {n + 1}
      /\ main_to_threaded'[n + 1] = m
      /\ \A k \in DOMAIN main_to_threaded : main_to_threaded'[k] = main_to_threaded[k]
      /\ Elements(main_to_threaded') = Elements(main_to_threaded) \cup {m}
      /\ n \in Nat
  BY AppendElements, LenProperties
<1> HIDE DEF n
<1>2. \A port : (Connected(port)' <=> Connected(port)) /\ (Queued(port) => Queued(port)')
  BY <1>1 DEF Connected, Queued
<1>3. ExecutorFollows'
  BY <1>2 DEF Follows, ExecutorFollows
<1>4. QueueFollows'
  <2> DEFINE q == main_to_threaded'
             ports == Elements(connections)
  <2> SUFFICES ASSUME NEW k \in DOMAIN q
               PROVE  q[k].address.port \in ports \/ FollowedAt(q, k)
    BY DEF QueueFollows, AllFollowed
  <2>0. /\ DOMAIN q = DOMAIN main_to_threaded \cup {n + 1} /\ q[n + 1] = m
        /\ \A j \in DOMAIN main_to_threaded : q[j] = main_to_threaded[j]
    BY <1>1
  <2> HIDE DEF q
  <2>1. CASE k \in DOMAIN main_to_threaded
    BY <2>0, <2>1 DEF Follows, QueueFollows, AllFollowed, FollowedAt
  <2>2. CASE k = n + 1
    <3>1. CASE Connected(m.address.port)
      BY <2>0, <2>2, <3>1 DEF Connected
    <3>2. CASE Ends(m, m.address.port)
      <4>1. k <= k
        BY <1>1, <2>2
      <4> QED
        BY <2>0, <2>2, <3>2, <4>1 DEF FollowedAt
    <3> QED
      BY <3>1, <3>2
  <2> QED
    BY <2>0, <2>1, <2>2
<1> QED
  BY <1>3, <1>4

\* A frame goes to the workers while its client is connected.
LEMMA HandleFrameFollows ==
  ASSUME TypeInv, Follows, HandleFrame PROVE Follows'
<1> DEFINE m == Message(Head(frames), peer)
<1>1. peer \in Address /\ Head(frames) \in FrameKinds /\ main_to_threaded \in Seq(Messages)
  BY TailElements DEF HandleFrame, TypeInv, TypeOK
<1>2. Connected(peer.port)
  BY DEF HandleFrame, has_connection, Connected
<1>3. UNCHANGED <<connections, worker>> /\ tick' # "disconnecting"
  BY DEF HandleFrame, NextFrame
<1>4. CASE UNCHANGED main_to_threaded
  BY <1>3, <1>4, NothingGoes DEF WorkersReturn
<1>5. CASE main_to_threaded' = Append(main_to_threaded, m)
  <2>1. m \in Messages /\ m.address = peer
    BY <1>1, AddressType DEF Message
  <2> HIDE DEF m
  <2>2. QueueFollows' /\ ExecutorFollows'
    BY <1>1, <1>2, <1>3, <1>5, <2>1, PutFollows
  <2> QED
    BY <1>3, <2>2 DEF Follows
<1> QED
  BY <1>4, <1>5 DEF HandleFrame

\* The first half of disconnect_raknet_client: nobody is removed yet, and the last message says so.
LEMMA NotifyWorkersFollows ==
  ASSUME TypeInv, ~destroyed, Follows, NotifyWorkers PROVE Follows'
<1> DEFINE n == Len(main_to_threaded)
           m == Disconnect(peer')
<1>1. Head(threaded_to_main) \in Messages /\ main_to_threaded \in Seq(Messages)
  BY TailElements DEF NotifyWorkers, HeadIs, TypeInv, TypeOK
<1>2. peer' \in Address /\ peer' = Head(threaded_to_main).address
  BY <1>1 DEF NotifyWorkers, Messages
<1>3. main_to_threaded' = Append(main_to_threaded, m) /\ UNCHANGED <<connections, worker>>
  BY <1>2 DEF NotifyWorkers, Put
<1>4. m \in Messages /\ m.address = peer' /\ Ends(m, peer'.port)
  BY <1>2, AddressType, DisconnectFields DEF Ends
<1>5. main_to_threaded'[n + 1] = m /\ Len(main_to_threaded') = n + 1 /\ n \in Nat
  BY <1>1, <1>3, <1>4, AppendElements, LenProperties
<1>6. main_to_threaded' # <<>>
  BY <1>5
<1>7. NothingComesAfter'
  BY <1>4, <1>5, <1>6 DEF NothingComesAfter
<1> HIDE DEF n, m
<1>8. QueueFollows' /\ ExecutorFollows'
  BY <1>1, <1>3, <1>4, PutFollows
<1> QED
  BY <1>7, <1>8 DEF Follows

\* The second half: only that port is not connected any more, and the workers know.
LEMMA RemoveConnectionFollows ==
  ASSUME TypeInv, Follows, RemoveConnection PROVE Follows'
<1>1. peer \in Address /\ main_to_threaded \in Seq(Messages) /\ NothingComesAfter
  BY DEF TypeInv, TypeOK, Follows, RemoveConnection
<1>2. UNCHANGED main_to_threaded /\ tick' # "disconnecting"
  BY DEF RemoveConnection
<1>3. CASE ~has_connection(peer)
  BY <1>2, <1>3, NothingGoes DEF RemoveConnection, WorkersReturn
<1>4. CASE has_connection(peer)
  <2>1. peer.port \in Ports /\ peer.port \in Elements(connections)
    BY <1>1, <1>4 DEF Address, has_connection
  <2>2. Elements(connections') = Elements(connections) \ {peer.port}
    BY <1>4, <2>1, WithoutOne DEF RemoveConnection, TypeInv, TypeOK
  <2>3. \A port : Connected(port) => Connected(port)' \/ port = peer.port
    BY <2>2 DEF Connected
  <2>4. \A w \in Workers : worker'[w].at = worker[w].at /\ worker'[w].message = worker[w].message
    BY <1>4, DangleKeeps DEF RemoveConnection
  <2>5. CASE main_to_threaded # <<>> /\ Ends(main_to_threaded[Len(main_to_threaded)], peer.port)
    <3>1. Len(main_to_threaded) \in DOMAIN main_to_threaded /\ \A k \in DOMAIN main_to_threaded : k <= Len(main_to_threaded)
      BY <1>1, <2>5, EmptySeq, LenProperties
    <3>2. Queued(peer.port)
      BY <2>5, <3>1 DEF Queued, Elements
    <3>3. QueueFollows'
      <4> SUFFICES ASSUME NEW k \in DOMAIN main_to_threaded
                   PROVE  main_to_threaded[k].address.port \in Elements(connections') \/ FollowedAt(main_to_threaded, k)
        BY <1>2 DEF QueueFollows, AllFollowed
      <4>1. main_to_threaded[k].address.port \in Elements(connections) \/ FollowedAt(main_to_threaded, k)
        BY DEF Follows, QueueFollows, AllFollowed
      <4>2. CASE main_to_threaded[k].address.port = peer.port
        BY <2>5, <3>1, <4>2 DEF FollowedAt
      <4> QED
        BY <2>2, <4>1, <4>2
    <3>4. ExecutorFollows'
      BY <1>2, <2>3, <2>4, <3>2 DEF Follows, ExecutorFollows, Queued
    <3> QED
      BY <1>2, <3>3, <3>4 DEF Follows
  <2>6. CASE main_to_threaded = <<>> /\ \A w \in Workers : worker[w].at # "executing"
    <3>1. DOMAIN main_to_threaded' = {}
      BY <1>2, <2>6
    <3>2. QueueFollows' /\ ExecutorFollows'
      BY <2>4, <2>6, <3>1 DEF QueueFollows, AllFollowed, ExecutorFollows
    <3> QED
      BY <1>2, <3>2 DEF Follows
  <2> QED
    BY <1>1, <2>5, <2>6 DEF NothingComesAfter
<1> QED
  BY <1>3, <1>4

\* The worker takes the oldest message: what was behind it still is.
LEMMA WorkerTakeFollows ==
  ASSUME OneWorker, TypeInv, Follows, NEW w \in Workers, WorkerTake(w) PROVE Follows'
<1> DEFINE rest == Tail(main_to_threaded)
<1>1. Workers = {w} /\ main_to_threaded \in Seq(Messages) /\ main_to_threaded # <<>>
  BY DEF OneWorker, TypeInv, TypeOK, WorkerTake
<1>2. /\ Head(main_to_threaded) \in Messages /\ rest \in Seq(Messages)
      /\ 1 \in DOMAIN main_to_threaded /\ Head(main_to_threaded) = main_to_threaded[1]
      /\ Len(rest) = Len(main_to_threaded) - 1
      /\ \A k \in DOMAIN rest : k + 1 \in DOMAIN main_to_threaded /\ rest[k] = main_to_threaded[k + 1]
      /\ \A k \in DOMAIN main_to_threaded : k # 1 => k - 1 \in DOMAIN rest
  BY <1>1, TailElements
<1>3. main_to_threaded' = rest /\ UNCHANGED <<connections, tick, peer>>
  BY DEF WorkerTake, network
<1>4. worker'[w].at = "taken" /\ worker'[w].message = Head(main_to_threaded)
  BY <1>1 DEF WorkerTake, InLoop, Idle, TypeInv
<1>5. DOMAIN main_to_threaded \subseteq Nat \ {0} /\ DOMAIN rest \subseteq Nat \ {0}
  BY <1>1, <1>2
<1> HIDE DEF rest
<1>6. ExecutorFollows'
  BY <1>1, <1>4 DEF ExecutorFollows
<1>7. QueueFollows'
  <2> SUFFICES ASSUME NEW k \in DOMAIN rest
               PROVE  rest[k].address.port \in Elements(connections) \/ FollowedAt(rest, k)
    BY <1>3 DEF QueueFollows, AllFollowed
  <2>1. k \in Nat \ {0} /\ k + 1 \in DOMAIN main_to_threaded /\ main_to_threaded[k + 1] = rest[k]
    BY <1>2, <1>5
  <2>2. ASSUME NEW l \in DOMAIN main_to_threaded, k + 1 <= l, Ends(main_to_threaded[l], rest[k].address.port)
        PROVE  FollowedAt(rest, k)
    <3>1. l \in Nat /\ l # 1
      BY <1>5, <2>1, <2>2
    <3>2. l - 1 \in DOMAIN rest /\ k <= l - 1 /\ (l - 1) + 1 = l
      BY <1>2, <2>1, <2>2, <3>1
    <3>3. rest[l - 1] = main_to_threaded[l]
      BY <1>2, <3>2
    <3> QED
      BY <2>2, <3>2, <3>3 DEF FollowedAt
  <2> QED
    BY <2>1, <2>2 DEF Follows, QueueFollows, AllFollowed, FollowedAt
<1>8. ASSUME tick' = "disconnecting" PROVE NothingComesAfter'
  <2>1. Ends(main_to_threaded[Len(main_to_threaded)], peer.port)
    BY <1>1, <1>3, <1>8 DEF Follows, NothingComesAfter
  <2>2. CASE rest = <<>>
    <3>1. Len(main_to_threaded) = 1
      BY <1>1, <1>2, <2>2
    <3>2. worker'[w].message.kind = "disconnect_notification"
      BY <1>2, <1>4, <2>1, <3>1 DEF Ends
    <3> QED
      BY <1>1, <1>3, <1>4, <2>2, <3>2 DEF NothingComesAfter, Taken
  <2>3. CASE rest # <<>>
    <3>1. Len(rest) \in DOMAIN rest
      BY <1>2, <2>3, EmptySeq, LenProperties
    <3>2. rest[Len(rest)] = main_to_threaded[Len(main_to_threaded)]
      <4>1. Len(main_to_threaded) \in Nat
        BY <1>1
      <4> QED
        BY <1>2, <3>1, <4>1
    <3> QED
      BY <1>3, <2>1, <2>3, <3>2 DEF NothingComesAfter
  <2> QED
    BY <2>2, <2>3
<1> QED
  BY <1>6, <1>7, <1>8 DEF Follows

\* A message that is no notification starts an executor while its sender is connected, or is dropped.
LEMMA WorkerLookupFollows ==
  ASSUME TypeInv, Follows, NEW w \in Workers, WorkerLookup(w) PROVE Follows'
<1>1. Taken(w, FrameKinds \ {"disconnect_notification"})
  BY DEF WorkerLookup
<1>2. UNCHANGED <<connections, main_to_threaded, tick, peer>>
  BY DEF WorkerLookup, network
<1>3. \A v \in Workers : v # w => worker'[v] = worker[v]
  BY DEF WorkerLookup, TypeInv
<1>4. \/ /\ has_connection(worker[w].message.address)
         /\ worker'[w].message = worker[w].message
      \/ worker'[w].at = "waiting"
  BY DEF WorkerLookup, TypeInv, Holding, Idle
<1>5. QueueFollows'
  BY <1>2 DEF Follows, QueueFollows
<1>6. ExecutorFollows'
  <2> SUFFICES ASSUME NEW v \in Workers, worker'[v].at = "executing"
               PROVE  Connected(worker'[v].message.address.port) \/ Queued(worker'[v].message.address.port)
    BY <1>2 DEF ExecutorFollows, Connected, Queued
  <2>1. CASE v = w
    BY <1>4, <2>1 DEF has_connection, Connected
  <2>2. CASE v # w
    BY <1>3, <2>2 DEF Follows, ExecutorFollows
  <2> QED
    BY <2>1, <2>2
<1>7. ASSUME tick' = "disconnecting" PROVE NothingComesAfter'
  BY <1>1, <1>2, <1>7 DEF Follows, NothingComesAfter
<1> QED
  BY <1>5, <1>6, <1>7 DEF Follows

-----------------------------------------------------------------------------
(* The theorems *)

LEMMA TickStep ==
  ASSUME ServerInv, TickRaknet PROVE ServerInv'
<1> DEFINE Rest == /\ destroyed' \/ tick' = "destroying" => ~is_running'
                   /\ is_running' => Follows'
<1>0. TypeInv /\ (is_running => Follows) /\ (destroyed \/ tick = "destroying" => ~is_running)
  BY DEF ServerInv
<1> SUFFICES Rest
  BY <1>0, TickType DEF ServerInv
<1>u. UNCHANGED worker => WorkersReturn
  BY DEF WorkersReturn
<1>d. Dangle => WorkersReturn
  BY <1>0, DangleKeeps DEF WorkersReturn
<1>1. CASE ReceiveNothing
  BY <1>0, <1>1, <1>u, NothingGoes DEF ReceiveNothing
<1>2. ASSUME NEW a \in Address, OpenConnection(a) PROVE Rest
  <2>1. Elements(connections) \subseteq Elements(connections')
    <3>1. connections \in Seq(Ports) /\ a.port \in Ports
      BY <1>0 DEF TypeInv, TypeOK, Address
    <3>2. Elements(Append(connections, a.port)) = Elements(connections) \cup {a.port}
      BY <3>1, AppendElements
    <3>3. connections' = connections \/ connections' = Append(connections, a.port)
      BY <1>2 DEF OpenConnection
    <3> QED
      BY <3>2, <3>3
  <2>2. WorkersReturn
    BY <1>2, <1>u, <1>d DEF OpenConnection
  <2> QED
    BY <1>0, <1>2, <2>1, <2>2, NothingGoes DEF OpenConnection, Received
<1>3. ASSUME NEW a \in Address, NEW set \in FrameSets, FrameSet(a, set) PROVE Rest
  <2>1. tick' \in {"internal", "frames"}
    BY <1>3 DEF FrameSet, Received, NextFrame
  <2> QED
    BY <1>0, <1>3, <1>u, <2>1, NothingGoes DEF FrameSet, Received
<1>4. CASE HandleFrame
  <2>1. tick' \in {"internal", "frames"}
    BY <1>4 DEF HandleFrame, NextFrame
  <2> QED
    BY <1>0, <1>4, <2>1, HandleFrameFollows DEF HandleFrame
<1>5. CASE SendReply
  BY <1>0, <1>5, <1>u, NothingGoes DEF SendReply
<1>6. CASE NotifyWorkers
  BY <1>0, <1>6, NotifyWorkersFollows DEF NotifyWorkers
<1>7. CASE RemoveConnection
  BY <1>0, <1>7, RemoveConnectionFollows DEF RemoveConnection
<1>8. CASE Destroy
  BY <1>8 DEF Destroy
<1>9. CASE DestroyConnection
  BY <1>0, <1>9 DEF DestroyConnection
<1>10. CASE DestroyQueues
  BY <1>0, <1>10 DEF DestroyQueues
<1>11. CASE EndTick
  BY <1>0, <1>11, <1>u, NothingGoes DEF EndTick
<1> QED
  BY <1>1, <1>2, <1>3, <1>4, <1>5, <1>6, <1>7, <1>8, <1>9, <1>10, <1>11 DEF TickRaknet

LEMMA WorkStep ==
  ASSUME OneWorker, ServerInv, NEW w \in Workers, Work(w) PROVE ServerInv'
<1>0. TypeInv /\ (is_running => Follows) /\ (destroyed \/ tick = "destroying" => ~is_running)
  BY DEF ServerInv
<1>n. UNCHANGED network
  BY DEF Work, WorkerExit, WorkerTake, WorkerLookup, on_dn, on_nic, on_f_network_settings, on_f_play,
         on_f_not_a_game, WorkerCrash
<1>c. UNCHANGED <<connections, is_running, destroyed, tick, peer>>
  BY <1>n DEF network
<1> SUFFICES is_running => Follows'
  BY <1>0, <1>c, WorkType DEF ServerInv
<1>r. ASSUME worker' = [worker EXCEPT ![w] = Idle] \/ worker' = [worker EXCEPT ![w].at = "exited"] \/ worker' = worker,
             UNCHANGED main_to_threaded
      PROVE  is_running => Follows'
  <2>1. WorkersReturn
    BY <1>0, <1>r, IdleType DEF WorkersReturn, TypeInv, Holding
  <2> QED
    BY <1>0, <1>c, <1>r, <2>1, NothingGoes
<1>1. CASE WorkerExit(w)
  BY <1>1, <1>r DEF WorkerExit
<1>2. CASE WorkerTake(w)
  BY <1>0, <1>2, WorkerTakeFollows
<1>3. CASE WorkerLookup(w)
  BY <1>0, <1>3, WorkerLookupFollows
<1>4. CASE on_dn(w)
  BY <1>4, <1>r DEF on_dn
<1>5. CASE on_nic(w)
  BY <1>5, <1>r DEF on_nic, Executing
<1>6. CASE on_f_network_settings(w)
  BY <1>6, <1>r DEF on_f_network_settings, Executing
<1>7. CASE on_f_play(w)
  BY <1>7, <1>r DEF on_f_play, Executing
<1>8. CASE on_f_not_a_game(w)
  BY <1>8, <1>r DEF on_f_not_a_game, Executing
<1>9. CASE WorkerCrash(w)
  BY <1>9, <1>r DEF WorkerCrash
<1> QED
  BY <1>1, <1>2, <1>3, <1>4, <1>5, <1>6, <1>7, <1>8, <1>9 DEF Work

LEMMA ServerStep ==
  ASSUME OneWorker, ServerInv, [Next]_vars PROVE ServerInv'
<1>0. TypeInv /\ (is_running => Follows) /\ (destroyed \/ tick = "destroying" => ~is_running)
  BY DEF ServerInv
<1>1. ASSUME UNCHANGED <<connections, is_running, destroyed, tick, peer, main_to_threaded, worker>>
      PROVE  (destroyed' \/ tick' = "destroying" => ~is_running') /\ (is_running' => Follows')
  BY <1>0, <1>1, NothingGoes DEF WorkersReturn
<1>2. TypeInv'
  BY <1>0, TypeStep
<1>3. CASE Stop \/ Main \/ UNCHANGED vars
  BY <1>1, <1>2, <1>3 DEF Stop, Main, MainShutdown, MainJoin, network, vars, ServerInv
<1> QED
  BY <1>3, TickStep, WorkStep DEF Next

\* Whatever the IPs and ports of the clients are, and whatever they send: with the one worker of
\* server.c, the handlers see the end of a port's session after all of its frames (rakserver.c:508).
THEOREM NotificationIsLast ==
  ASSUME OneWorker PROVE Spec => []NotificationComesLast
<1>1. Init => ServerInv
  BY InitFollows
<1>2. ServerInv /\ [Next]_vars => ServerInv'
  BY ServerStep
<1>3. ServerInv => NotificationComesLast
  BY ServerInvImplies
<1> QED
  BY <1>1, <1>2, <1>3, PTL DEF Spec

\* Of any number of clients, IPs and workers: no connection is in the array twice, and every
\* queue, worker and table holds what it should (rakserver.c:105).
THEOREM TypeCorrect == Spec => []TypeOK
<1>1. Init => TypeInv
  BY InitType
<1>2. TypeInv /\ [Next]_vars => TypeInv'
  BY TypeStep
<1>3. TypeInv => TypeOK
  BY DEF TypeInv
<1> QED
  BY <1>1, <1>2, <1>3, PTL DEF Spec
=============================================================================
