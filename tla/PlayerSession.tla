----------------------------- MODULE PlayerSession ----------------------------
(***************************************************************************)
(* server.c's on_f and on_dn, with the handlers of mchandler.c, the sends  *)
(* of mcplayer.c and the table of mcplayermanager.c.  The one worker runs  *)
(* them: it takes a batch of packets, or the news that a client has gone,  *)
(* and handles the packets of a batch one after the other (RakServer has   *)
(* the threads around it, Login what handle_packet_login decides).         *)
(*                                                                         *)
(* A position is the pair (x, z) in blocks: y, the angles, and the         *)
(* contents of packets that no property reads are left out.  The level     *)
(* chunks of one send_chunks are one entry of what was sent.               *)
(***************************************************************************)
EXTENDS Integers, Sequences, FiniteSets

CONSTANTS Addresses,
          EntityIds,      \* what rand() gives
          Batches,        \* inputs: sequences of packets
          Positions,      \* inputs: where a client says it is
          Reach,          \* inputs: how many chunks it moves at once, at most
          ChunkSide,      \* 16
          ServerRadius,   \* 8
          MaxSent,        \* bound: packets sent to one address
          MaxSaid         \* bound: broadcasts

\* The packets a batch may hold, by the fields that the handlers read.
Packets == [id : {"request_network_settings"}, current : BOOLEAN]
             \cup [id : {"login"}, accepted : BOOLEAN]
             \cup [id : {"resource_pack_client_response"}, status : {"none", "refused", "have_all_packs", "completed"}]
             \cup [id : {"request_chunk_radius"}, radius : Int]
             \cup [id : {"client_to_server_handshake", "interact", "text", "container_close", "move_player",
                         "request_ability", "player_skin", "not_handled"}]

ASSUME BatchesHoldPackets == Batches \subseteq Seq(Packets)
ASSUME SideIsPositive == ChunkSide \in Nat \ {0}
ASSUME EnoughEntityIds == IsFiniteSet(EntityIds) /\ IsFiniteSet(Addresses)
                            /\ Cardinality(EntityIds) > Cardinality(Addresses)
ASSUME PlacesArePairs == Positions \subseteq Int \X Int
ASSUME BoundsAreNumbers == ServerRadius \in Nat /\ MaxSent \in Nat /\ MaxSaid \in Nat /\ Reach \in Nat

VARIABLES players,   \* player_manager.players
          batch,     \* the packets of on_f's game packet that are still to come
          sender,    \* the connection on_f runs for
          sent,      \* what was handed to RakNet for each address since its player is known
          said       \* broadcasts so far

vars == <<players, batch, sender, sent, said>>

Player == [address : Addresses, entity_unique_id : EntityIds, entity_runtime_id : EntityIds,
           spawned : BOOLEAN, view_distance : Int, position : Int \X Int]

Spawn == <<0, 0>>

Init ==
  /\ players = <<>>
  /\ batch = <<>> /\ sender \in Addresses
  /\ sent = [a \in Addresses |-> <<>>]
  /\ said = 0

ChunkOf(p) == <<p[1] \div ChunkSide, p[2] \div ChunkSide>>

\* The chunks that send_chunks sends around a centre.
Square(c, v) == ((c[1] - v) .. (c[1] + v - 1)) \X ((c[2] - v) .. (c[2] + v - 1))

Packet(id) == <<[id |-> id]>>
play_status(status) == <<[id |-> "play_status", status |-> status]>>

chunk_radius_updated(r) == <<[id |-> "chunk_radius_updated", radius |-> r]>>

\* The publisher update carries the same position and distance.
send_chunks(p) == <<[id |-> "chunks", centre |-> ChunkOf(p.position), radius |-> p.view_distance],
                    [id |-> "network_chunk_publisher_update", position |-> p.position,
                     radius |-> p.view_distance]>>

has_minecraft_player_address(a) == \E k \in DOMAIN players : players[k].address = a
get_minecraft_player_address(a) == CHOOSE k \in DOMAIN players : players[k].address = a

\* Neither the display name nor anything else ties a player to a connection.
Me == players[get_minecraft_player_address(sender)]

\* has_minecraft_player_entity_unique_id and ..._runtime_id: drawn until nobody has it.
FreshIds(field) == EntityIds \ {players[k][field] : k \in DOMAIN players}

Send(a, packets) == sent' = [sent EXCEPT ![a] = @ \o packets]

\* Mutant: stops at the first player that has not spawned.
Mut_boardcast_packet(out, id) ==
  /\ said' = said + 1
  /\ sent' = [a \in Addresses |->
       IF \E k \in DOMAIN players : players[k].address = a /\ \A j \in 1..k : players[j].spawned
       THEN Append(out[a], [id |-> id, number |-> said + 1]) ELSE out[a]]

\* boardcast_packet: to whoever has spawned, the sender included if it has.
boardcast_packet(out, id) ==
  /\ said' = said + 1
  /\ sent' = [a \in Addresses |->
       IF \E k \in DOMAIN players : players[k].address = a /\ players[k].spawned
       THEN Append(out[a], [id |-> id, number |-> said + 1]) ELSE out[a]]
-------------------------------------------------------------------------------
Room == /\ \A a \in Addresses : Len(sent[a]) < MaxSent
        /\ said < MaxSaid

\* on_f is called with what one datagram held for this client.
Receive(a, packets) ==
  /\ batch = <<>> /\ Room
  /\ batch' = packets /\ sender' = a
  /\ UNCHANGED <<players, sent, said>>

Handles(id) == /\ batch # <<>> /\ Head(batch).id = id
               /\ batch' = Tail(batch)
               /\ UNCHANGED sender

add_minecraft_player(p) ==
  players' = IF has_minecraft_player_address(p.address) THEN players ELSE Append(players, p)

on_f_request_network_settings ==
  /\ Handles("request_network_settings")
  /\ IF Head(batch).current
     THEN /\ \E u \in FreshIds("entity_unique_id"), r \in FreshIds("entity_runtime_id") :
               add_minecraft_player([address |-> sender, entity_unique_id |-> u, entity_runtime_id |-> r,
                                     spawned |-> FALSE, view_distance |-> 8, position |-> Spawn])
          /\ Send(sender, Packet("network_setting"))
     ELSE Send(sender, play_status("failed_client")) /\ UNCHANGED players
  /\ UNCHANGED said

play_success == play_status("login_success") \o Packet("resource_packs_info")

\* A client that was refused is told, and stays connected and known.
handle_packet_login ==
  /\ Handles("login")
  /\ IF has_minecraft_player_address(sender)
     THEN Send(sender, IF Head(batch).accepted THEN play_success ELSE Packet("disconnect"))
     ELSE UNCHANGED sent
  /\ UNCHANGED <<players, said>>

\* The sender is not known: the rest of its batch is dropped.
on_f_unknown ==
  /\ batch # <<>> /\ ~has_minecraft_player_address(sender)
  /\ Head(batch).id \notin {"request_network_settings", "login"}
  /\ batch' = <<>>
  /\ UNCHANGED <<players, sender, sent, said>>

HandlesFromPlayer(id) == Handles(id) /\ has_minecraft_player_address(sender)

start_game == Packet("start_game") \o Packet("creative_content")
                \o Packet("biome_definition_list") \o Packet("available_entity_identifiers")

\* The server offers no packs, and a client's answer is taken to name none: with names, ids[i] is
\* freed once for each of them, i being the packet's place in the batch, and the process that ends of
\* it is one that takes no further step.  What creative_content says of its entry_ids is left out:
\* of an array that is not initialized, entry i alone is written.
on_f_resource_pack_client_response ==
  /\ HandlesFromPlayer("resource_pack_client_response")
  /\ CASE Head(batch).status \in {"none", "have_all_packs"} -> Send(sender, Packet("resource_pack_stack"))
       [] Head(batch).status = "completed" -> Send(sender, start_game)
       [] Head(batch).status = "refused" -> UNCHANGED sent
  /\ UNCHANGED <<players, said>>

Update(p) == players' = [players EXCEPT ![get_minecraft_player_address(sender)] = p]

\* Mutant: the player is not marked as spawned.
Mut_handle_packet_request_chunk_radius ==
  /\ HandlesFromPlayer("request_chunk_radius")
  /\ LET asked == Head(batch).radius
         radius == IF asked < ServerRadius THEN asked ELSE ServerRadius
         me == [Me EXCEPT !.view_distance = radius]
     IN IF Me.spawned THEN UNCHANGED <<players, sent>>
        ELSE /\ Update(me)
             /\ Send(sender, chunk_radius_updated(radius) \o send_chunks(me) \o play_status("player_spawn"))
  /\ UNCHANGED said

\* Heard only once: a player that has spawned is not answered.
handle_packet_request_chunk_radius ==
  /\ HandlesFromPlayer("request_chunk_radius")
  /\ LET asked == Head(batch).radius
         radius == IF asked < ServerRadius THEN asked ELSE ServerRadius
         me == [Me EXCEPT !.view_distance = radius]
     IN IF Me.spawned THEN UNCHANGED <<players, sent>>
        ELSE /\ Update([me EXCEPT !.spawned = TRUE])
             /\ Send(sender, chunk_radius_updated(radius) \o send_chunks(me) \o play_status("player_spawn"))
  /\ UNCHANGED said

\* gamemode is always 1, so the window is that of the creative mode.
handle_packet_interact ==
  /\ HandlesFromPlayer("interact")
  /\ Send(sender, Packet("container_open"))
  /\ UNCHANGED <<players, said>>

handle_packet_window_close ==
  /\ HandlesFromPlayer("container_close")
  /\ Send(sender, Packet("container_close"))
  /\ UNCHANGED <<players, said>>

\* teleport: the sender is told to stay where it is, at another height.
teleport == [sent EXCEPT ![sender] = @ \o Packet("move_player")]

on_f_text ==
  /\ HandlesFromPlayer("text")
  /\ boardcast_packet(teleport, "text")
  /\ UNCHANGED players

on_f_player_skin ==
  /\ HandlesFromPlayer("player_skin")
  /\ boardcast_packet(sent, "player_skin")
  /\ UNCHANGED players

\* The client walks: it is at most Reach chunks further than it last said.
Near(p, q) == \A d \in {1, 2} : ChunkOf(p)[d] - ChunkOf(q)[d] \in -Reach .. Reach

\* Mutant: only a change of the first coordinate counts.
Mut_handle_packet_move_player ==
  /\ HandlesFromPlayer("move_player")
  /\ \E to \in Positions :
       /\ Near(to, Me.position)
       /\ IF Me.spawned /\ ChunkOf(to)[1] # ChunkOf(Me.position)[1]
          THEN Send(sender, send_chunks(Me)) ELSE UNCHANGED sent
       /\ Update([Me EXCEPT !.position = to])
  /\ UNCHANGED said

\* On entering another chunk the chunks are sent, around the position it comes from.
handle_packet_move_player ==
  /\ HandlesFromPlayer("move_player")
  /\ \E to \in Positions :
       /\ Near(to, Me.position)
       /\ IF Me.spawned /\ ChunkOf(to) # ChunkOf(Me.position)
          THEN Send(sender, send_chunks(Me)) ELSE UNCHANGED sent
       /\ Update([Me EXCEPT !.position = to])
  /\ UNCHANGED said

\* encryption_enabled is never set, so the handshake is not answered; the ability is logged.
on_f_nothing ==
  /\ \E id \in {"client_to_server_handshake", "request_ability", "not_handled"} : HandlesFromPlayer(id)
  /\ UNCHANGED <<players, sent, said>>

on_f ==
  \/ on_f_request_network_settings \/ handle_packet_login \/ on_f_unknown
  \/ on_f_resource_pack_client_response \/ handle_packet_request_chunk_radius
  \/ handle_packet_interact \/ handle_packet_window_close
  \/ on_f_text \/ on_f_player_skin \/ handle_packet_move_player \/ on_f_nothing

\* The table is copied without the one player that has the address.
remove_minecraft_player(a) ==
  IF has_minecraft_player_address(a)
  THEN LET gone == get_minecraft_player_address(a)
       IN players' = [k \in 1 .. Len(players) - 1 |-> players[IF k < gone THEN k ELSE k + 1]]
  ELSE UNCHANGED players

\* What was sent to the client is forgotten with its player.
on_dn(a) ==
  /\ batch = <<>>
  /\ remove_minecraft_player(a)
  /\ sent' = [sent EXCEPT ![a] = <<>>]
  /\ UNCHANGED <<batch, sender, said>>

Next == on_f \/ \E a \in Addresses : on_dn(a) \/ \E packets \in Batches : Receive(a, packets)

Spec == Init /\ [][Next]_vars
-------------------------------------------------------------------------------
\* Types, and what is sent are packets of the handlers.
SentPackets ==
  [id : {"network_setting", "resource_packs_info", "disconnect", "resource_pack_stack", "start_game",
         "creative_content", "biome_definition_list", "available_entity_identifiers", "container_open",
         "container_close", "move_player"}]
    \cup [id : {"play_status"}, status : {"failed_client", "login_success", "player_spawn"}]
    \cup [id : {"chunk_radius_updated"}, radius : Int]
    \cup [id : {"chunks"}, centre : Int \X Int, radius : Int]
    \cup [id : {"network_chunk_publisher_update"}, position : Int \X Int, radius : Int]
    \cup [id : {"text", "player_skin"}, number : Nat]

\* Types of the table, of the batch and of what was sent.
TypeOK ==
  /\ players \in Seq(Player)
  /\ batch \in Seq(Packets) /\ sender \in Addresses
  /\ sent \in [Addresses -> Seq(SentPackets)]
  /\ said \in Nat

\* Nobody is in the table twice and no two players have an entity id in common, however
\* often clients ask for the settings again, leave and come back
\* (add_minecraft_player, remove_minecraft_player and the loops that draw the ids).
TableIsSound ==
  \A j, k \in DOMAIN players : j # k =>
    /\ players[j].address # players[k].address
    /\ players[j].entity_unique_id # players[k].entity_unique_id
    /\ players[j].entity_runtime_id # players[k].entity_runtime_id

IsPlaying(a) == \E k \in DOMAIN players : players[k].address = a /\ players[k].spawned

Has(e, id) == e.id = id
IsSpawn(e) == Has(e, "play_status") /\ e.status = "player_spawn"
IsBroadcast(e) == e.id \in {"text", "player_skin"}

\* A client is told once that it spawns, exactly when the table says so, after its radius
\* and the chunks; before the radius it is sent no chunks, before the spawn nothing that others say
\* (handle_packet_request_chunk_radius against boardcast_packet and move_player).
WorldComesFirst ==
  \A a \in Addresses :
    LET out == sent[a]
        spawns == {n \in DOMAIN out : IsSpawn(out[n])}
    IN /\ Cardinality(spawns) = (IF IsPlaying(a) THEN 1 ELSE 0)
       /\ \A n \in spawns : \E j, k \in 1 .. n - 1 :
            j < k /\ Has(out[j], "chunk_radius_updated") /\ Has(out[k], "chunks")
       /\ \A n \in DOMAIN out : IsBroadcast(out[n]) => \E k \in spawns : k < n
       /\ \A n \in DOMAIN out : Has(out[n], "chunks") =>
            \E k \in 1 .. n - 1 : Has(out[k], "chunk_radius_updated")
       /\ Cardinality({n \in DOMAIN out : Has(out[n], "chunk_radius_updated")}) <= 1

Last(out, id) == CHOOSE n \in DOMAIN out :
  Has(out[n], id) /\ \A k \in n + 1 .. Len(out) : ~Has(out[k], id)

\* A player that walks always stands on a chunk of the square it was sent last, although the
\* square is drawn around the position before the step (handle_packet_move_player).  It takes
\* a view distance above Reach: of the square's two sides one is nearer by a chunk.
StandsOnSentChunk ==
  \A k \in DOMAIN players :
    LET out == sent[players[k].address]
        square == out[Last(out, "chunks")]
        walks == players[k].spawned /\ players[k].view_distance > Reach
        squares == {n \in DOMAIN out : Has(out[n], "chunks")}
    IN walks /\ squares # {} => ChunkOf(players[k].position) \in Square(square.centre, square.radius)

\* The broadcasts among the first n packets.
HeardUpTo(out) ==
  LET heard[n \in 0 .. Len(out)] ==
        IF n = 0 THEN <<>>
        ELSE IF IsBroadcast(out[n]) THEN Append(heard[n - 1], out[n].number) ELSE heard[n - 1]
  IN heard

Heard(out) == HeardUpTo(out)[Len(out)]

Kept == INSTANCE Session WITH
  phase <- [a \in Addresses |-> IF IsPlaying(a) THEN "playing"
                                ELSE IF has_minecraft_player_address(a) THEN "known" ELSE "unknown"],
  heard <- [a \in Addresses |-> Heard(sent[a])]

\* From its spawn on a client hears all that is said, in one order, whoever else comes, spawns and
\* leaves (server.c:103 over the table of players).
KeepsPromise == Kept!Spec
===============================================================================
