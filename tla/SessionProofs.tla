---------------------------- MODULE SessionProofs ----------------------------
(***************************************************************************)
(* The handlers of server.c for all clients, batches, walks, bounds: the   *)
(* table of players stays sound and what a client is sent of its spawn     *)
(* comes in order (PlayerSession); and with clients of the protocol, whose *)
(* sessions follow each other while the worker is behind, the table and    *)
(* what they believe agree (Sessions).  The handlers implement Session.    *)
(***************************************************************************)
EXTENDS Sessions, FiniteSetTheorems, NaturalsInduction, WellFoundedInduction, TLAPS

\* What a step of on_f, or on_dn, does to the table of players.
Added ==
  \E p \in Player :
    /\ p.address = sender /\ ~p.spawned
    /\ \A k \in DOMAIN players : /\ players[k].address # p.address
                                 /\ players[k].entity_unique_id # p.entity_unique_id
                                 /\ players[k].entity_runtime_id # p.entity_runtime_id
    /\ players' = Append(players, p)

Changed(k, q) ==
  /\ k \in DOMAIN players /\ q \in Player
  /\ q.address = players[k].address
  /\ q.entity_unique_id = players[k].entity_unique_id
  /\ q.entity_runtime_id = players[k].entity_runtime_id
  /\ players' = [players EXCEPT ![k] = q]

Removed(gone) ==
  /\ gone \in DOMAIN players
  /\ players' = [k \in 1 .. Len(players) - 1 |-> players[IF k < gone THEN k ELSE k + 1]]

LEMMA AppendIs ==
  ASSUME NEW S, NEW s \in Seq(S), NEW e \in S
  PROVE  /\ Append(s, e) \in Seq(S)
         /\ Len(Append(s, e)) = Len(s) + 1
         /\ DOMAIN Append(s, e) = DOMAIN s \cup {Len(s) + 1}
         /\ \A k \in DOMAIN s : k # Len(s) + 1 /\ Append(s, e)[k] = s[k]
         /\ Append(s, e)[Len(s) + 1] = e
OBVIOUS

LEMMA ChangedIs ==
  ASSUME NEW S, NEW s \in Seq(S), NEW k \in DOMAIN s, NEW e \in S
  PROVE  /\ [s EXCEPT ![k] = e] \in Seq(S)
         /\ DOMAIN [s EXCEPT ![k] = e] = DOMAIN s
         /\ \A j \in DOMAIN s : [s EXCEPT ![k] = e][j] = IF j = k THEN e ELSE s[j]
OBVIOUS

\* A player keeps its place in the table or moves down by one.
LEMMA RemovedIs ==
  ASSUME NEW gone, Removed(gone), players \in Seq(Player)
  PROVE  /\ players' \in Seq(Player)
         /\ \A j \in DOMAIN players' : \E k \in DOMAIN players \ {gone} : players'[j] = players[k]
         /\ \A k \in DOMAIN players \ {gone} : \E j \in DOMAIN players' : players'[j] = players[k]
         /\ \A i, j \in DOMAIN players' : i # j =>
              \E k, l \in DOMAIN players \ {gone} :
                k # l /\ players'[i] = players[k] /\ players'[j] = players[l]
<1> DEFINE size == Len(players)
           From(k) == IF k < gone THEN k ELSE k + 1
<1>1. size \in Nat /\ DOMAIN players = 1..size /\ gone \in 1..size
  BY DEF Removed
<1>2. players' = [k \in 1 .. size - 1 |-> players[From(k)]]
  BY DEF Removed
<1> HIDE DEF size
<1>3. \A k \in 1 .. size - 1 : From(k) \in DOMAIN players \ {gone}
  BY <1>1
<1>4. \A i, j \in 1 .. size - 1 : i # j => From(i) # From(j)
  BY <1>1
<1>5. \A k \in DOMAIN players \ {gone} : \E j \in 1 .. size - 1 : From(j) = k
  <2> SUFFICES ASSUME NEW k \in DOMAIN players \ {gone} PROVE \E j \in 1 .. size - 1 : From(j) = k
    OBVIOUS
  <2>1. CASE k < gone
    <3>1. k \in 1 .. size - 1 /\ From(k) = k
      BY <1>1, <2>1
    <3>2. QED
      BY <3>1
  <2>2. CASE ~(k < gone)
    <3>1. k - 1 \in 1 .. size - 1 /\ From(k - 1) = k
      BY <1>1, <2>2
    <3>2. QED
      BY <3>1
  <2>3. QED
    BY <2>1, <2>2
<1> HIDE DEF From
<1>6. DOMAIN players' = 1 .. size - 1 /\ \A k \in 1 .. size - 1 : players'[k] = players[From(k)]
  BY <1>2
<1>7. players' \in Seq(Player)
  <2>1. \A k \in 1 .. size - 1 : players[From(k)] \in Player
    BY <1>3
  <2>2. size - 1 \in Nat
    BY <1>1
  <2>3. QED
    BY <1>2, <2>1, <2>2
<1>8. QED
  BY <1>3, <1>4, <1>5, <1>6, <1>7

\* None of these breaks the table.
LEMMA TableStaysSound ==
  ASSUME players \in Seq(Player), TableIsSound,
         players' = players \/ Added \/ (\E k, q : Changed(k, q)) \/ \E gone : Removed(gone)
  PROVE  players' \in Seq(Player) /\ TableIsSound'
<1>1. CASE players' = players
  BY <1>1 DEF TableIsSound
<1>2. CASE Added
  <2>1. PICK p \in Player :
          /\ \A k \in DOMAIN players : /\ players[k].address # p.address
                                       /\ players[k].entity_unique_id # p.entity_unique_id
                                       /\ players[k].entity_runtime_id # p.entity_runtime_id
          /\ players' = Append(players, p)
    BY <1>2 DEF Added
  <2>2. /\ players' \in Seq(Player)
        /\ DOMAIN players' = DOMAIN players \cup {Len(players) + 1}
        /\ \A k \in DOMAIN players : players'[k] = players[k]
        /\ players'[Len(players) + 1] = p
    BY <2>1, AppendIs
  <2>3. QED
    BY <2>1, <2>2 DEF TableIsSound
<1>3. CASE \E k, q : Changed(k, q)
  <2>1. PICK k, q : Changed(k, q)
    BY <1>3
  <2>2. /\ players' \in Seq(Player) /\ DOMAIN players' = DOMAIN players
        /\ \A j \in DOMAIN players : players'[j] = IF j = k THEN q ELSE players[j]
    BY <2>1, ChangedIs DEF Changed
  <2>3. \A j \in DOMAIN players :
          /\ players'[j].address = players[j].address
          /\ players'[j].entity_unique_id = players[j].entity_unique_id
          /\ players'[j].entity_runtime_id = players[j].entity_runtime_id
    BY <2>1, <2>2 DEF Changed
  <2>4. QED
    BY <2>2, <2>3 DEF TableIsSound
<1>4. CASE \E gone : Removed(gone)
  <2>1. PICK gone : Removed(gone)
    BY <1>4
  <2>2. /\ players' \in Seq(Player)
        /\ \A i, j \in DOMAIN players' : i # j =>
             \E k, l \in DOMAIN players :
               k # l /\ players'[i] = players[k] /\ players'[j] = players[l]
    BY <2>1, RemovedIs
  <2>3. ASSUME NEW i \in DOMAIN players', NEW j \in DOMAIN players', i # j
        PROVE  /\ players'[i].address # players'[j].address
               /\ players'[i].entity_unique_id # players'[j].entity_unique_id
               /\ players'[i].entity_runtime_id # players'[j].entity_runtime_id
    <3>1. PICK k \in DOMAIN players, l \in DOMAIN players :
            k # l /\ players'[i] = players[k] /\ players'[j] = players[l]
      BY <2>2, <2>3
    <3>2. QED
      BY <3>1 DEF TableIsSound
  <2>4. QED
    BY <2>2, <2>3 DEF TableIsSound
<1>5. QED
  BY <1>1, <1>2, <1>3, <1>4
-------------------------------------------------------------------------------
(* What a handler does. *)

\* Packets of which no property speaks.
QuietPackets ==
  {e \in SentPackets : ~Has(e, "chunks") /\ ~Has(e, "chunk_radius_updated") /\ ~IsSpawn(e) /\ ~IsBroadcast(e)}

Tell(a, packets) == [sent EXCEPT ![a] = @ \o packets]

Quiet ==
  /\ players' = players \/ Added
  /\ sent' = sent \/ \E q \in Seq(QuietPackets) : sent' = Tell(sender, q)
  /\ said' = said

World(p) == chunk_radius_updated(p.view_distance) \o send_chunks(p) \o play_status("player_spawn")

Spawns(k, q) ==
  /\ Changed(k, q) /\ players[k].address = sender
  /\ ~players[k].spawned /\ q.spawned
  /\ sent' = Tell(sender, World(q))
  /\ said' = said

Says(id, out) ==
  /\ players' = players
  /\ said' = said + 1
  /\ sent' = [a \in Addresses |-> IF IsPlaying(a) THEN Append(out[a], [id |-> id, number |-> said + 1]) ELSE out[a]]

Moves(k, q) ==
  /\ Changed(k, q) /\ players[k].address = sender
  /\ q.spawned = players[k].spawned /\ q.view_distance = players[k].view_distance
  /\ Near(q.position, players[k].position)
  /\ sent' = IF q.spawned /\ ChunkOf(q.position) # ChunkOf(players[k].position)
             THEN Tell(sender, send_chunks(players[k])) ELSE sent
  /\ said' = said

LEMMA Single == ASSUME NEW S, NEW e \in S PROVE <<e>> \in Seq(S)
OBVIOUS

LEMMA Joined == ASSUME NEW S, NEW s \in Seq(S), NEW t \in Seq(S) PROVE s \o t \in Seq(S)
OBVIOUS

LEMMA JoinedIs ==
  ASSUME NEW S, NEW s \in Seq(S), NEW t \in Seq(S)
  PROVE  /\ s \o t \in Seq(S) /\ Len(s \o t) = Len(s) + Len(t)
         /\ \A n \in 1 .. Len(s) : (s \o t)[n] = s[n]
         /\ \A n \in 1 .. Len(t) : (s \o t)[Len(s) + n] = t[n]
OBVIOUS

LEMMA PacketIsQuiet ==
  ASSUME NEW id \in {"network_setting", "resource_packs_info", "disconnect", "resource_pack_stack",
                     "start_game", "creative_content", "biome_definition_list",
                     "available_entity_identifiers", "container_open", "container_close", "move_player"}
  PROVE  Packet(id) \in Seq(QuietPackets)
<1>1. [id |-> id] \in QuietPackets
  BY DEF QuietPackets, SentPackets, Has, IsSpawn, IsBroadcast
<1>2. QED
  BY <1>1, Single DEF Packet

LEMMA StatusIsQuiet ==
  ASSUME NEW status \in {"failed_client", "login_success"}
  PROVE  play_status(status) \in Seq(QuietPackets)
<1>1. [id |-> "play_status", status |-> status] \in QuietPackets
  BY DEF QuietPackets, SentPackets, Has, IsSpawn, IsBroadcast
<1>2. QED
  BY <1>1, Single DEF play_status

\* A known sender has its place in the table.
LEMMA MeIs ==
  ASSUME has_minecraft_player_address(sender), players \in Seq(Player)
  PROVE  /\ get_minecraft_player_address(sender) \in DOMAIN players
         /\ Me = players[get_minecraft_player_address(sender)]
         /\ Me.address = sender /\ Me \in Player
<1>1. get_minecraft_player_address(sender) \in DOMAIN players
      /\ players[get_minecraft_player_address(sender)].address = sender
  BY Zenon DEF has_minecraft_player_address, get_minecraft_player_address
<1>2. QED
  BY <1>1 DEF Me

LEMMA SettingsAre ==
  ASSUME TypeOK, on_f_request_network_settings
  PROVE  Quiet
<1>1. players \in Seq(Player) /\ sender \in Addresses
  BY DEF TypeOK
<1>2. CASE Head(batch).current
  <2>1. PICK u \in FreshIds("entity_unique_id"), r \in FreshIds("entity_runtime_id") :
          add_minecraft_player([address |-> sender, entity_unique_id |-> u, entity_runtime_id |-> r,
                                spawned |-> FALSE, view_distance |-> 8, position |-> Spawn])
    BY <1>2 DEF on_f_request_network_settings
  <2> DEFINE p == [address |-> sender, entity_unique_id |-> u, entity_runtime_id |-> r,
                   spawned |-> FALSE, view_distance |-> 8, position |-> Spawn]
  <2>2. /\ p \in Player /\ p.address = sender /\ ~p.spawned
        /\ p.entity_unique_id = u /\ p.entity_runtime_id = r
    <3>1. u \in EntityIds /\ r \in EntityIds /\ Spawn \in Int \X Int
      BY DEF FreshIds, Spawn
    <3>2. QED
      BY <1>1, <3>1 DEF Player
  <2>3. \A k \in DOMAIN players : players[k].entity_unique_id # u /\ players[k].entity_runtime_id # r
    BY DEF FreshIds
  <2>4. players' = IF has_minecraft_player_address(p.address) THEN players ELSE Append(players, p)
    BY <2>1 DEF add_minecraft_player
  <2> HIDE DEF p
  <2>5. players' = players \/ Added
    BY <2>2, <2>3, <2>4 DEF Added, has_minecraft_player_address
  <2>6. sent' = Tell(sender, Packet("network_setting")) /\ said' = said
    BY <1>2 DEF on_f_request_network_settings, Send, Tell
  <2>7. QED
    BY <2>5, <2>6, PacketIsQuiet DEF Quiet
<1>3. CASE ~Head(batch).current
  BY <1>3, StatusIsQuiet DEF on_f_request_network_settings, Send, Tell, Quiet
<1>4. QED
  BY <1>2, <1>3

LEMMA QuietHandlers ==
  ASSUME TypeOK,
         \/ handle_packet_login \/ on_f_unknown \/ on_f_resource_pack_client_response
         \/ handle_packet_interact \/ handle_packet_window_close \/ on_f_nothing
  PROVE  Quiet
<1>1. players' = players /\ said' = said
  BY DEF handle_packet_login, on_f_unknown, on_f_resource_pack_client_response,
         handle_packet_interact, handle_packet_window_close, on_f_nothing
<1>2. CASE handle_packet_login
  <2>1. play_success \in Seq(QuietPackets)
    BY StatusIsQuiet, PacketIsQuiet, Joined DEF play_success
  <2>2. Packet("disconnect") \in Seq(QuietPackets)
    BY PacketIsQuiet
  <2>3. QED
    BY <1>1, <1>2, <2>1, <2>2 DEF handle_packet_login, Send, Tell, Quiet
<1>3. CASE on_f_resource_pack_client_response
  <2>1. Packet("resource_pack_stack") \in Seq(QuietPackets)
    BY PacketIsQuiet
  <2>2. start_game \in Seq(QuietPackets)
    <3>1. /\ Packet("start_game") \in Seq(QuietPackets)
          /\ Packet("creative_content") \in Seq(QuietPackets)
          /\ Packet("biome_definition_list") \in Seq(QuietPackets)
          /\ Packet("available_entity_identifiers") \in Seq(QuietPackets)
      BY PacketIsQuiet
    <3>2. QED
      BY <3>1, Joined, Zenon DEF start_game
  <2>3. Head(batch).status \in {"none", "refused", "have_all_packs", "completed"}
    <3>1. Head(batch) \in Packets /\ Head(batch).id = "resource_pack_client_response"
      BY <1>3 DEF TypeOK, on_f_resource_pack_client_response, HandlesFromPlayer, Handles
    <3>2. QED
      BY <3>1 DEF Packets
  <2>4. sent' = sent \/ sent' = Tell(sender, Packet("resource_pack_stack")) \/ sent' = Tell(sender, start_game)
    <3>1. CASE Head(batch).status \in {"none", "have_all_packs"}
      BY <1>3, <3>1 DEF on_f_resource_pack_client_response, Send, Tell
    <3>2. CASE Head(batch).status = "completed"
      BY <1>3, <3>2 DEF on_f_resource_pack_client_response, Send, Tell
    <3>3. CASE Head(batch).status = "refused"
      BY <1>3, <3>3 DEF on_f_resource_pack_client_response
    <3>4. QED
      BY <2>3, <3>1, <3>2, <3>3
  <2>5. QED
    BY <1>1, <2>1, <2>2, <2>4 DEF Quiet
<1>4. CASE handle_packet_interact
  BY <1>1, <1>4, PacketIsQuiet DEF handle_packet_interact, Send, Tell, Quiet
<1>5. CASE handle_packet_window_close
  BY <1>1, <1>5, PacketIsQuiet DEF handle_packet_window_close, Send, Tell, Quiet
<1>6. CASE on_f_unknown \/ on_f_nothing
  BY <1>1, <1>6 DEF on_f_unknown, on_f_nothing, Quiet
<1>7. QED
  BY <1>2, <1>3, <1>4, <1>5, <1>6

LEMMA RadiusSpawns ==
  ASSUME TypeOK, handle_packet_request_chunk_radius
  PROVE  Quiet \/ \E k, q : Spawns(k, q)
<1> DEFINE asked == Head(batch).radius
           radius == IF asked < ServerRadius THEN asked ELSE ServerRadius
           k == get_minecraft_player_address(sender)
           q == [[Me EXCEPT !.view_distance = radius] EXCEPT !.spawned = TRUE]
<1>1. /\ batch # <<>> /\ Head(batch).id = "request_chunk_radius"
      /\ has_minecraft_player_address(sender) /\ said' = said
  BY DEF handle_packet_request_chunk_radius, HandlesFromPlayer, Handles
<1>2. k \in DOMAIN players /\ Me = players[k] /\ Me.address = sender /\ Me \in Player
  BY <1>1, MeIs DEF TypeOK
<1>3. CASE Me.spawned
  BY <1>1, <1>3 DEF handle_packet_request_chunk_radius, Quiet
<1>4. CASE ~Me.spawned
  <2>1. asked \in Int
    <3>1. Head(batch) \in Packets
      BY <1>1 DEF TypeOK
    <3>2. QED
      BY <1>1, <3>1 DEF Packets
  <2>2. radius \in Int
    BY <2>1, BoundsAreNumbers
  <2> HIDE DEF k
  <2>3. /\ players' = [players EXCEPT ![k] = q]
        /\ sent' = Tell(sender, chunk_radius_updated(radius)
                         \o send_chunks([Me EXCEPT !.view_distance = radius]) \o play_status("player_spawn"))
    BY <1>4 DEF handle_packet_request_chunk_radius, Update, Send, Tell, k
  <2> HIDE DEF radius
  <2>4. /\ q \in Player /\ q.address = Me.address /\ q.spawned /\ q.view_distance = radius
        /\ q.entity_unique_id = Me.entity_unique_id /\ q.entity_runtime_id = Me.entity_runtime_id
        /\ q.position = Me.position
    BY <1>2, <2>2 DEF Player
  <2>5. send_chunks([Me EXCEPT !.view_distance = radius]) = send_chunks(q)
    <3>1. [Me EXCEPT !.view_distance = radius].position = Me.position
          /\ [Me EXCEPT !.view_distance = radius].view_distance = radius
      BY <1>2 DEF Player
    <3>2. QED
      BY <2>4, <3>1 DEF send_chunks
  <2> HIDE DEF q
  <2>6. sent' = Tell(sender, World(q))
    BY <2>3, <2>4, <2>5 DEF World
  <2>7. Changed(k, q)
    BY <1>2, <2>3, <2>4 DEF Changed
  <2>8. Spawns(k, q)
    BY <1>1, <1>2, <1>4, <2>4, <2>6, <2>7 DEF Spawns
  <2>9. QED
    BY <2>8
<1>5. QED
  BY <1>3, <1>4

LEMMA WalkMoves ==
  ASSUME TypeOK, handle_packet_move_player
  PROVE  \E k, q : Moves(k, q)
<1> DEFINE k == get_minecraft_player_address(sender)
<1>1. has_minecraft_player_address(sender) /\ said' = said
  BY DEF handle_packet_move_player, HandlesFromPlayer
<1>2. k \in DOMAIN players /\ Me = players[k] /\ Me.address = sender /\ Me \in Player
  BY <1>1, MeIs DEF TypeOK
<1>3. PICK to \in Positions :
        /\ Near(to, Me.position)
        /\ IF Me.spawned /\ ChunkOf(to) # ChunkOf(Me.position)
           THEN Send(sender, send_chunks(Me)) ELSE UNCHANGED sent
        /\ Update([Me EXCEPT !.position = to])
  BY DEF handle_packet_move_player
<1> DEFINE q == [Me EXCEPT !.position = to]
<1>4. /\ q \in Player /\ q.address = Me.address /\ q.spawned = Me.spawned
      /\ q.view_distance = Me.view_distance /\ q.entity_unique_id = Me.entity_unique_id
      /\ q.entity_runtime_id = Me.entity_runtime_id /\ q.position = to
  BY <1>2, PlacesArePairs DEF Player
<1>5. players' = [players EXCEPT ![k] = q]
  BY <1>3 DEF Update
<1> HIDE DEF q, k
<1>6. Changed(k, q)
  BY <1>2, <1>4, <1>5 DEF Changed
<1>7. sent' = IF q.spawned /\ ChunkOf(q.position) # ChunkOf(players[k].position)
              THEN Tell(sender, send_chunks(players[k])) ELSE sent
  BY <1>2, <1>3, <1>4 DEF Send, Tell
<1>8. Moves(k, q)
  BY <1>1, <1>2, <1>3, <1>4, <1>6, <1>7 DEF Moves
<1>9. QED
  BY <1>8

LEMMA TextSays ==
  ASSUME TypeOK, on_f_text \/ on_f_player_skin
  PROVE  \E id \in {"text", "player_skin"}, out \in [Addresses -> Seq(SentPackets)] :
           /\ out = sent \/ \E q \in Seq(QuietPackets) : out = Tell(sender, q)
           /\ Says(id, out)
<1>1. CASE on_f_text
  <2>1. Packet("move_player") \in Seq(QuietPackets)
    BY PacketIsQuiet
  <2>2. teleport = Tell(sender, Packet("move_player"))
    BY DEF teleport, Tell
  <2>3. teleport \in [Addresses -> Seq(SentPackets)]
    <3>1. Packet("move_player") \in Seq(SentPackets)
      <4>1. [id |-> "move_player"] \in SentPackets
        BY DEF SentPackets
      <4>2. QED
        BY <4>1, Single DEF Packet
    <3>2. sent[sender] \o Packet("move_player") \in Seq(SentPackets)
      BY <3>1, Joined DEF TypeOK
    <3>3. QED
      BY <2>2, <3>2 DEF Tell, TypeOK
  <2>4. Says("text", teleport)
    BY <1>1 DEF on_f_text, boardcast_packet, Says, IsPlaying
  <2>5. QED
    BY <2>1, <2>2, <2>3, <2>4
<1>2. CASE on_f_player_skin
  <2>1. Says("player_skin", sent)
    BY <1>2 DEF on_f_player_skin, boardcast_packet, Says, IsPlaying
  <2>2. QED
    BY <2>1 DEF TypeOK
<1>3. QED
  BY <1>1, <1>2

\* A packet of a batch is handled for the connection that the batch came from.
LEMMA BatchShrinks ==
  ASSUME TypeOK, on_f
  PROVE  /\ batch # <<>> /\ sender' = sender
         /\ batch' = Tail(batch) \/ batch' = <<>>
         /\ batch' \in Seq(Packets)
<1>1. (\E id : Handles(id)) \/ on_f_unknown
  <2>1. CASE on_f_request_network_settings \/ handle_packet_login
    BY <2>1 DEF on_f_request_network_settings, handle_packet_login
  <2>2. CASE \/ on_f_resource_pack_client_response \/ handle_packet_request_chunk_radius
             \/ handle_packet_interact \/ handle_packet_window_close \/ on_f_text
             \/ on_f_player_skin \/ handle_packet_move_player
    BY <2>2, Zenon DEF on_f_resource_pack_client_response, handle_packet_request_chunk_radius,
       handle_packet_interact, handle_packet_window_close, on_f_text, on_f_player_skin,
       handle_packet_move_player, HandlesFromPlayer
  <2>3. CASE on_f_nothing
    BY <2>3, Zenon DEF on_f_nothing, HandlesFromPlayer
  <2>4. QED
    BY <2>1, <2>2, <2>3 DEF on_f
<1>2. batch # <<>> /\ sender' = sender /\ (batch' = Tail(batch) \/ batch' = <<>>)
  BY <1>1 DEF on_f_unknown, Handles
<1>3. Tail(batch) \in Seq(Packets) /\ <<>> \in Seq(Packets)
  BY <1>2 DEF TypeOK
<1>4. CASE batch' = Tail(batch)
  BY <1>2, <1>3, <1>4, Zenon
<1>5. CASE batch' = <<>>
  BY <1>2, <1>3, <1>5, Zenon
<1>6. QED
  BY <1>2, <1>4, <1>5

Handled ==
  \/ Quiet
  \/ \E k, q : Spawns(k, q) \/ Moves(k, q)
  \/ \E id \in {"text", "player_skin"}, out \in [Addresses -> Seq(SentPackets)] :
       /\ out = sent \/ \E q \in Seq(QuietPackets) : out = Tell(sender, q)
       /\ Says(id, out)

LEMMA HandlersDo == ASSUME TypeOK, on_f PROVE Handled
<1>1. CASE on_f_request_network_settings
  BY <1>1, SettingsAre DEF Handled
<1>2. CASE handle_packet_request_chunk_radius
  BY <1>2, RadiusSpawns DEF Handled
<1>3. CASE handle_packet_move_player
  BY <1>3, WalkMoves DEF Handled
<1>4. CASE on_f_text \/ on_f_player_skin
  BY <1>4, TextSays DEF Handled
<1>5. CASE \/ handle_packet_login \/ on_f_unknown \/ on_f_resource_pack_client_response
           \/ handle_packet_interact \/ handle_packet_window_close \/ on_f_nothing
  BY <1>5, QuietHandlers DEF Handled
<1>6. QED
  BY <1>1, <1>2, <1>3, <1>4, <1>5 DEF on_f
-------------------------------------------------------------------------------
(* Types and the table. *)

Sents == [Addresses -> Seq(SentPackets)]

LEMMA TellIs ==
  ASSUME sent \in Sents, NEW a \in Addresses, NEW q \in Seq(SentPackets)
  PROVE  /\ Tell(a, q) \in Sents
         /\ Tell(a, q)[a] = sent[a] \o q
         /\ \A b \in Addresses : b # a => Tell(a, q)[b] = sent[b]
<1>1. sent[a] \o q \in Seq(SentPackets)
  BY Joined DEF Sents
<1>2. QED
  BY <1>1 DEF Tell, Sents

LEMMA QuietIsSent == Seq(QuietPackets) \subseteq Seq(SentPackets)
<1>1. QuietPackets \subseteq SentPackets
  BY DEF QuietPackets
<1>2. QED
  BY <1>1

LEMMA ChunkIsPair == ASSUME NEW p \in Int \X Int PROVE ChunkOf(p) \in Int \X Int
<1>1. p[1] \in Int /\ p[2] \in Int
  OBVIOUS
<1>2. p[1] \div ChunkSide \in Int /\ p[2] \div ChunkSide \in Int
  BY <1>1, SideIsPositive
<1>3. QED
  BY <1>2 DEF ChunkOf

LEMMA ChunksAre ==
  ASSUME NEW p \in Player
  PROVE  /\ send_chunks(p) \in Seq(SentPackets) /\ Len(send_chunks(p)) = 2
         /\ send_chunks(p)[1] = [id |-> "chunks", centre |-> ChunkOf(p.position), radius |-> p.view_distance]
         /\ send_chunks(p)[2].id = "network_chunk_publisher_update"
<1>1. p.position \in Int \X Int /\ p.view_distance \in Int /\ ChunkOf(p.position) \in Int \X Int
  BY ChunkIsPair DEF Player
<1> DEFINE c == [id |-> "chunks", centre |-> ChunkOf(p.position), radius |-> p.view_distance]
           u == [id |-> "network_chunk_publisher_update", position |-> p.position, radius |-> p.view_distance]
<1>2. c \in SentPackets
  BY <1>1 DEF SentPackets
<1>3. u \in SentPackets
  BY <1>1 DEF SentPackets
<1>4. send_chunks(p) = <<c, u>> /\ u.id = "network_chunk_publisher_update"
  BY DEF send_chunks
<1> HIDE DEF c, u
<1>5. send_chunks(p) \in Seq(SentPackets) /\ Len(send_chunks(p)) = 2
      /\ send_chunks(p)[1] = c /\ send_chunks(p)[2] = u
  BY <1>2, <1>3, <1>4
<1>6. QED
  BY <1>4, <1>5 DEF c

\* What tells a client that it spawns: its radius, the chunks, and the status.
LEMMA WorldIs ==
  ASSUME NEW p \in Player
  PROVE  /\ World(p) \in Seq(SentPackets) /\ Len(World(p)) = 4
         /\ World(p)[1] = [id |-> "chunk_radius_updated", radius |-> p.view_distance]
         /\ World(p)[2] = [id |-> "chunks", centre |-> ChunkOf(p.position), radius |-> p.view_distance]
         /\ World(p)[3].id = "network_chunk_publisher_update"
         /\ World(p)[4] = [id |-> "play_status", status |-> "player_spawn"]
<1> DEFINE r == [id |-> "chunk_radius_updated", radius |-> p.view_distance]
           s == [id |-> "play_status", status |-> "player_spawn"]
<1>1. r \in SentPackets /\ s \in SentPackets
  BY DEF SentPackets, Player
<1>2. World(p) = <<r>> \o send_chunks(p) \o <<s>>
  BY DEF World, chunk_radius_updated, play_status
<1> HIDE DEF r, s
<1>3. /\ send_chunks(p) \in Seq(SentPackets) /\ Len(send_chunks(p)) = 2
      /\ <<r>> \in Seq(SentPackets) /\ <<s>> \in Seq(SentPackets)
  BY <1>1, ChunksAre, Single
<1>4. /\ World(p) \in Seq(SentPackets) /\ Len(World(p)) = 4
      /\ World(p)[1] = r /\ World(p)[2] = send_chunks(p)[1]
      /\ World(p)[3] = send_chunks(p)[2] /\ World(p)[4] = s
  <2> DEFINE x == <<r>> \o send_chunks(p)
  <2>1. x \in Seq(SentPackets) /\ Len(x) = Len(<<r>>) + 2
        /\ (\A n \in 1 .. Len(<<r>>) : x[n] = <<r>>[n])
        /\ (\A n \in 1 .. 2 : x[Len(<<r>>) + n] = send_chunks(p)[n])
    BY <1>3, JoinedIs
  <2>2. Len(<<r>>) = 1 /\ <<r>>[1] = r /\ Len(<<s>>) = 1 /\ <<s>>[1] = s
    OBVIOUS
  <2>3. Len(x) = 3 /\ x[1] = r /\ x[2] = send_chunks(p)[1] /\ x[3] = send_chunks(p)[2]
    BY <2>1, <2>2
  <2>4. World(p) = x \o <<s>>
    BY <1>2
  <2> HIDE DEF x
  <2>5. World(p) \in Seq(SentPackets) /\ Len(World(p)) = Len(x) + Len(<<s>>)
        /\ (\A n \in 1 .. Len(x) : World(p)[n] = x[n])
        /\ (\A n \in 1 .. Len(<<s>>) : World(p)[Len(x) + n] = <<s>>[n])
    BY <1>3, <2>1, <2>4, JoinedIs
  <2>6. QED
    BY <2>2, <2>3, <2>5
<1>5. QED
  BY <1>4, ChunksAre DEF r, s

LEMMA TableKeeps ==
  ASSUME Handled, TypeOK, TableIsSound
  PROVE  players' \in Seq(Player) /\ TableIsSound'
<1>1. players' = players \/ Added \/ (\E k, q : Changed(k, q))
  BY DEF Handled, Quiet, Spawns, Moves, Says
<1>2. QED
  BY <1>1, TableStaysSound DEF TypeOK

LEMMA SaidIs ==
  ASSUME TypeOK, NEW id \in {"text", "player_skin"}, NEW out \in Sents, Says(id, out)
  PROVE  /\ [id |-> id, number |-> said + 1] \in SentPackets
         /\ sent' \in Sents /\ said' \in Nat
         /\ \A a \in Addresses : sent'[a] = IF IsPlaying(a) THEN Append(out[a], [id |-> id, number |-> said + 1])
                                            ELSE out[a]
<1> DEFINE e == [id |-> id, number |-> said + 1]
<1>1. e \in SentPackets /\ said' \in Nat
  BY DEF SentPackets, TypeOK, Says
<1>2. sent' = [a \in Addresses |-> IF IsPlaying(a) THEN Append(out[a], e) ELSE out[a]]
  BY DEF Says
<1> HIDE DEF e
<1>3. \A a \in Addresses : Append(out[a], e) \in Seq(SentPackets)
  BY <1>1, AppendIs DEF Sents
<1>4. sent' \in Sents /\ \A a \in Addresses : sent'[a] = IF IsPlaying(a) THEN Append(out[a], e) ELSE out[a]
  BY <1>2, <1>3 DEF Sents
<1>5. QED
  BY <1>1, <1>4 DEF e

LEMMA SentKeeps ==
  ASSUME Handled, TypeOK
  PROVE  sent' \in Sents /\ said' \in Nat
<1>1. sent \in Sents /\ said \in Nat /\ sender \in Addresses /\ players \in Seq(Player)
  BY DEF TypeOK, Sents
<1>2. ASSUME NEW q \in Seq(QuietPackets) PROVE Tell(sender, q) \in Sents
  BY <1>1, TellIs, QuietIsSent
<1>3. CASE Quiet
  BY <1>1, <1>2, <1>3 DEF Quiet
<1>4. ASSUME NEW k, NEW q, Spawns(k, q) PROVE sent' \in Sents /\ said' \in Nat
  <2>1. q \in Player /\ sent' = Tell(sender, World(q)) /\ said' = said
    BY <1>4 DEF Spawns, Changed
  <2>2. QED
    BY <1>1, <2>1, WorldIs, TellIs
<1>5. ASSUME NEW k, NEW q, Moves(k, q) PROVE sent' \in Sents /\ said' \in Nat
  <2>1. players[k] \in Player /\ said' = said /\ (sent' = sent \/ sent' = Tell(sender, send_chunks(players[k])))
    BY <1>1, <1>5 DEF Moves, Changed
  <2>2. QED
    BY <1>1, <2>1, ChunksAre, TellIs
<1>6. ASSUME NEW id \in {"text", "player_skin"}, NEW out \in Sents, Says(id, out)
      PROVE  sent' \in Sents /\ said' \in Nat
  BY <1>6, SaidIs
<1>7. QED
  BY <1>3, <1>4, <1>5, <1>6 DEF Handled, Sents

LEMMA HandlersKeepTable ==
  ASSUME TypeOK, TableIsSound, on_f
  PROVE  TypeOK' /\ TableIsSound'
<1>1. Handled
  BY HandlersDo
<1>2. batch' \in Seq(Packets) /\ sender' \in Addresses
  BY BatchShrinks DEF TypeOK
<1>3. QED
  BY <1>1, <1>2, TableKeeps, SentKeeps DEF TypeOK, Sents

LEMMA LeavingRemoves ==
  ASSUME NEW a, remove_minecraft_player(a), TypeOK
  PROVE  \/ players' = players /\ ~has_minecraft_player_address(a)
         \/ \E gone : Removed(gone) /\ players[gone].address = a
<1>1. CASE has_minecraft_player_address(a)
  <2>1. get_minecraft_player_address(a) \in DOMAIN players
        /\ players[get_minecraft_player_address(a)].address = a
    BY <1>1, Zenon DEF has_minecraft_player_address, get_minecraft_player_address
  <2>2. Removed(get_minecraft_player_address(a))
    BY <1>1, <2>1 DEF remove_minecraft_player, Removed
  <2>3. QED
    BY <2>1, <2>2
<1>2. CASE ~has_minecraft_player_address(a)
  BY <1>2 DEF remove_minecraft_player
<1>3. QED
  BY <1>1, <1>2

LEMMA LeavingKeepsTable ==
  ASSUME NEW a, remove_minecraft_player(a), TypeOK, TableIsSound
  PROVE  players' \in Seq(Player) /\ TableIsSound'
BY LeavingRemoves, TableStaysSound DEF TypeOK

LEMMA TableStarts == Init => TypeOK /\ TableIsSound
<1> SUFFICES ASSUME Init PROVE TypeOK /\ TableIsSound
  OBVIOUS
<1>1. players \in Seq(Player) /\ TableIsSound
  BY DEF Init, TableIsSound
<1>2. batch \in Seq(Packets) /\ sender \in Addresses /\ said \in Nat
  BY DEF Init
<1>3. <<>> \in Seq(SentPackets)
  OBVIOUS
<1>4. sent \in [Addresses -> Seq(SentPackets)]
  BY <1>3 DEF Init
<1>5. QED
  BY <1>1, <1>2, <1>4 DEF TypeOK

LEMMA TableSteps == TypeOK /\ TableIsSound /\ [Next]_vars => TypeOK' /\ TableIsSound'
<1> SUFFICES ASSUME TypeOK, TableIsSound, [Next]_vars PROVE TypeOK' /\ TableIsSound'
  OBVIOUS
<1>1. CASE on_f
  BY <1>1, HandlersKeepTable
<1>2. ASSUME NEW a \in Addresses, on_dn(a) PROVE TypeOK' /\ TableIsSound'
  <2>1. players' \in Seq(Player) /\ TableIsSound'
    BY <1>2, LeavingKeepsTable DEF on_dn
  <2>2. <<>> \in Seq(SentPackets)
    OBVIOUS
  <2>3. sent' \in [Addresses -> Seq(SentPackets)]
    BY <1>2, <2>2 DEF on_dn, TypeOK
  <2>4. QED
    BY <1>2, <2>1, <2>3 DEF on_dn, TypeOK
<1>3. ASSUME NEW a \in Addresses, NEW packets \in Batches, Receive(a, packets) PROVE TypeOK' /\ TableIsSound'
  <2>1. batch' \in Seq(Packets) /\ sender' \in Addresses
    BY <1>3, BatchesHoldPackets DEF Receive
  <2>2. QED
    BY <1>3, <2>1 DEF Receive, TypeOK, TableIsSound
<1>4. CASE UNCHANGED vars
  BY <1>4 DEF vars, TypeOK, TableIsSound
<1>5. QED
  BY <1>1, <1>2, <1>3, <1>4 DEF Next

\* Nobody is twice in the table and no entity has two players, whatever batches come, from
\* however many clients (add_minecraft_player, remove_minecraft_player, the loops of ids).
THEOREM TableStays == Spec => [](TypeOK /\ TableIsSound)
BY TableStarts, TableSteps, PTL DEF Spec
-------------------------------------------------------------------------------
(* The order of what a client is sent. *)

IsRadius(e) == Has(e, "chunk_radius_updated")
IsChunks(e) == Has(e, "chunks")

\* What was sent to a client, in its order, agrees with whether it is playing.
Told(out, playing) ==
  IF playing
  THEN \E r, c, s \in DOMAIN out :
         /\ r < c /\ c < s
         /\ IsRadius(out[r]) /\ IsChunks(out[c]) /\ IsSpawn(out[s])
         /\ \A n \in DOMAIN out : /\ IsRadius(out[n]) => n = r
                                  /\ IsChunks(out[n]) => r < n
                                  /\ IsSpawn(out[n]) => n = s
                                  /\ IsBroadcast(out[n]) => s < n
  ELSE \A n \in DOMAIN out : ~IsRadius(out[n]) /\ ~IsChunks(out[n]) /\ ~IsSpawn(out[n]) /\ ~IsBroadcast(out[n])

AllTold == \A a \in Addresses : Told(sent[a], IsPlaying(a))

LEMMA JoinedAt ==
  ASSUME NEW S, NEW s \in Seq(S), NEW t \in Seq(S)
  PROVE  /\ \A n \in DOMAIN s : n \in DOMAIN (s \o t) /\ (s \o t)[n] = s[n] /\ n <= Len(s) /\ n \in Nat
         /\ \A m \in DOMAIN t : Len(s) + m \in DOMAIN (s \o t) /\ (s \o t)[Len(s) + m] = t[m]
         /\ \A n \in DOMAIN (s \o t) :
              n \in DOMAIN s \/ \E m \in DOMAIN t : m \in Nat /\ m > 0 /\ n = Len(s) + m /\ (s \o t)[n] = t[m]
         /\ Len(s) \in Nat
<1>1. /\ Len(s) \in Nat /\ Len(t) \in Nat /\ DOMAIN s = 1 .. Len(s) /\ DOMAIN t = 1 .. Len(t)
      /\ DOMAIN (s \o t) = 1 .. Len(s) + Len(t)
  BY JoinedIs
<1>2. \A n \in 1 .. Len(s) + Len(t) : n \in 1 .. Len(s) \/ \E m \in 1 .. Len(t) : n = Len(s) + m
  <2> SUFFICES ASSUME NEW n \in 1 .. Len(s) + Len(t), n \notin 1 .. Len(s)
               PROVE  \E m \in 1 .. Len(t) : n = Len(s) + m
    OBVIOUS
  <2>1. n - Len(s) \in 1 .. Len(t) /\ n = Len(s) + (n - Len(s))
    BY <1>1
  <2>2. QED
    BY <2>1
<1>3. /\ \A n \in 1 .. Len(s) : (s \o t)[n] = s[n]
      /\ \A m \in 1 .. Len(t) : (s \o t)[Len(s) + m] = t[m]
  BY JoinedIs
<1> DEFINE new == s \o t
<1> HIDE DEF new
<1>4. \A n \in DOMAIN s : n \in DOMAIN new /\ new[n] = s[n] /\ n <= Len(s) /\ n \in Nat
  BY <1>1, <1>3 DEF new
<1>5. \A m \in DOMAIN t : Len(s) + m \in DOMAIN new /\ new[Len(s) + m] = t[m]
  BY <1>1, <1>3 DEF new
<1>6. \A n \in DOMAIN new :
        n \in DOMAIN s \/ \E m \in DOMAIN t : m \in Nat /\ m > 0 /\ n = Len(s) + m /\ new[n] = t[m]
  <2> SUFFICES ASSUME NEW n \in DOMAIN new, n \notin DOMAIN s
               PROVE  \E m \in DOMAIN t : m \in Nat /\ m > 0 /\ n = Len(s) + m /\ new[n] = t[m]
    OBVIOUS
  <2>1. PICK m \in 1 .. Len(t) : n = Len(s) + m
    BY <1>1, <1>2 DEF new
  <2>2. m \in DOMAIN t /\ m \in Nat /\ m > 0
    BY <1>1, <2>1
  <2>3. QED
    BY <1>5, <2>1, <2>2
<1>7. QED
  BY <1>1, <1>4, <1>5, <1>6 DEF new

\* What is sent besides the spawn: chunks and broadcasts only to a client that is playing.
Later(e, playing) == ~IsRadius(e) /\ ~IsSpawn(e) /\ (IsChunks(e) \/ IsBroadcast(e) => playing)

LEMMA ToldStays ==
  ASSUME NEW out \in Seq(SentPackets), NEW q \in Seq(SentPackets), NEW playing \in BOOLEAN,
         Told(out, playing), \A m \in DOMAIN q : Later(q[m], playing)
  PROVE  Told(out \o q, playing)
<1> DEFINE new == out \o q
<1>1. /\ \A n \in DOMAIN out : n \in DOMAIN new /\ new[n] = out[n] /\ n <= Len(out) /\ n \in Nat
      /\ \A n \in DOMAIN new : n \in DOMAIN out \/ \E m \in DOMAIN q : m \in Nat /\ m > 0 /\ n = Len(out) + m /\ new[n] = q[m]
      /\ Len(out) \in Nat
  BY JoinedAt
<1> HIDE DEF new
<1>2. CASE playing
  <2>1. PICK r, c, s \in DOMAIN out :
         /\ r < c /\ c < s
         /\ IsRadius(out[r]) /\ IsChunks(out[c]) /\ IsSpawn(out[s])
         /\ \A n \in DOMAIN out : /\ IsRadius(out[n]) => n = r
                                  /\ IsChunks(out[n]) => r < n
                                  /\ IsSpawn(out[n]) => n = s
                                  /\ IsBroadcast(out[n]) => s < n
    BY <1>2 DEF Told
  <2>2. r \in DOMAIN new /\ c \in DOMAIN new /\ s \in DOMAIN new
        /\ IsRadius(new[r]) /\ IsChunks(new[c]) /\ IsSpawn(new[s])
    BY <1>1, <2>1
  <2>3. ASSUME NEW n \in DOMAIN new
        PROVE  /\ IsRadius(new[n]) => n = r
               /\ IsChunks(new[n]) => r < n
               /\ IsSpawn(new[n]) => n = s
               /\ IsBroadcast(new[n]) => s < n
    <3>1. CASE n \in DOMAIN out
      BY <1>1, <2>1, <3>1
    <3>2. ASSUME NEW m \in DOMAIN q, m \in Nat, m > 0, n = Len(out) + m, new[n] = q[m]
          PROVE  ~IsRadius(new[n]) /\ ~IsSpawn(new[n]) /\ r < n /\ s < n
      <4>1. ~IsRadius(new[n]) /\ ~IsSpawn(new[n])
        BY <3>2 DEF Later
      <4>2. r <= Len(out) /\ r \in Nat /\ s <= Len(out) /\ s \in Nat
        BY <1>1
      <4>3. r < n /\ s < n
        BY <1>1, <3>2, <4>2
      <4>4. QED
        BY <4>1, <4>3
    <3>3. QED
      BY <1>1, <3>1, <3>2
  <2>4. \E i, j, k \in DOMAIN new :
         /\ i < j /\ j < k
         /\ IsRadius(new[i]) /\ IsChunks(new[j]) /\ IsSpawn(new[k])
         /\ \A n \in DOMAIN new : /\ IsRadius(new[n]) => n = i
                                  /\ IsChunks(new[n]) => i < n
                                  /\ IsSpawn(new[n]) => n = k
                                  /\ IsBroadcast(new[n]) => k < n
    <3> r \in DOMAIN new /\ c \in DOMAIN new /\ s \in DOMAIN new
      BY <2>2
    <3> WITNESS r \in DOMAIN new, c \in DOMAIN new, s \in DOMAIN new
    <3>1. QED
      BY <2>1, <2>2, <2>3
  <2>5. QED
    BY <1>2, <2>4 DEF Told, new
<1>3. CASE ~playing
  <2>1. ASSUME NEW n \in DOMAIN new
        PROVE  ~IsRadius(new[n]) /\ ~IsChunks(new[n]) /\ ~IsSpawn(new[n]) /\ ~IsBroadcast(new[n])
    <3>1. CASE n \in DOMAIN out
      BY <1>1, <1>3, <3>1 DEF Told
    <3>2. CASE \E m \in DOMAIN q : new[n] = q[m]
      BY <1>3, <3>2 DEF Later
    <3>3. QED
      BY <1>1, <3>1, <3>2
  <2>2. QED
    BY <1>3, <2>1 DEF Told, new
<1>4. QED
  BY <1>2, <1>3

\* No packet of the spawn is taken for another.
LEMMA WorldReads ==
  ASSUME NEW p \in Player
  PROVE  /\ DOMAIN World(p) = 1 .. 4
         /\ IsRadius(World(p)[1]) /\ IsChunks(World(p)[2]) /\ IsSpawn(World(p)[4])
         /\ \A n \in 1 .. 4 : /\ IsRadius(World(p)[n]) => n = 1
                              /\ IsChunks(World(p)[n]) => n = 2
                              /\ IsSpawn(World(p)[n]) => n = 4
                              /\ ~IsBroadcast(World(p)[n])
<1>1. DOMAIN World(p) = 1 .. 4
  <2>1. World(p) \in Seq(SentPackets) /\ Len(World(p)) = 4
    BY WorldIs
  <2>2. QED
    BY <2>1
<1>2. /\ World(p)[1].id = "chunk_radius_updated" /\ World(p)[2].id = "chunks"
      /\ World(p)[3].id = "network_chunk_publisher_update"
      /\ World(p)[4].id = "play_status" /\ World(p)[4].status = "player_spawn"
  <2>1. World(p)[1].id = "chunk_radius_updated"
    <3>1. \A v : [id |-> "chunk_radius_updated", radius |-> v].id = "chunk_radius_updated"
      OBVIOUS
    <3>2. QED
      BY <3>1, WorldIs, Zenon
  <2>2. World(p)[2].id = "chunks"
    <3>1. World(p)[2] = [id |-> "chunks", centre |-> ChunkOf(p.position), radius |-> p.view_distance]
      BY WorldIs, Zenon
    <3>2. QED
      BY <3>1
  <2>3. World(p)[3].id = "network_chunk_publisher_update"
    BY WorldIs
  <2>4. World(p)[4].id = "play_status" /\ World(p)[4].status = "player_spawn"
    <3>1. World(p)[4] = [id |-> "play_status", status |-> "player_spawn"]
      BY WorldIs, Zenon
    <3>2. QED
      BY <3>1
  <2>5. QED
    BY <2>1, <2>2, <2>3, <2>4
<1>3. \A n \in 1 .. 4 : n = 1 \/ n = 2 \/ n = 3 \/ n = 4
  OBVIOUS
<1> DEFINE w(n) == World(p)[n]
<1>4. /\ w(1).id = "chunk_radius_updated" /\ w(2).id = "chunks"
      /\ w(3).id = "network_chunk_publisher_update"
      /\ w(4).id = "play_status" /\ w(4).status = "player_spawn"
  BY <1>2
<1> HIDE DEF w
<1>5. /\ IsRadius(w(1)) /\ IsChunks(w(2)) /\ IsSpawn(w(4))
      /\ \A n \in 1 .. 4 : /\ IsRadius(w(n)) => n = 1
                           /\ IsChunks(w(n)) => n = 2
                           /\ IsSpawn(w(n)) => n = 4
                           /\ ~IsBroadcast(w(n))
  BY <1>3, <1>4 DEF IsRadius, IsChunks, IsSpawn, IsBroadcast, Has
<1>6. QED
  BY <1>1, <1>5 DEF w

LEMMA ToldSpawn ==
  ASSUME NEW out \in Seq(SentPackets), Told(out, FALSE), NEW p \in Player
  PROVE  Told(out \o World(p), TRUE)
<1> DEFINE new == out \o World(p)
<1>1. /\ \A n \in DOMAIN out : n \in DOMAIN new /\ new[n] = out[n] /\ n <= Len(out) /\ n \in Nat
      /\ \A m \in DOMAIN World(p) : Len(out) + m \in DOMAIN new /\ new[Len(out) + m] = World(p)[m]
      /\ \A n \in DOMAIN new :
           n \in DOMAIN out \/ \E m \in DOMAIN World(p) : m \in Nat /\ m > 0 /\ n = Len(out) + m /\ new[n] = World(p)[m]
      /\ Len(out) \in Nat
  BY WorldIs, JoinedAt
<1> HIDE DEF new
<1> DEFINE r == Len(out) + 1
           c == Len(out) + 2
           s == Len(out) + 4
<1>2. /\ r \in DOMAIN new /\ c \in DOMAIN new /\ s \in DOMAIN new
      /\ IsRadius(new[r]) /\ IsChunks(new[c]) /\ IsSpawn(new[s])
  <2>1. 1 \in DOMAIN World(p) /\ 2 \in DOMAIN World(p) /\ 4 \in DOMAIN World(p)
    BY WorldReads
  <2>2. QED
    BY <1>1, <2>1, WorldReads
<1>3. r < c /\ c < s
  BY <1>1
<1>4. ASSUME NEW n \in DOMAIN new
      PROVE  /\ IsRadius(new[n]) => n = r
             /\ IsChunks(new[n]) => r < n
             /\ IsSpawn(new[n]) => n = s
             /\ ~IsBroadcast(new[n])
  <2>1. CASE n \in DOMAIN out
    BY <1>1, <2>1 DEF Told
  <2>2. ASSUME NEW m \in DOMAIN World(p), n = Len(out) + m, new[n] = World(p)[m]
        PROVE  /\ IsRadius(new[n]) => n = r
               /\ IsChunks(new[n]) => n = c
               /\ IsSpawn(new[n]) => n = s
               /\ ~IsBroadcast(new[n])
    BY <2>2, WorldReads
  <2>3. QED
    BY <1>1, <1>3, <2>1, <2>2
<1> HIDE DEF r, c, s
<1>5. QED
  BY <1>2, <1>3, <1>4 DEF Told, new

LEMMA PlayingKeeps ==
  ASSUME TypeOK,
         players' = players \/ Added \/ \E k, q : Changed(k, q) /\ q.spawned = players[k].spawned,
         NEW a
  PROVE  IsPlaying(a)' <=> IsPlaying(a)
<1>1. players \in Seq(Player)
  BY DEF TypeOK
<1>2. CASE players' = players
  BY <1>2 DEF IsPlaying
<1>3. CASE Added
  <2>1. PICK p \in Player : ~p.spawned /\ players' = Append(players, p)
    BY <1>3 DEF Added
  <2>2. /\ DOMAIN players' = DOMAIN players \cup {Len(players) + 1}
        /\ \A k \in DOMAIN players : players'[k] = players[k]
        /\ players'[Len(players) + 1] = p
    BY <1>1, <2>1, AppendIs
  <2>3. QED
    BY <2>1, <2>2 DEF IsPlaying
<1>4. ASSUME NEW k, NEW q, Changed(k, q), q.spawned = players[k].spawned
      PROVE  IsPlaying(a)' <=> IsPlaying(a)
  <2>1. /\ DOMAIN players' = DOMAIN players
        /\ \A j \in DOMAIN players : players'[j] = IF j = k THEN q ELSE players[j]
    BY <1>1, <1>4, ChangedIs DEF Changed
  <2>2. \A j \in DOMAIN players : /\ players'[j].address = players[j].address
                                  /\ players'[j].spawned = players[j].spawned
    BY <1>4, <2>1 DEF Changed
  <2>3. QED
    BY <2>1, <2>2 DEF IsPlaying
<1>5. QED
  BY <1>2, <1>3, <1>4

LEMMA PlayingStarts ==
  ASSUME TypeOK, TableIsSound, NEW k, NEW q, Spawns(k, q)
  PROVE  /\ ~IsPlaying(sender) /\ (\A a : a = sender => IsPlaying(a)')
         /\ \A a : a # sender => (IsPlaying(a)' <=> IsPlaying(a))
<1>1. players \in Seq(Player) /\ Changed(k, q) /\ k \in DOMAIN players /\ players[k].address = sender
      /\ ~players[k].spawned /\ q.spawned /\ q.address = sender
  BY DEF TypeOK, Spawns, Changed
<1>2. /\ DOMAIN players' = DOMAIN players
      /\ \A j \in DOMAIN players : players'[j] = IF j = k THEN q ELSE players[j]
  BY <1>1, ChangedIs DEF Changed
<1>3. ~IsPlaying(sender)
  BY <1>1 DEF TableIsSound, IsPlaying
<1>4. ASSUME NEW a, a = sender PROVE IsPlaying(a)'
  <2>1. \E j \in DOMAIN players' : players'[j].address = q.address /\ players'[j].spawned
    BY <1>1, <1>2
  <2>2. QED
    BY <1>1, <1>4, <2>1 DEF IsPlaying
<1>5. ASSUME NEW a, a # sender PROVE IsPlaying(a)' <=> IsPlaying(a)
  BY <1>1, <1>2, <1>5 DEF IsPlaying
<1>6. QED
  BY <1>3, <1>4, <1>5

LEMMA PlayingEnds ==
  ASSUME TypeOK, TableIsSound, NEW a, remove_minecraft_player(a)
  PROVE  /\ ~IsPlaying(a)'
         /\ \A b : b # a => (IsPlaying(b)' <=> IsPlaying(b))
<1>1. CASE players' = players /\ ~has_minecraft_player_address(a)
  BY <1>1 DEF IsPlaying, has_minecraft_player_address
<1>2. ASSUME NEW gone, Removed(gone), players[gone].address = a
      PROVE  ~IsPlaying(a)' /\ \A b : b # a => (IsPlaying(b)' <=> IsPlaying(b))
  <2>1. /\ \A j \in DOMAIN players' : \E k \in DOMAIN players \ {gone} : players'[j] = players[k]
        /\ \A k \in DOMAIN players \ {gone} : \E j \in DOMAIN players' : players'[j] = players[k]
        /\ gone \in DOMAIN players
    BY <1>2, RemovedIs DEF TypeOK, Removed
  <2>2. \A k \in DOMAIN players \ {gone} : players[k].address # a
    BY <1>2, <2>1 DEF TableIsSound
  <2>3. ~IsPlaying(a)'
    BY <2>1, <2>2 DEF IsPlaying
  <2>4. ASSUME NEW b, b # a PROVE IsPlaying(b)' <=> IsPlaying(b)
    BY <1>2, <2>1, <2>4 DEF IsPlaying
  <2>5. QED
    BY <2>3, <2>4
<1>3. QED
  BY <1>1, <1>2, LeavingRemoves

LEMMA QuietIsLater ==
  ASSUME NEW q \in Seq(QuietPackets), NEW playing \in BOOLEAN
  PROVE  \A m \in DOMAIN q : Later(q[m], playing) /\ ~IsChunks(q[m])
BY DEF QuietPackets, Later, IsRadius, IsChunks

LEMMA QuietTold ==
  ASSUME TypeOK, AllTold, NEW out,
         out = sent \/ \E q \in Seq(QuietPackets) : out = Tell(sender, q)
  PROVE  out \in Sents /\ \A a \in Addresses : Told(out[a], IsPlaying(a))
<1>1. sent \in Sents /\ sender \in Addresses
  BY DEF TypeOK, Sents
<1>2. CASE out = sent
  BY <1>1, <1>2 DEF AllTold
<1>3. ASSUME NEW q \in Seq(QuietPackets), out = Tell(sender, q)
      PROVE  out \in Sents /\ \A a \in Addresses : Told(out[a], IsPlaying(a))
  <2>1. /\ out \in Sents /\ q \in Seq(SentPackets)
        /\ out[sender] = sent[sender] \o q
        /\ \A b \in Addresses : b # sender => out[b] = sent[b]
    BY <1>1, <1>3, TellIs, QuietIsSent
  <2>2. IsPlaying(sender) \in BOOLEAN
    BY DEF IsPlaying
  <2>3. \A m \in DOMAIN q : Later(q[m], IsPlaying(sender))
    BY <2>2, QuietIsLater
  <2>4. Told(sent[sender], IsPlaying(sender)) /\ sent[sender] \in Seq(SentPackets)
    BY <1>1 DEF AllTold, Sents
  <2>5. Told(sent[sender] \o q, IsPlaying(sender))
    BY <2>1, <2>2, <2>3, <2>4, ToldStays
  <2>6. QED
    BY <2>1, <2>5 DEF AllTold
<1>4. QED
  BY <1>2, <1>3

LEMMA ToldQuiet ==
  ASSUME TypeOK, AllTold, Quiet
  PROVE  AllTold'
<1>1. \A a \in Addresses : Told(sent'[a], IsPlaying(a))
  BY QuietTold DEF Quiet
<1>2. ASSUME NEW a \in Addresses PROVE Told(sent[a], IsPlaying(a))'
  <2>1. IsPlaying(a)' <=> IsPlaying(a)
    BY PlayingKeeps DEF Quiet
  <2>2. QED
    BY <1>1, <2>1 DEF Told
<1>3. QED
  BY <1>2 DEF AllTold

LEMMA ToldSpawns ==
  ASSUME TypeOK, TableIsSound, AllTold, NEW k, NEW q, Spawns(k, q)
  PROVE  AllTold'
<1>1. /\ sent \in Sents /\ sender \in Addresses /\ q \in Player
      /\ sent' = Tell(sender, World(q)) /\ World(q) \in Seq(SentPackets)
  BY WorldIs DEF TypeOK, Sents, Spawns, Changed
<1>2. /\ sent'[sender] = sent[sender] \o World(q)
      /\ \A b \in Addresses : b # sender => sent'[b] = sent[b]
  BY <1>1, TellIs
<1>3. /\ ~IsPlaying(sender) /\ (\A a : a = sender => IsPlaying(a)')
      /\ \A a : a # sender => (IsPlaying(a)' <=> IsPlaying(a))
  BY PlayingStarts
<1>4. Told(sent'[sender], TRUE)
  <2>1. Told(sent[sender], FALSE) /\ sent[sender] \in Seq(SentPackets)
    BY <1>1, <1>3 DEF AllTold, Told, Sents
  <2>2. QED
    BY <1>1, <1>2, <2>1, ToldSpawn
<1>5. ASSUME NEW a \in Addresses PROVE Told(sent'[a], IsPlaying(a)')
  <2>1. CASE a = sender
    <3>1. IsPlaying(a)'
      BY <1>3, <2>1
    <3>2. QED
      BY <1>4, <2>1, <3>1 DEF Told
  <2>2. CASE a # sender
    <3>1. sent'[a] = sent[a] /\ (IsPlaying(a)' <=> IsPlaying(a))
      BY <1>2, <1>3, <2>2
    <3>2. Told(sent[a], IsPlaying(a))
      BY DEF AllTold
    <3>3. QED
      BY <3>1, <3>2 DEF Told
  <2>3. QED
    BY <2>1, <2>2
<1>6. QED
  BY <1>5 DEF AllTold

LEMMA ToldMoves ==
  ASSUME TypeOK, AllTold, NEW k, NEW q, Moves(k, q)
  PROVE  AllTold'
<1>1. /\ sent \in Sents /\ sender \in Addresses /\ players \in Seq(Player)
      /\ k \in DOMAIN players /\ players[k] \in Player /\ players[k].address = sender
      /\ Changed(k, q) /\ q.spawned = players[k].spawned
  BY DEF TypeOK, Sents, Moves, Changed
<1>2. \A a \in Addresses : IsPlaying(a)' <=> IsPlaying(a)
  BY <1>1, PlayingKeeps
<1>3. ASSUME NEW a \in Addresses PROVE Told(sent'[a], IsPlaying(a))
  <2>1. CASE sent' = sent
    BY <2>1 DEF AllTold
  <2>2. CASE q.spawned /\ sent' = Tell(sender, send_chunks(players[k]))
    <3>1. /\ send_chunks(players[k]) \in Seq(SentPackets)
          /\ sent'[sender] = sent[sender] \o send_chunks(players[k])
          /\ \A b \in Addresses : b # sender => sent'[b] = sent[b]
      BY <1>1, <2>2, ChunksAre, TellIs
    <3>2. IsPlaying(sender)
      BY <1>1, <2>2 DEF IsPlaying
    <3>3. \A m \in DOMAIN send_chunks(players[k]) : Later(send_chunks(players[k])[m], TRUE)
      <4> DEFINE c == send_chunks(players[k])
      <4>1. c[2].id = "network_chunk_publisher_update" /\ DOMAIN c = 1 .. 2
        <5>1. Len(c) = 2 /\ c[2].id = "network_chunk_publisher_update"
          BY <1>1, ChunksAre, Zenon
        <5>2. c \in Seq(SentPackets)
          BY <3>1
        <5> HIDE DEF c
        <5>3. QED
          BY <5>1, <5>2
      <4>2. c[1].id = "chunks"
        <5>1. c[1] = [id |-> "chunks", centre |-> ChunkOf(players[k].position), radius |-> players[k].view_distance]
          BY <1>1, ChunksAre, Zenon
        <5>2. QED
          BY <5>1
      <4> HIDE DEF c
      <4>3. \A m \in 1 .. 2 : m = 1 \/ m = 2
        OBVIOUS
      <4>4. \A m \in DOMAIN c : Later(c[m], TRUE)
        BY <4>1, <4>2, <4>3 DEF Later, IsRadius, IsSpawn, Has
      <4>5. QED
        BY <4>4 DEF c
    <3>4. Told(sent[sender], TRUE) /\ sent[sender] \in Seq(SentPackets)
      BY <1>1, <3>2 DEF AllTold, Told, Sents
    <3>5. Told(sent[sender] \o send_chunks(players[k]), TRUE)
      BY <3>1, <3>3, <3>4, ToldStays
    <3>6. CASE a = sender
      BY <3>1, <3>2, <3>5, <3>6 DEF Told
    <3>7. CASE a # sender
      BY <3>1, <3>7 DEF AllTold
    <3>8. QED
      BY <3>6, <3>7
  <2>3. QED
    BY <2>1, <2>2 DEF Moves
<1>4. ASSUME NEW a \in Addresses PROVE Told(sent[a], IsPlaying(a))'
  BY <1>2, <1>3 DEF Told
<1>5. QED
  BY <1>4 DEF AllTold

LEMMA ToldSays ==
  ASSUME TypeOK, AllTold, NEW id \in {"text", "player_skin"}, NEW out \in Sents, Says(id, out),
         \A a \in Addresses : Told(out[a], IsPlaying(a))
  PROVE  AllTold'
<1> DEFINE e == [id |-> id, number |-> said + 1]
<1>1. /\ e \in SentPackets
      /\ \A a \in Addresses : sent'[a] = IF IsPlaying(a) THEN Append(out[a], e) ELSE out[a]
  BY SaidIs
<1>2. Later(e, TRUE)
  BY DEF Later, IsRadius, IsChunks, IsSpawn, Has
<1> HIDE DEF e
<1>3. ASSUME NEW a \in Addresses PROVE Told(sent'[a], IsPlaying(a))
  <2>1. CASE ~IsPlaying(a)
    BY <1>1, <2>1
  <2>2. CASE IsPlaying(a)
    <3>1. /\ out[a] \in Seq(SentPackets) /\ <<e>> \in Seq(SentPackets) /\ Told(out[a], TRUE)
      BY <1>1, <2>2, Single DEF Sents, Told
    <3>2. \A m \in DOMAIN <<e>> : Later(<<e>>[m], TRUE)
      <4>1. \A m \in DOMAIN <<e>> : <<e>>[m] = e
        OBVIOUS
      <4>2. QED
        BY <1>2, <4>1, Zenon
    <3>3. Told(out[a] \o <<e>>, TRUE)
      BY <3>1, <3>2, ToldStays
    <3>4. out[a] \o <<e>> = Append(out[a], e)
      BY <1>1, <3>1
    <3>5. sent'[a] = out[a] \o <<e>>
      BY <1>1, <2>2, <3>4
    <3>6. QED
      BY <2>2, <3>3, <3>5, ZenonT(60) DEF Told
  <2>3. QED
    BY <2>1, <2>2
<1>4. ASSUME NEW a \in Addresses PROVE Told(sent[a], IsPlaying(a))'
  <2>1. IsPlaying(a)' <=> IsPlaying(a)
    BY PlayingKeeps DEF Says
  <2>2. QED
    BY <1>3, <2>1 DEF Told
<1>5. QED
  BY <1>4 DEF AllTold

LEMMA HandlersTell == ASSUME TypeOK, TableIsSound, AllTold, on_f PROVE AllTold'
<1>1. ASSUME NEW id \in {"text", "player_skin"}, NEW out \in Sents,
             out = sent \/ \E q \in Seq(QuietPackets) : out = Tell(sender, q),
             Says(id, out)
      PROVE  AllTold'
  BY <1>1, QuietTold, ToldSays
<1>2. QED
  BY <1>1, HandlersDo, ToldQuiet, ToldSpawns, ToldMoves DEF Handled, Sents

LEMMA ToldStarts == Init => AllTold
<1> SUFFICES ASSUME Init, NEW a \in Addresses PROVE Told(sent[a], IsPlaying(a))
  BY DEF AllTold
<1>1. sent[a] = <<>> /\ ~IsPlaying(a)
  BY DEF Init, IsPlaying
<1>2. QED
  BY <1>1 DEF Told

LEMMA ToldSteps == TypeOK /\ TableIsSound /\ AllTold /\ [Next]_vars => AllTold'
<1> SUFFICES ASSUME TypeOK, TableIsSound, AllTold, [Next]_vars PROVE AllTold'
  OBVIOUS
<1>1. CASE on_f
  BY <1>1, HandlersTell
<1>2. ASSUME NEW a \in Addresses, on_dn(a) PROVE AllTold'
  <2>1. ~IsPlaying(a)' /\ \A b : b # a => (IsPlaying(b)' <=> IsPlaying(b))
    BY <1>2, PlayingEnds DEF on_dn
  <2>2. sent'[a] = <<>> /\ \A b \in Addresses : b # a => sent'[b] = sent[b]
    BY <1>2 DEF on_dn, TypeOK
  <2>3. ASSUME NEW b \in Addresses PROVE Told(sent[b], IsPlaying(b))'
    <3>1. CASE b = a
      BY <2>1, <2>2, <3>1 DEF Told
    <3>2. CASE b # a
      <4>1. sent'[b] = sent[b] /\ (IsPlaying(b)' <=> IsPlaying(b)) /\ Told(sent[b], IsPlaying(b))
        BY <2>1, <2>2, <3>2 DEF AllTold
      <4>2. QED
        BY <4>1 DEF Told
    <3>3. QED
      BY <3>1, <3>2
  <2>4. QED
    BY <2>3 DEF AllTold
<1>3. ASSUME NEW a \in Addresses, NEW packets \in Batches, Receive(a, packets) PROVE AllTold'
  BY <1>3 DEF Receive, AllTold, IsPlaying
<1>4. CASE UNCHANGED vars
  BY <1>4 DEF vars, AllTold, IsPlaying
<1>5. QED
  BY <1>1, <1>2, <1>3, <1>4 DEF Next

LEMMA ToldIsOrder == TypeOK /\ AllTold => WorldComesFirst
<1> SUFFICES ASSUME TypeOK, AllTold, NEW a \in Addresses
             PROVE  LET out == sent[a]
                        spawns == {n \in DOMAIN out : IsSpawn(out[n])}
                    IN /\ Cardinality(spawns) = (IF IsPlaying(a) THEN 1 ELSE 0)
                       /\ \A n \in spawns : \E j, k \in 1 .. n - 1 :
                            j < k /\ Has(out[j], "chunk_radius_updated") /\ Has(out[k], "chunks")
                       /\ \A n \in DOMAIN out : IsBroadcast(out[n]) => \E k \in spawns : k < n
                       /\ \A n \in DOMAIN out : Has(out[n], "chunks") =>
                            \E k \in 1 .. n - 1 : Has(out[k], "chunk_radius_updated")
                       /\ Cardinality({n \in DOMAIN out : Has(out[n], "chunk_radius_updated")}) <= 1
  BY Zenon DEF WorldComesFirst
<1> DEFINE out == sent[a]
           spawns == {n \in DOMAIN out : IsSpawn(out[n])}
           radii == {n \in DOMAIN out : IsRadius(out[n])}
<1>1. out \in Seq(SentPackets) /\ Told(out, IsPlaying(a)) /\ DOMAIN out = 1 .. Len(out) /\ Len(out) \in Nat
  BY DEF TypeOK, AllTold
<1>2. Cardinality({}) = 0 /\ \A n : Cardinality({n}) = 1
  BY FS_EmptySet, FS_Singleton
<1> HIDE DEF out
<1>3. CASE IsPlaying(a)
  <2>1. PICK r, c, s \in DOMAIN out :
         /\ r < c /\ c < s
         /\ IsRadius(out[r]) /\ IsChunks(out[c]) /\ IsSpawn(out[s])
         /\ \A n \in DOMAIN out : /\ IsRadius(out[n]) => n = r
                                  /\ IsChunks(out[n]) => r < n
                                  /\ IsSpawn(out[n]) => n = s
                                  /\ IsBroadcast(out[n]) => s < n
    BY <1>1, <1>3 DEF Told
  <2>2. spawns = {s} /\ radii = {r}
    BY <2>1
  <2>3. r \in 1 .. s - 1 /\ c \in 1 .. s - 1
    BY <1>1, <2>1
  <2>4. \A n \in DOMAIN out : IsChunks(out[n]) => r \in 1 .. n - 1
    BY <1>1, <2>1
  <2>5. Cardinality(spawns) = 1 /\ Cardinality(radii) <= 1
    <3>1. Cardinality(spawns) = 1 /\ Cardinality(radii) = 1
      BY <1>2, <2>2, Zenon
    <3>2. QED
      BY <3>1
  <2>6. \A n \in spawns : \E j, k \in 1 .. n - 1 : j < k /\ IsRadius(out[j]) /\ IsChunks(out[k])
    BY <2>1, <2>2, <2>3
  <2>7. \A n \in DOMAIN out : IsBroadcast(out[n]) => \E k \in spawns : k < n
    BY <2>1, <2>2
  <2>8. QED
    BY <1>3, <2>1, <2>4, <2>5, <2>6, <2>7 DEF out, IsRadius, IsChunks
<1>4. CASE ~IsPlaying(a)
  <2>1. \A n \in DOMAIN out : ~IsRadius(out[n]) /\ ~IsChunks(out[n]) /\ ~IsSpawn(out[n]) /\ ~IsBroadcast(out[n])
    BY <1>1, <1>4 DEF Told
  <2>2. spawns = {} /\ radii = {}
    BY <2>1
  <2>3. QED
    BY <1>2, <1>4, <2>1, <2>2 DEF out, IsRadius, IsChunks
<1>5. QED
  BY <1>3, <1>4

\* A client is told once that it spawns, after its radius and its chunks, exactly when the table
\* says so, and hears nobody before that, whatever it asks for and in whatever order.
THEOREM WorldIsTold == Spec => []WorldComesFirst
<1>1. Init => TypeOK /\ TableIsSound /\ AllTold
  BY TableStarts, ToldStarts
<1>2. TypeOK /\ TableIsSound /\ AllTold /\ [Next]_vars => (TypeOK /\ TableIsSound /\ AllTold)'
  BY TableSteps, ToldSteps
<1>3. TypeOK /\ TableIsSound /\ AllTold => WorldComesFirst
  BY ToldIsOrder
<1>4. QED
  BY <1>1, <1>2, <1>3, PTL DEF Spec
-------------------------------------------------------------------------------
(* The chunks that a player walks on. *)

\* The player is near the centre of the chunks that were sent last.
OnChunks(p, out, n) ==
  /\ n \in DOMAIN out /\ IsChunks(out[n])
  /\ out[n].radius = p.view_distance
  /\ \A d \in {1, 2} : ChunkOf(p.position)[d] - out[n].centre[d] \in -Reach .. Reach
  /\ \A m \in DOMAIN out : m > n => ~IsChunks(out[m])

Stands(p, out) == p.spawned => \E n \in DOMAIN out : OnChunks(p, out, n)

AllStand == \A k \in DOMAIN players : Stands(players[k], sent[players[k].address])

\* What is sent after the chunks changes nothing if it is no chunks.
LEMMA StandsStill ==
  ASSUME NEW p, NEW out \in Seq(SentPackets), NEW q \in Seq(SentPackets),
         \A m \in DOMAIN q : ~IsChunks(q[m]), Stands(p, out)
  PROVE  Stands(p, out \o q)
<1> DEFINE new == out \o q
<1>1. /\ \A n \in DOMAIN out : n \in DOMAIN new /\ new[n] = out[n]
      /\ \A n \in DOMAIN new : n \in DOMAIN out \/ \E m \in DOMAIN q : new[n] = q[m]
  BY JoinedAt
<1> HIDE DEF new
<1>2. ASSUME NEW n \in DOMAIN out, OnChunks(p, out, n) PROVE OnChunks(p, new, n)
  <2>1. n \in DOMAIN new /\ new[n] = out[n]
    BY <1>1
  <2>2. \A m \in DOMAIN new : m > n => ~IsChunks(new[m])
    BY <1>1, <1>2 DEF OnChunks
  <2>3. QED
    BY <1>2, <2>1, <2>2 DEF OnChunks
<1>3. QED
  BY <1>1, <1>2 DEF Stands, new

\* Where the chunks come in what is sent last.
LEMMA StandsAgain ==
  ASSUME NEW p, NEW out \in Seq(SentPackets), NEW q \in Seq(SentPackets),
         NEW m \in DOMAIN q, IsChunks(q[m]), q[m].radius = p.view_distance,
         \A d \in {1, 2} : ChunkOf(p.position)[d] - q[m].centre[d] \in -Reach .. Reach,
         \A j \in DOMAIN q : j # m => ~IsChunks(q[j])
  PROVE  Stands(p, out \o q)
<1> DEFINE new == out \o q
           n == Len(out) + m
<1>1. /\ \A i \in DOMAIN out : i <= Len(out) /\ i \in Nat
      /\ \A j \in DOMAIN q : Len(out) + j \in DOMAIN new /\ new[Len(out) + j] = q[j]
      /\ \A i \in DOMAIN new :
           i \in DOMAIN out \/ \E j \in DOMAIN q : j \in Nat /\ j > 0 /\ i = Len(out) + j /\ new[i] = q[j]
      /\ Len(out) \in Nat
  BY JoinedAt
<1>2. m \in Nat /\ m > 0
  OBVIOUS
<1> HIDE DEF new
<1>3. n \in DOMAIN new /\ new[n] = q[m]
  BY <1>1
<1>4. ASSUME NEW i \in DOMAIN new, i > n PROVE ~IsChunks(new[i])
  <2>1. i \notin DOMAIN out
    BY <1>1, <1>2, <1>4
  <2>2. PICK j \in DOMAIN q : j \in Nat /\ i = Len(out) + j /\ new[i] = q[j]
    BY <1>1, <2>1
  <2>3. j # m
    BY <1>1, <1>2, <1>4, <2>2
  <2>4. QED
    BY <2>2, <2>3
<1> HIDE DEF n
<1>5. OnChunks(p, new, n)
  BY <1>3, <1>4 DEF OnChunks
<1>6. QED
  BY <1>3, <1>5 DEF Stands, new

LEMMA PlayersHaveAddresses ==
  ASSUME TypeOK, NEW k \in DOMAIN players
  PROVE  players[k] \in Player /\ players[k].address \in Addresses
<1>1. players[k] \in Player
  BY DEF TypeOK
<1>2. QED
  BY <1>1 DEF Player

LEMMA QuietStands ==
  ASSUME TypeOK, AllStand, NEW out,
         out = sent \/ \E q \in Seq(QuietPackets) : out = Tell(sender, q)
  PROVE  /\ out \in Sents
         /\ \A k \in DOMAIN players : Stands(players[k], out[players[k].address])
<1>1. sent \in Sents /\ sender \in Addresses /\ \A k \in DOMAIN players : players[k].address \in Addresses
  BY PlayersHaveAddresses DEF TypeOK, Sents
<1>2. CASE out = sent
  BY <1>1, <1>2 DEF AllStand
<1>3. ASSUME NEW q \in Seq(QuietPackets), out = Tell(sender, q)
      PROVE  out \in Sents /\ \A k \in DOMAIN players : Stands(players[k], out[players[k].address])
  <2>1. /\ out \in Sents /\ q \in Seq(SentPackets)
        /\ out[sender] = sent[sender] \o q
        /\ \A b \in Addresses : b # sender => out[b] = sent[b]
    BY <1>1, <1>3, TellIs, QuietIsSent
  <2>2. \A m \in DOMAIN q : ~IsChunks(q[m])
    BY QuietIsLater
  <2>3. sent[sender] \in Seq(SentPackets)
    BY <1>1 DEF Sents
  <2>4. ASSUME NEW k \in DOMAIN players PROVE Stands(players[k], out[players[k].address])
    <3>1. Stands(players[k], sent[players[k].address])
      BY DEF AllStand
    <3>2. CASE players[k].address = sender
      BY <2>1, <2>2, <2>3, <3>1, <3>2, StandsStill
    <3>3. CASE players[k].address # sender
      BY <1>1, <2>1, <3>1, <3>3
    <3>4. QED
      BY <3>2, <3>3
  <2>5. QED
    BY <2>1, <2>4
<1>4. QED
  BY <1>2, <1>3

LEMMA StandQuiet == ASSUME TypeOK, AllStand, Quiet PROVE AllStand'
<1>1. \A k \in DOMAIN players : Stands(players[k], sent'[players[k].address])
  BY QuietStands DEF Quiet
<1>2. CASE players' = players
  BY <1>1, <1>2 DEF AllStand
<1>3. CASE Added
  <2>1. PICK p \in Player : ~p.spawned /\ players' = Append(players, p)
    BY <1>3 DEF Added
  <2>2. /\ DOMAIN players' = DOMAIN players \cup {Len(players) + 1}
        /\ \A k \in DOMAIN players : players'[k] = players[k]
        /\ players'[Len(players) + 1] = p
    BY <2>1, AppendIs DEF TypeOK
  <2>3. Stands(p, sent'[p.address])
    BY <2>1 DEF Stands
  <2>4. \A k \in DOMAIN players' : Stands(players'[k], sent'[players'[k].address])
    BY <1>1, <2>2, <2>3
  <2>5. QED
    BY <2>4 DEF AllStand
<1>4. QED
  BY <1>2, <1>3 DEF Quiet

\* A step that changes one player and tells its client only.
LEMMA StandOne ==
  ASSUME TypeOK, TableIsSound, AllStand, NEW k, NEW q, Changed(k, q), players[k].address = sender,
         \A b \in Addresses : b # sender => sent'[b] = sent[b],
         Stands(q, sent'[sender])
  PROVE  AllStand'
<1>1. /\ k \in DOMAIN players /\ q.address = sender
      /\ DOMAIN players' = DOMAIN players
      /\ \A j \in DOMAIN players : players'[j] = IF j = k THEN q ELSE players[j]
  BY ChangedIs DEF TypeOK, Changed
<1>2. \A j \in DOMAIN players : players[j].address \in Addresses
  BY PlayersHaveAddresses
<1>3. ASSUME NEW j \in DOMAIN players PROVE Stands(players'[j], sent'[players'[j].address])
  <2>1. CASE j = k
    BY <1>1, <2>1
  <2>2. CASE j # k
    <3>1. players[j].address # sender
      BY <1>1, <2>2 DEF TableIsSound
    <3>2. QED
      BY <1>1, <1>2, <2>2, <3>1 DEF AllStand
  <2>3. QED
    BY <2>1, <2>2
<1>4. QED
  BY <1>1, <1>3 DEF AllStand

LEMMA StandSpawns ==
  ASSUME TypeOK, TableIsSound, AllStand, NEW k, NEW q, Spawns(k, q)
  PROVE  AllStand'
<1>1. /\ sent \in Sents /\ sender \in Addresses /\ q \in Player /\ Changed(k, q)
      /\ players[k].address = sender
      /\ sent' = Tell(sender, World(q)) /\ World(q) \in Seq(SentPackets)
  BY WorldIs DEF TypeOK, Sents, Spawns, Changed
<1>2. /\ sent'[sender] = sent[sender] \o World(q)
      /\ \A b \in Addresses : b # sender => sent'[b] = sent[b]
      /\ sent[sender] \in Seq(SentPackets)
  BY <1>1, TellIs DEF Sents
<1> DEFINE c == World(q)[2]
<1>3. c.radius = q.view_distance /\ c.centre = ChunkOf(q.position)
  <2>1. c = [id |-> "chunks", centre |-> ChunkOf(q.position), radius |-> q.view_distance]
    BY <1>1, WorldIs, Zenon
  <2> HIDE DEF c
  <2>2. QED
    BY <2>1
<1>4. \A d \in {1, 2} : ChunkOf(q.position)[d] - c.centre[d] \in -Reach .. Reach
  <2>1. ChunkOf(q.position) \in Int \X Int
    BY <1>1, ChunkIsPair DEF Player
  <2>2. ChunkOf(q.position)[1] \in Int /\ ChunkOf(q.position)[2] \in Int
    BY <2>1
  <2> HIDE DEF c
  <2>3. QED
    BY <1>3, <2>2, BoundsAreNumbers
<1>5. 2 \in DOMAIN World(q) /\ IsChunks(c) /\ \A j \in DOMAIN World(q) : j # 2 => ~IsChunks(World(q)[j])
  BY <1>1, WorldReads
<1>6. Stands(q, sent[sender] \o World(q))
  BY <1>1, <1>2, <1>3, <1>4, <1>5, StandsAgain
<1>7. QED
  BY <1>1, <1>2, <1>6, StandOne

LEMMA StandMoves ==
  ASSUME TypeOK, TableIsSound, AllStand, NEW k, NEW q, Moves(k, q)
  PROVE  AllStand'
<1> DEFINE p == players[k]
<1>1. /\ sent \in Sents /\ sender \in Addresses /\ k \in DOMAIN players /\ p \in Player /\ q \in Player
      /\ Changed(k, q) /\ p.address = sender
      /\ q.spawned = p.spawned /\ q.view_distance = p.view_distance
      /\ Near(q.position, p.position)
  BY DEF TypeOK, Sents, Moves, Changed
<1>2. sent[sender] \in Seq(SentPackets) /\ Stands(p, sent[sender])
  BY <1>1 DEF Sents, AllStand
<1>3. CASE sent' = sent /\ (q.spawned => ChunkOf(q.position) = ChunkOf(p.position))
  <2>1. ASSUME NEW n \in DOMAIN sent[sender], OnChunks(p, sent[sender], n), q.spawned
        PROVE  OnChunks(q, sent[sender], n)
    BY <1>1, <1>3, <2>1 DEF OnChunks
  <2>2. Stands(q, sent[sender])
    BY <1>1, <1>2, <2>1 DEF Stands
  <2>3. QED
    BY <1>1, <1>3, <2>2, StandOne
<1>4. CASE sent' = Tell(sender, send_chunks(p))
  <2>1. /\ send_chunks(p) \in Seq(SentPackets) /\ Len(send_chunks(p)) = 2
        /\ sent'[sender] = sent[sender] \o send_chunks(p)
        /\ \A b \in Addresses : b # sender => sent'[b] = sent[b]
    BY <1>1, <1>4, ChunksAre, TellIs
  <2> DEFINE c == send_chunks(p)
  <2>2. c[1].radius = p.view_distance /\ c[1].centre = ChunkOf(p.position) /\ c[1].id = "chunks"
    <3>1. c[1] = [id |-> "chunks", centre |-> ChunkOf(p.position), radius |-> p.view_distance]
      BY <1>1, ChunksAre, Zenon
    <3> HIDE DEF c
    <3>2. QED
      BY <3>1
  <2>3. c[2].id = "network_chunk_publisher_update"
    BY <1>1, ChunksAre, Zenon
  <2>4. c \in Seq(SentPackets) /\ Len(c) = 2
    BY <2>1
  <2>5. sent'[sender] = sent[sender] \o c
    BY <2>1
  <2>6. \A d \in {1, 2} : ChunkOf(q.position)[d] - c[1].centre[d] \in -Reach .. Reach
    BY <1>1, <2>2 DEF Near
  <2> HIDE DEF c
  <2>7. 1 \in DOMAIN c /\ \A j \in DOMAIN c : j # 1 => j = 2
    BY <2>4
  <2>8. IsChunks(c[1]) /\ \A j \in DOMAIN c : j # 1 => ~IsChunks(c[j])
    BY <2>2, <2>3, <2>7 DEF IsChunks, Has
  <2>9. Stands(q, sent[sender] \o c)
    <3>1. c[1].radius = q.view_distance
      BY <1>1, <2>2
    <3>2. QED
      BY <1>2, <2>4, <2>6, <2>7, <2>8, <3>1, StandsAgain
  <2>10. QED
    BY <1>1, <2>1, <2>5, <2>9, StandOne
<1>5. QED
  BY <1>3, <1>4 DEF Moves

LEMMA StandSays ==
  ASSUME TypeOK, NEW id \in {"text", "player_skin"}, NEW out \in Sents, Says(id, out),
         \A k \in DOMAIN players : Stands(players[k], out[players[k].address])
  PROVE  AllStand'
<1> DEFINE e == [id |-> id, number |-> said + 1]
<1>1. /\ e \in SentPackets
      /\ \A a \in Addresses : sent'[a] = IF IsPlaying(a) THEN Append(out[a], e) ELSE out[a]
  BY SaidIs
<1>2. ~IsChunks(e)
  BY DEF IsChunks, Has
<1> HIDE DEF e
<1>3. ASSUME NEW k \in DOMAIN players PROVE Stands(players[k], sent'[players[k].address])
  <2> DEFINE a == players[k].address
  <2>1. a \in Addresses /\ out[a] \in Seq(SentPackets) /\ Stands(players[k], out[a])
    BY PlayersHaveAddresses DEF Sents
  <2> HIDE DEF a
  <2>2. <<e>> \in Seq(SentPackets) /\ \A m \in DOMAIN <<e>> : <<e>>[m] = e
    BY <1>1
  <2>3. Stands(players[k], out[a] \o <<e>>)
    BY <1>2, <2>1, <2>2, StandsStill
  <2>4. out[a] \o <<e>> = Append(out[a], e)
    BY <1>1, <2>1
  <2>5. Stands(players[k], sent'[a])
    BY <1>1, <2>1, <2>3, <2>4
  <2>6. QED
    BY <2>5 DEF a
<1>4. players' = players
  BY DEF Says
<1>5. QED
  BY <1>3, <1>4 DEF AllStand

LEMMA HandlersStand == ASSUME TypeOK, TableIsSound, AllStand, on_f PROVE AllStand'
<1>1. ASSUME NEW id \in {"text", "player_skin"}, NEW out \in Sents,
             out = sent \/ \E q \in Seq(QuietPackets) : out = Tell(sender, q),
             Says(id, out)
      PROVE  AllStand'
  BY <1>1, QuietStands, StandSays
<1>2. QED
  BY <1>1, HandlersDo, StandQuiet, StandSpawns, StandMoves DEF Handled, Sents

LEMMA StandSteps == TypeOK /\ TableIsSound /\ AllStand /\ [Next]_vars => AllStand'
<1> SUFFICES ASSUME TypeOK, TableIsSound, AllStand, [Next]_vars PROVE AllStand'
  OBVIOUS
<1>1. CASE on_f
  BY <1>1, HandlersStand
<1>2. ASSUME NEW a \in Addresses, on_dn(a) PROVE AllStand'
  <2>1. sent'[a] = <<>> /\ \A b \in Addresses : b # a => sent'[b] = sent[b]
    BY <1>2 DEF on_dn, TypeOK
  <2>2. remove_minecraft_player(a)
    BY <1>2 DEF on_dn
  <2>3. \A j \in DOMAIN players' : \E k \in DOMAIN players : players'[j] = players[k] /\ players[k].address # a
    <3>1. CASE players' = players /\ ~has_minecraft_player_address(a)
      BY <3>1 DEF has_minecraft_player_address
    <3>2. ASSUME NEW gone, Removed(gone), players[gone].address = a
          PROVE  \A j \in DOMAIN players' : \E k \in DOMAIN players : players'[j] = players[k] /\ players[k].address # a
      <4>1. \A j \in DOMAIN players' : \E k \in DOMAIN players \ {gone} : players'[j] = players[k]
        BY <3>2, RemovedIs DEF TypeOK
      <4>2. \A k \in DOMAIN players \ {gone} : players[k].address # a
        BY <3>2 DEF TableIsSound, Removed
      <4>3. QED
        BY <4>1, <4>2
    <3>3. QED
      BY <2>2, <3>1, <3>2, LeavingRemoves
  <2>4. ASSUME NEW j \in DOMAIN players' PROVE Stands(players'[j], sent'[players'[j].address])
    <3>1. PICK k \in DOMAIN players : players'[j] = players[k] /\ players[k].address # a
      BY <2>3
    <3>2. sent'[players[k].address] = sent[players[k].address]
      BY <2>1, <3>1, PlayersHaveAddresses
    <3>3. QED
      BY <3>1, <3>2 DEF AllStand
  <2>5. QED
    BY <2>4 DEF AllStand
<1>3. ASSUME NEW a \in Addresses, NEW packets \in Batches, Receive(a, packets) PROVE AllStand'
  BY <1>3 DEF Receive, AllStand
<1>4. CASE UNCHANGED vars
  BY <1>4 DEF vars, AllStand
<1>5. QED
  BY <1>1, <1>2, <1>3, <1>4 DEF Next

LEMMA StandsIsOn == TypeOK /\ AllStand => StandsOnSentChunk
<1> SUFFICES ASSUME TypeOK, AllStand, NEW k \in DOMAIN players,
                    players[k].spawned, players[k].view_distance > Reach
             PROVE  LET out == sent[players[k].address]
                        square == out[Last(out, "chunks")]
                    IN ChunkOf(players[k].position) \in Square(square.centre, square.radius)
  BY Zenon DEF StandsOnSentChunk
<1> DEFINE p == players[k]
           out == sent[p.address]
<1>1. p \in Player /\ p.address \in Addresses /\ Stands(p, out) /\ p.spawned /\ p.view_distance > Reach
  BY PlayersHaveAddresses DEF AllStand
<1>2. out \in Seq(SentPackets)
  BY <1>1 DEF TypeOK
<1>3. ChunkOf(p.position) \in Int \X Int /\ p.view_distance \in Int
  BY <1>1, ChunkIsPair DEF Player
<1> HIDE DEF p, out
<1>4. PICK n \in DOMAIN out : OnChunks(p, out, n)
  BY <1>1 DEF Stands
<1>5. Last(out, "chunks") = n
  <2>1. DOMAIN out = 1 .. Len(out) /\ Len(out) \in Nat
    BY <1>2
  <2>2. Has(out[n], "chunks") /\ \A i \in n + 1 .. Len(out) : ~Has(out[i], "chunks")
    BY <1>4, <2>1 DEF OnChunks, IsChunks
  <2>3. \A m \in DOMAIN out :
          Has(out[m], "chunks") /\ (\A i \in m + 1 .. Len(out) : ~Has(out[i], "chunks")) => m = n
    BY <2>1, <2>2
  <2>4. QED
    BY <2>2, <2>3, Zenon DEF Last
<1>6. /\ out[n].radius = p.view_distance /\ IsChunks(out[n])
      /\ \A d \in {1, 2} : ChunkOf(p.position)[d] - out[n].centre[d] \in -Reach .. Reach
  BY <1>4 DEF OnChunks
<1>7. out[n].centre \in Int \X Int
  <2>1. out[n] \in SentPackets
    BY <1>2
  <2>2. QED
    BY <1>6, <2>1 DEF SentPackets, IsChunks, Has
<1> DEFINE x == ChunkOf(p.position)
           c == out[n].centre
           v == p.view_distance
<1>8. x \in Int \X Int /\ c \in Int \X Int /\ v \in Int /\ v > Reach /\ Reach \in Nat
      /\ \A d \in {1, 2} : x[d] - c[d] \in -Reach .. Reach
  BY <1>1, <1>3, <1>6, <1>7, BoundsAreNumbers
<1> HIDE DEF x, c, v
<1>9. x[1] \in (c[1] - v) .. (c[1] + v - 1) /\ x[2] \in (c[2] - v) .. (c[2] + v - 1) /\ x = <<x[1], x[2]>>
  <2>1. x[1] \in Int /\ x[2] \in Int /\ c[1] \in Int /\ c[2] \in Int
    BY <1>8
  <2>2. x[1] - c[1] \in -Reach .. Reach /\ x[2] - c[2] \in -Reach .. Reach
    BY <1>8
  <2>3. QED
    BY <1>8, <2>1, <2>2
<1>10. x \in Square(c, v)
  BY <1>9 DEF Square
<1>11. QED
  BY <1>5, <1>6, <1>10 DEF x, c, v, p, out

\* Whoever walks stands on a chunk of the square it was sent last, for any positions and radii.
THEOREM WalkersStand == Spec => []StandsOnSentChunk
<1>1. Init => TypeOK /\ TableIsSound /\ AllStand
  BY TableStarts DEF Init, AllStand
<1>2. TypeOK /\ TableIsSound /\ AllStand /\ [Next]_vars => (TypeOK /\ TableIsSound /\ AllStand)'
  BY TableSteps, StandSteps
<1>3. TypeOK /\ AllStand => StandsOnSentChunk
  BY StandsIsOn
<1>4. QED
  BY <1>1, <1>2, <1>3, PTL DEF Spec
-------------------------------------------------------------------------------
(* The clients of the protocol: the table follows what they believe. *)

\* What a client may wait for.
Waits == {"away", "old"} \cup Stages

Messages == [address : Addresses, packets : {<<>>} \cup {<<p>> : p \in Packets}]

\* The queue and the batch hold one packet of a client at a time, as raknet hands it on.
QueueHolds ==
  /\ main_to_threaded \in Seq(Messages)
  /\ batch = <<>> \/ \E p \in Packets : batch = <<p>>
  /\ client \in [Addresses -> Waits]

\* The news that a session has ended is in the queue.
Pending(a) == \E n \in DOMAIN main_to_threaded : main_to_threaded[n] = Gone(a)

\* The n-th message of the queue is this packet of the session that has not ended.
Fresh(a, n, packet) ==
  /\ n \in DOMAIN main_to_threaded /\ main_to_threaded[n] = Message(a, <<packet>>)
  /\ \A k \in DOMAIN main_to_threaded : k > n => main_to_threaded[k] # Gone(a)

InBatch(a, packet) == batch = <<packet>> /\ sender = a /\ ~Pending(a)

\* Whatever is left of the sessions of a client that is away has the end of the last behind it.
AwayIsOver ==
  \A a \in Addresses : client[a] = "away" =>
    /\ \A n \in DOMAIN main_to_threaded : main_to_threaded[n].address = a =>
         \E k \in DOMAIN main_to_threaded : k >= n /\ main_to_threaded[k] = Gone(a)
    /\ batch # <<>> /\ sender = a => Pending(a)
    /\ has_minecraft_player_address(a) => Pending(a)

\* A client that is not too old is known, or will be.
StagesAreKnown ==
  \A a \in Addresses : client[a] \in Stages =>
    \/ IsToHandle(a, Settings(TRUE))
    \/ has_minecraft_player_address(a) /\ ~Pending(a)

\* A client that has asked for its spawn has spawned, or will.
AskersSpawn ==
  \A a \in Addresses : client[a] \in {"player_spawn", "playing"} =>
    IsToHandle(a, Ask) \/ (IsPlaying(a) /\ ~Pending(a))

\* In one session the settings come before the radius.
SettingsFirst ==
  \A a \in Addresses, n \in DOMAIN main_to_threaded :
    Fresh(a, n, Settings(TRUE)) =>
      /\ ~InBatch(a, Ask)
      /\ \A m \in DOMAIN main_to_threaded : Fresh(a, m, Ask) => n < m

SessionsInv == QueueHolds /\ AwayIsOver /\ StagesAreKnown /\ AskersSpawn /\ SettingsFirst

LEMMA MessagesAre ==
  ASSUME NEW a, NEW b, NEW p, NEW q
  PROVE  /\ Message(a, <<p>>) # Gone(b)
         /\ Gone(a) = Gone(b) => a = b
         /\ Message(a, <<p>>) = Message(b, <<q>>) => a = b /\ p = q
         /\ Message(a, <<p>>).packets = <<p>> /\ Message(a, <<p>>).address = a
         /\ Gone(a).packets = <<>> /\ Gone(a).address = a
         /\ <<p>> # <<>>
<1>1. <<p>> # <<>> /\ (<<p>> = <<q>> => p = q)
  <2>1. <<p>>[1] = p /\ <<q>>[1] = q
    OBVIOUS
  <2>2. QED
    BY <2>1
<1>2. \A x, y : [address |-> x, packets |-> y].address = x /\ [address |-> x, packets |-> y].packets = y
  OBVIOUS
<1>3. QED
  BY <1>1, <1>2, Zenon DEF Message, Gone

LEMMA SameMessage ==
  ASSUME NEW a, NEW b, NEW p, NEW q, Message(a, <<p>>) = Message(b, <<q>>)
  PROVE  a = b /\ p = q
<1>1. /\ Message(a, <<p>>).address = a /\ Message(a, <<p>>).packets = <<p>>
      /\ Message(b, <<q>>).address = b /\ Message(b, <<q>>).packets = <<q>>
  BY MessagesAre, Zenon
<1>2. a = b /\ <<p>> = <<q>>
  BY <1>1
<1>3. QED
  BY <1>2

LEMMA MessageIs ==
  ASSUME NEW x \in Messages
  PROVE  /\ x.address \in Addresses
         /\ x.packets = <<>> => x = Gone(x.address)
         /\ x.packets # <<>> => \E p \in Packets : x.packets = <<p>> /\ x = Message(x.address, <<p>>)
<1>1. x.address \in Addresses /\ x = [address |-> x.address, packets |-> x.packets]
      /\ x.packets \in {<<>>} \cup {<<p>> : p \in Packets}
  BY DEF Messages
<1>2. QED
  BY <1>1, Zenon DEF Message, Gone

LEMMA TailIs ==
  ASSUME NEW S, NEW s \in Seq(S), s # <<>>
  PROVE  /\ Tail(s) \in Seq(S) /\ Head(s) = s[1] /\ 1 \in DOMAIN s /\ Head(s) \in S
         /\ \A k \in DOMAIN Tail(s) : k \in Nat /\ k > 0 /\ k + 1 \in DOMAIN s /\ Tail(s)[k] = s[k + 1]
         /\ \A k \in DOMAIN s : k \in Nat /\ (k = 1 \/ (k > 1 /\ k - 1 \in DOMAIN Tail(s) /\ Tail(s)[k - 1] = s[k]))
<1>1. Tail(s) \in Seq(S) /\ Head(s) = s[1] /\ Len(s) \in Nat /\ Len(s) > 0
      /\ DOMAIN s = 1 .. Len(s) /\ DOMAIN Tail(s) = 1 .. Len(s) - 1
  OBVIOUS
<1>2. \A k \in 1 .. Len(s) - 1 : Tail(s)[k] = s[k + 1]
  OBVIOUS
<1>3. 1 \in DOMAIN s /\ Head(s) \in S
  BY <1>1
<1>4. ASSUME NEW k \in DOMAIN s, k # 1 PROVE k > 1 /\ k - 1 \in DOMAIN Tail(s) /\ Tail(s)[k - 1] = s[k]
  <2>1. k \in Nat /\ k > 1 /\ k - 1 \in 1 .. Len(s) - 1 /\ (k - 1) + 1 = k
    BY <1>1, <1>4
  <2>2. Tail(s)[k - 1] = s[(k - 1) + 1]
    BY <1>2, <2>1
  <2>3. QED
    BY <1>1, <2>1, <2>2
<1>5. QED
  BY <1>1, <1>2, <1>3, <1>4

LEMMA ToHandleIs ==
  ASSUME NEW a, NEW packet
  PROVE  IsToHandle(a, packet) <=> InBatch(a, packet) \/ \E n : Fresh(a, n, packet)
BY DEF IsToHandle, InBatch, Fresh, Pending

\* What a client says comes last in the queue and ends no session.
LEMMA SayingIs ==
  ASSUME QueueHolds, NEW a \in Addresses, NEW p \in Packets,
         main_to_threaded' = Append(main_to_threaded, Message(a, <<p>>))
  PROVE  /\ main_to_threaded' \in Seq(Messages)
         /\ \A b : Pending(b)' <=> Pending(b)
         /\ \A b, n, q : Fresh(b, n, q) => Fresh(b, n, q)' /\ n \in Nat /\ n <= Len(main_to_threaded)
         /\ \A b, n, q : Fresh(b, n, q)' =>
              Fresh(b, n, q) \/ (n = Len(main_to_threaded) + 1 /\ b = a /\ q = p)
         /\ \E n : Fresh(a, n, p)'
<1> DEFINE s == main_to_threaded
           x == Message(a, <<p>>)
           last == Len(main_to_threaded) + 1
<1>1. s \in Seq(Messages) /\ x \in Messages /\ Len(s) \in Nat /\ DOMAIN s = 1 .. Len(s)
  BY DEF QueueHolds, Messages, Message
<1>2. /\ s' \in Seq(Messages) /\ DOMAIN s' = DOMAIN s \cup {last}
      /\ \A k \in DOMAIN s : k # last /\ s'[k] = s[k]
      /\ s'[last] = x
  BY <1>1, AppendIs
<1>3. \A k \in DOMAIN s : k \in Nat /\ k <= Len(s) /\ ~(k > last)
  BY <1>1
<1>4. \A b : x # Gone(b)
  BY MessagesAre
<1>5. \A b : Pending(b)' <=> Pending(b)
  BY <1>2, <1>4, Zenon DEF Pending
<1>6. ASSUME NEW b, NEW n, NEW q, Fresh(b, n, q)
      PROVE  Fresh(b, n, q)' /\ n \in Nat /\ n <= Len(s)
  BY <1>2, <1>3, <1>4, <1>6 DEF Fresh
<1>7. ASSUME NEW b, NEW n, NEW q, Fresh(b, n, q)'
      PROVE  Fresh(b, n, q) \/ (n = last /\ b = a /\ q = p)
  <2>1. n \in DOMAIN s' /\ s'[n] = Message(b, <<q>>) /\ \A k \in DOMAIN s' : k > n => s'[k] # Gone(b)
    BY <1>7 DEF Fresh
  <2>2. CASE n = last
    BY <1>2, <2>1, <2>2, MessagesAre
  <2>3. CASE n \in DOMAIN s
    BY <1>2, <2>1, <2>3 DEF Fresh
  <2>4. QED
    BY <1>2, <2>1, <2>2, <2>3
<1>8. \E n : Fresh(a, n, p)'
  <2>1. \A k \in DOMAIN s' : ~(k > last)
    BY <1>1, <1>2, <1>3
  <2>2. ASSUME NEW n, n = last PROVE Fresh(a, n, p)'
    BY <1>2, <2>1, <2>2 DEF Fresh
  <2>3. QED
    BY <2>2
<1>9. QED
  BY <1>2, <1>5, <1>6, <1>7, <1>8

\* The end of a session comes behind all that was said in it.
LEMMA LeavingIs ==
  ASSUME QueueHolds, NEW a \in Addresses, main_to_threaded' = Append(main_to_threaded, Gone(a))
  PROVE  /\ main_to_threaded' \in Seq(Messages)
         /\ \E n \in DOMAIN main_to_threaded' :
              main_to_threaded'[n] = Gone(a) /\ \A k \in DOMAIN main_to_threaded' : k <= n
         /\ Pending(a)'
         /\ \A b : b # a => (Pending(b)' <=> Pending(b))
         /\ \A b, n, q : Fresh(b, n, q)' => b # a
         /\ \A b, n, q : b # a => (Fresh(b, n, q)' <=> Fresh(b, n, q))
<1> DEFINE s == main_to_threaded
           last == Len(main_to_threaded) + 1
<1>1. s \in Seq(Messages) /\ Gone(a) \in Messages /\ Len(s) \in Nat /\ DOMAIN s = 1 .. Len(s)
  BY DEF QueueHolds, Messages, Message, Gone
<1>2. /\ s' \in Seq(Messages) /\ DOMAIN s' = DOMAIN s \cup {last}
      /\ \A k \in DOMAIN s : k # last /\ s'[k] = s[k]
      /\ s'[last] = Gone(a)
  BY <1>1, AppendIs
<1>3. \A k \in DOMAIN s : last > k
  BY <1>1
<1>4. \A b : b # a => Gone(a) # Gone(b)
  BY MessagesAre
<1>5. \A k \in DOMAIN s' : k <= last
  BY <1>1, <1>2
<1>6. Pending(a)' /\ \A b : b # a => (Pending(b)' <=> Pending(b))
  BY <1>2, <1>4, Zenon DEF Pending
<1>7. ASSUME NEW b, NEW n, NEW q, Fresh(b, n, q)' PROVE b # a /\ Fresh(b, n, q)
  <2>1. n \in DOMAIN s' /\ s'[n] = Message(b, <<q>>) /\ \A k \in DOMAIN s' : k > n => s'[k] # Gone(b)
    BY <1>7 DEF Fresh
  <2>2. n # last
    BY <1>2, <2>1, MessagesAre
  <2>3. n \in DOMAIN s
    BY <1>2, <2>1, <2>2
  <2>4. b # a
    BY <1>2, <1>3, <2>1, <2>3
  <2>5. QED
    BY <1>2, <2>1, <2>3, <2>4 DEF Fresh
<1>8. ASSUME NEW b, NEW n, NEW q, Fresh(b, n, q), b # a PROVE Fresh(b, n, q)'
  BY <1>2, <1>4, <1>8 DEF Fresh
<1>9. QED
  BY <1>2, <1>5, <1>6, <1>7, <1>8

\* Taking the first message brings the others forward.
LEMMA TakingIs ==
  ASSUME QueueHolds, Take
  PROVE  /\ main_to_threaded' \in Seq(Messages) /\ Head(main_to_threaded) \in Messages
         /\ batch = <<>>
         /\ \A b : Pending(b)' => Pending(b)
         /\ \A b : Pending(b) => Pending(b)' \/ Head(main_to_threaded) = Gone(b)
         /\ \A b, n, q : Fresh(b, n, q)' => n \in Nat /\ n > 0 /\ Fresh(b, n + 1, q)
         /\ \A b, n, q : Fresh(b, n, q) =>
              \/ n = 1 /\ Head(main_to_threaded) = Message(b, <<q>>) /\ ~Pending(b)'
              \/ n > 1 /\ Fresh(b, n - 1, q)'
<1> DEFINE s == main_to_threaded
<1>1. s \in Seq(Messages) /\ s # <<>> /\ batch = <<>> /\ s' = Tail(s)
  BY DEF QueueHolds, Take
<1>2. /\ s' \in Seq(Messages) /\ Head(s) = s[1] /\ 1 \in DOMAIN s /\ Head(s) \in Messages
      /\ \A k \in DOMAIN s' : k \in Nat /\ k > 0 /\ k + 1 \in DOMAIN s /\ s'[k] = s[k + 1]
      /\ \A k \in DOMAIN s : k \in Nat /\ (k = 1 \/ (k > 1 /\ k - 1 \in DOMAIN s' /\ s'[k - 1] = s[k]))
  BY <1>1, TailIs
<1>3. \A b : Pending(b)' => Pending(b)
  BY <1>2 DEF Pending
<1>4. \A b : Pending(b) => Pending(b)' \/ Head(s) = Gone(b)
  BY <1>2 DEF Pending
<1>5. ASSUME NEW b, NEW n, NEW q, Fresh(b, n, q)' PROVE n \in Nat /\ n > 0 /\ Fresh(b, n + 1, q)
  <2>1. n \in DOMAIN s' /\ s'[n] = Message(b, <<q>>) /\ \A k \in DOMAIN s' : k > n => s'[k] # Gone(b)
    BY <1>5 DEF Fresh
  <2>2. n \in Nat /\ n > 0 /\ n + 1 \in DOMAIN s /\ s[n + 1] = Message(b, <<q>>)
    BY <1>2, <2>1
  <2>3. ASSUME NEW k \in DOMAIN s, k > n + 1 PROVE s[k] # Gone(b)
    <3>1. k \in Nat /\ k - 1 \in DOMAIN s' /\ s'[k - 1] = s[k]
      BY <1>2, <2>2, <2>3
    <3>2. k - 1 > n
      BY <2>2, <2>3, <3>1
    <3>3. QED
      BY <2>1, <3>1, <3>2
  <2>4. QED
    BY <2>2, <2>3 DEF Fresh
<1>6. ASSUME NEW b, NEW n, NEW q, Fresh(b, n, q)
      PROVE  \/ n = 1 /\ Head(s) = Message(b, <<q>>) /\ ~Pending(b)'
             \/ n > 1 /\ Fresh(b, n - 1, q)'
  <2>1. n \in DOMAIN s /\ s[n] = Message(b, <<q>>) /\ \A k \in DOMAIN s : k > n => s[k] # Gone(b)
    BY <1>6 DEF Fresh
  <2>2. \A k \in DOMAIN s' : k + 1 > n => s'[k] # Gone(b)
    BY <1>2, <2>1
  <2>3. CASE n = 1
    <3>1. \A k \in DOMAIN s' : s'[k] # Gone(b)
      BY <1>2, <2>2, <2>3
    <3>2. QED
      BY <1>2, <2>1, <2>3, <3>1 DEF Pending
  <2>4. CASE n # 1
    <3>1. n \in Nat /\ n > 1 /\ n - 1 \in DOMAIN s' /\ s'[n - 1] = Message(b, <<q>>)
      BY <1>2, <2>1, <2>4
    <3>2. \A k \in DOMAIN s' : k > n - 1 => s'[k] # Gone(b)
      BY <1>2, <2>2, <3>1
    <3>3. QED
      BY <3>1, <3>2 DEF Fresh
  <2>5. QED
    BY <2>3, <2>4
<1>7. QED
  BY <1>1, <1>2, <1>3, <1>4, <1>5, <1>6

\* A handler makes nobody unknown and takes nobody's spawn back.
LEMMA HandlersKeepPlayers ==
  ASSUME TypeOK, on_f, NEW a
  PROVE  /\ has_minecraft_player_address(a) => has_minecraft_player_address(a)'
         /\ has_minecraft_player_address(a)' => has_minecraft_player_address(a) \/ a = sender
         /\ IsPlaying(a) => IsPlaying(a)'
<1>1. players \in Seq(Player)
  BY DEF TypeOK
<1>2. \/ players' = players \/ Added
      \/ \E k, q : Changed(k, q) /\ (players[k].spawned => q.spawned)
  BY HandlersDo DEF Handled, Quiet, Spawns, Moves, Says
<1>3. CASE players' = players
  BY <1>3 DEF has_minecraft_player_address, IsPlaying
<1>4. CASE Added
  <2>1. PICK p \in Player : p.address = sender /\ ~p.spawned /\ players' = Append(players, p)
    BY <1>4 DEF Added
  <2>2. /\ DOMAIN players' = DOMAIN players \cup {Len(players) + 1}
        /\ \A k \in DOMAIN players : players'[k] = players[k]
        /\ players'[Len(players) + 1] = p
    BY <1>1, <2>1, AppendIs
  <2>3. QED
    BY <2>1, <2>2 DEF has_minecraft_player_address, IsPlaying
<1>5. ASSUME NEW k, NEW q, Changed(k, q), players[k].spawned => q.spawned
      PROVE  /\ has_minecraft_player_address(a)' <=> has_minecraft_player_address(a)
             /\ IsPlaying(a) => IsPlaying(a)'
  <2>1. /\ DOMAIN players' = DOMAIN players
        /\ \A j \in DOMAIN players : players'[j] = IF j = k THEN q ELSE players[j]
    BY <1>1, <1>5, ChangedIs DEF Changed
  <2>2. \A j \in DOMAIN players : /\ players'[j].address = players[j].address
                                  /\ players[j].spawned => players'[j].spawned
    BY <1>5, <2>1 DEF Changed
  <2>3. QED
    BY <2>1, <2>2 DEF has_minecraft_player_address, IsPlaying
<1>6. QED
  BY <1>2, <1>3, <1>4, <1>5

LEMMA HeadOfOne == ASSUME NEW p PROVE Head(<<p>>) = p /\ Tail(<<p>>) = <<>>
OBVIOUS

\* Which handler runs is the packet's choice.
LEMMA OnlyHandler ==
  ASSUME on_f
  PROVE  /\ Head(batch).id = "request_network_settings" => on_f_request_network_settings
         /\ Head(batch).id = "request_chunk_radius" /\ has_minecraft_player_address(sender)
              => handle_packet_request_chunk_radius
<1>1. CASE on_f_request_network_settings
  BY <1>1 DEF on_f_request_network_settings, Handles
<1>2. CASE handle_packet_login
  BY <1>2 DEF handle_packet_login, Handles
<1>3. CASE on_f_unknown
  BY <1>3 DEF on_f_unknown
<1>4. CASE on_f_resource_pack_client_response
  BY <1>4 DEF on_f_resource_pack_client_response, HandlesFromPlayer, Handles
<1>5. CASE handle_packet_request_chunk_radius
  BY <1>5 DEF handle_packet_request_chunk_radius, HandlesFromPlayer, Handles
<1>6. CASE handle_packet_interact
  BY <1>6 DEF handle_packet_interact, HandlesFromPlayer, Handles
<1>7. CASE handle_packet_window_close
  BY <1>7 DEF handle_packet_window_close, HandlesFromPlayer, Handles
<1>8. CASE on_f_text
  BY <1>8 DEF on_f_text, HandlesFromPlayer, Handles
<1>9. CASE on_f_player_skin
  BY <1>9 DEF on_f_player_skin, HandlesFromPlayer, Handles
<1>10. CASE handle_packet_move_player
  BY <1>10 DEF handle_packet_move_player, HandlesFromPlayer, Handles
<1>11. CASE on_f_nothing
  BY <1>11 DEF on_f_nothing, HandlesFromPlayer, Handles
<1>12. QED
  BY <1>1, <1>2, <1>3, <1>4, <1>5, <1>6, <1>7, <1>8, <1>9, <1>10, <1>11 DEF on_f

LEMMA SettingsMakeKnown ==
  ASSUME TypeOK, on_f, batch = <<Settings(TRUE)>>, NEW a, a = sender
  PROVE  has_minecraft_player_address(a)'
<1>1. Head(batch) = Settings(TRUE)
  BY HeadOfOne
<1>2. Head(batch).id = "request_network_settings" /\ Head(batch).current
  BY <1>1 DEF Settings
<1>3. on_f_request_network_settings
  BY <1>2, OnlyHandler
<1>4. PICK u, r : add_minecraft_player([address |-> sender, entity_unique_id |-> u, entity_runtime_id |-> r,
                                        spawned |-> FALSE, view_distance |-> 8, position |-> Spawn])
  BY <1>2, <1>3 DEF on_f_request_network_settings
<1> DEFINE p == [address |-> sender, entity_unique_id |-> u, entity_runtime_id |-> r,
                 spawned |-> FALSE, view_distance |-> 8, position |-> Spawn]
<1>5. p.address = a /\ players' = IF has_minecraft_player_address(a) THEN players ELSE Append(players, p)
  BY <1>4 DEF add_minecraft_player
<1> HIDE DEF p
<1>6. CASE has_minecraft_player_address(a)
  BY <1>5, <1>6 DEF has_minecraft_player_address
<1>7. CASE ~has_minecraft_player_address(a)
  <2>1. players' = Append(players, p) /\ players \in Seq(Player)
    BY <1>5, <1>7 DEF TypeOK
  <2>2. Len(players) + 1 \in DOMAIN players' /\ players'[Len(players) + 1] = p
    BY <2>1
  <2>3. QED
    BY <1>5, <2>2 DEF has_minecraft_player_address
<1>8. QED
  BY <1>6, <1>7

LEMMA AskingSpawns ==
  ASSUME TypeOK, on_f, batch = <<Ask>>, has_minecraft_player_address(sender), NEW a, a = sender
  PROVE  IsPlaying(a)'
<1>1. Head(batch) = Ask
  BY HeadOfOne
<1>2. Head(batch).id = "request_chunk_radius"
  BY <1>1 DEF Ask
<1>3. handle_packet_request_chunk_radius
  BY <1>2, OnlyHandler
<1> DEFINE k == get_minecraft_player_address(sender)
<1>4. k \in DOMAIN players /\ Me = players[k] /\ Me.address = a /\ Me \in Player
  BY MeIs DEF TypeOK
<1>5. CASE Me.spawned
  <2>1. IsPlaying(a)
    BY <1>4, <1>5 DEF IsPlaying
  <2>2. QED
    BY <2>1, HandlersKeepPlayers
<1>6. CASE ~Me.spawned
  <2>1. PICK v : players' = [players EXCEPT ![k] = [[Me EXCEPT !.view_distance = v] EXCEPT !.spawned = TRUE]]
    BY <1>3, <1>6 DEF handle_packet_request_chunk_radius, Update
  <2> DEFINE q == [[Me EXCEPT !.view_distance = v] EXCEPT !.spawned = TRUE]
  <2>2. q.address = a /\ q.spawned
    BY <1>4 DEF Player
  <2> HIDE DEF q, k
  <2>3. k \in DOMAIN players' /\ players'[k] = q
    BY <1>4, <2>1 DEF TypeOK, q
  <2>4. QED
    BY <2>2, <2>3 DEF IsPlaying
<1>7. QED
  BY <1>5, <1>6

LEMMA StagesAre ==
  /\ DOMAIN Answers = {"network_setting", "resource_packs_info", "resource_pack_stack", "start_game"}
  /\ Stages = DOMAIN Answers \cup {"player_spawn", "playing"}
  /\ "away" \notin Stages /\ "old" \notin Stages
BY DEF Answers, Stages

LEMMA AskIsNotSettings == Ask # Settings(TRUE)
<1>1. Ask.id = "request_chunk_radius" /\ Settings(TRUE).id = "request_network_settings"
  BY DEF Ask, Settings
<1>2. QED
  BY <1>1

\* What is not handled is neither lost nor ended by what comes behind it.
LEMMA StillToHandle ==
  ASSUME NEW a, NEW packet, IsToHandle(a, packet),
         batch' = batch, sender' = sender, Pending(a)' <=> Pending(a),
         \A n : Fresh(a, n, packet) => Fresh(a, n, packet)'
  PROVE  IsToHandle(a, packet)'
<1>1. InBatch(a, packet) => InBatch(a, packet)'
  BY DEF InBatch
<1>2. IsToHandle(a, packet)' <=> InBatch(a, packet)' \/ \E n : Fresh(a, n, packet)'
  BY DEF IsToHandle, InBatch, Fresh, Pending
<1>3. QED
  BY <1>1, <1>2, ToHandleIs

\* A client says something and waits for something.
Speaks(a, p, w) ==
  /\ main_to_threaded' = Append(main_to_threaded, Message(a, <<p>>))
  /\ client' = [client EXCEPT ![a] = w]
  /\ players' = players /\ batch' = batch /\ sender' = sender
  /\ w \in Stages => client[a] \in Stages \/ p = Settings(TRUE)
  /\ w \in {"player_spawn", "playing"} => client[a] \in {"player_spawn", "playing"} \/ p = Ask
  /\ p = Settings(TRUE) => client[a] = "away"

LEMMA SpeakingKeeps ==
  ASSUME SessionsInv, NEW a \in Addresses, NEW p \in Packets, NEW w \in Waits \ {"away"}, Speaks(a, p, w)
  PROVE  SessionsInv'
<1>1. /\ QueueHolds /\ AwayIsOver /\ StagesAreKnown /\ AskersSpawn /\ SettingsFirst
      /\ players' = players /\ batch' = batch /\ sender' = sender
      /\ main_to_threaded' = Append(main_to_threaded, Message(a, <<p>>))
      /\ client' = [client EXCEPT ![a] = w] /\ client \in [Addresses -> Waits]
      /\ main_to_threaded \in Seq(Messages)
  BY DEF SessionsInv, Speaks, QueueHolds
<1>2. client'[a] = w /\ w # "away" /\ \A b \in Addresses : b # a => client'[b] = client[b]
  BY <1>1
<1>3. /\ main_to_threaded' \in Seq(Messages)
      /\ \A b : Pending(b)' <=> Pending(b)
      /\ \A b, n, q : Fresh(b, n, q) => Fresh(b, n, q)' /\ n \in Nat /\ n <= Len(main_to_threaded)
      /\ \A b, n, q : Fresh(b, n, q)' =>
           Fresh(b, n, q) \/ (n = Len(main_to_threaded) + 1 /\ b = a /\ q = p)
      /\ \E n : Fresh(a, n, p)'
  BY <1>1, SayingIs
<1>4. /\ \A b : has_minecraft_player_address(b)' <=> has_minecraft_player_address(b)
      /\ \A b : IsPlaying(b)' <=> IsPlaying(b)
  BY <1>1 DEF has_minecraft_player_address, IsPlaying
<1>5. \A b, q : IsToHandle(b, q) => IsToHandle(b, q)'
  BY <1>1, <1>3, StillToHandle
<1>6. IsToHandle(a, p)'
  BY <1>3 DEF IsToHandle, Fresh
<1>7. QueueHolds'
  <2>1. batch' = <<>> \/ \E r \in Packets : batch' = <<r>>
    BY <1>1 DEF QueueHolds
  <2>2. client' \in [Addresses -> Waits]
    BY <1>1
  <2>3. QED
    BY <1>3, <2>1, <2>2 DEF QueueHolds
<1>8. AwayIsOver'
  <2> SUFFICES ASSUME NEW b \in Addresses, client'[b] = "away"
               PROVE  /\ \A n \in DOMAIN main_to_threaded' : main_to_threaded'[n].address = b =>
                           \E k \in DOMAIN main_to_threaded' : k >= n /\ main_to_threaded'[k] = Gone(b)
                      /\ batch' # <<>> /\ sender' = b => Pending(b)'
                      /\ has_minecraft_player_address(b)' => Pending(b)'
    BY Zenon DEF AwayIsOver
  <2>1. b # a /\ client[b] = "away"
    BY <1>2
  <2>2. ASSUME NEW n \in DOMAIN main_to_threaded', main_to_threaded'[n].address = b
        PROVE  \E k \in DOMAIN main_to_threaded' : k >= n /\ main_to_threaded'[k] = Gone(b)
    <3>1. Message(a, <<p>>) \in Messages /\ Message(a, <<p>>).address = a
      BY MessagesAre DEF Messages, Message
    <3>2. /\ DOMAIN main_to_threaded' = DOMAIN main_to_threaded \cup {Len(main_to_threaded) + 1}
          /\ \A k \in DOMAIN main_to_threaded : main_to_threaded'[k] = main_to_threaded[k]
          /\ main_to_threaded'[Len(main_to_threaded) + 1] = Message(a, <<p>>)
      BY <1>1, <3>1, AppendIs
    <3>3. n \in DOMAIN main_to_threaded /\ main_to_threaded[n].address = b
      BY <2>1, <2>2, <3>1, <3>2
    <3>4. QED
      BY <1>1, <2>1, <3>2, <3>3 DEF AwayIsOver
  <2>3. QED
    BY <1>1, <1>3, <1>4, <2>1, <2>2 DEF AwayIsOver
<1>9. StagesAreKnown'
  <2> SUFFICES ASSUME NEW b \in Addresses, client'[b] \in Stages
               PROVE  IsToHandle(b, Settings(TRUE))' \/ (has_minecraft_player_address(b)' /\ ~Pending(b)')
    BY DEF StagesAreKnown
  <2>1. CASE b = a /\ p = Settings(TRUE)
    BY <1>6, <2>1
  <2>2. CASE client[b] \in Stages
    BY <1>1, <1>3, <1>4, <1>5, <2>2 DEF StagesAreKnown
  <2>3. QED
    BY <1>2, <2>1, <2>2 DEF Speaks
<1>10. AskersSpawn'
  <2> SUFFICES ASSUME NEW b \in Addresses, client'[b] \in {"player_spawn", "playing"}
               PROVE  IsToHandle(b, Ask)' \/ (IsPlaying(b)' /\ ~Pending(b)')
    BY DEF AskersSpawn
  <2>1. CASE b = a /\ p = Ask
    BY <1>6, <2>1
  <2>2. CASE client[b] \in {"player_spawn", "playing"}
    BY <1>1, <1>3, <1>4, <1>5, <2>2 DEF AskersSpawn
  <2>3. QED
    BY <1>2, <2>1, <2>2 DEF Speaks
<1>11. SettingsFirst'
  <2> SUFFICES ASSUME NEW b \in Addresses, NEW n, Fresh(b, n, Settings(TRUE))'
               PROVE  ~InBatch(b, Ask)' /\ \A m : Fresh(b, m, Ask)' => n < m
    BY DEF SettingsFirst
  <2>1. InBatch(b, Ask)' <=> InBatch(b, Ask)
    BY <1>1, <1>3 DEF InBatch
  <2>2. CASE Fresh(b, n, Settings(TRUE))
    <3>1. ~InBatch(b, Ask) /\ \A m : Fresh(b, m, Ask) => n < m
      BY <1>1, <2>2 DEF SettingsFirst, Fresh
    <3>2. n \in Nat /\ n <= Len(main_to_threaded) /\ Len(main_to_threaded) \in Nat
      <4>1. n \in Nat /\ n <= Len(main_to_threaded)
        BY <1>3, <2>2, Zenon
      <4>2. Len(main_to_threaded) \in Nat
        BY <1>1
      <4>3. QED
        BY <4>1, <4>2
    <3>3. n < Len(main_to_threaded) + 1
      BY <3>2
    <3>4. QED
      BY <1>3, <2>1, <3>1, <3>3
  <2>3. CASE b = a /\ Settings(TRUE) = p
    <3>1. client[a] = "away"
      BY <2>3 DEF Speaks
    <3>2. ~InBatch(a, Ask)
      <4>1. <<Ask>> # <<>>
        BY MessagesAre
      <4>2. QED
        BY <1>1, <3>1, <4>1 DEF AwayIsOver, InBatch
    <3>3. ASSUME NEW m, Fresh(a, m, Ask) PROVE FALSE
      <4>1. /\ m \in DOMAIN main_to_threaded /\ main_to_threaded[m] = Message(a, <<Ask>>)
            /\ \A k \in DOMAIN main_to_threaded : k > m => main_to_threaded[k] # Gone(a)
            /\ main_to_threaded[m].address = a
        BY <3>3, MessagesAre DEF Fresh
      <4>2. PICK k \in DOMAIN main_to_threaded : k >= m /\ main_to_threaded[k] = Gone(a)
        BY <1>1, <3>1, <4>1 DEF AwayIsOver
      <4>3. k # m
        BY <4>1, <4>2, MessagesAre
      <4>4. k \in Nat /\ m \in Nat
        BY <1>1, <4>1
      <4>5. QED
        BY <4>1, <4>2, <4>3, <4>4
    <3>4. \A m : ~Fresh(a, m, Ask)'
      <4> SUFFICES ASSUME NEW m, Fresh(a, m, Ask)' PROVE FALSE
        OBVIOUS
      <4>1. Fresh(a, m, Ask) \/ Ask = p
        BY <1>3
      <4>2. QED
        BY <2>3, <3>3, <4>1, AskIsNotSettings
    <3>5. ~InBatch(b, Ask)'
      BY <2>1, <2>3, <3>2
    <3>6. QED
      BY <2>3, <3>4, <3>5
  <2>4. Fresh(b, n, Settings(TRUE)) \/ (b = a /\ Settings(TRUE) = p)
    <3>1. \A q : Fresh(b, n, q)' => Fresh(b, n, q) \/ (b = a /\ q = p)
      BY <1>3
    <3>2. Fresh(b, n, Settings(TRUE))'
      OBVIOUS
    <3>3. QED
      BY <3>1, <3>2
  <2>5. QED
    BY <2>2, <2>3, <2>4
<1>12. QED
  BY <1>7, <1>8, <1>9, <1>10, <1>11 DEF SessionsInv

Leaves(a) ==
  /\ main_to_threaded' = Append(main_to_threaded, Gone(a))
  /\ client' = [client EXCEPT ![a] = "away"]
  /\ players' = players /\ batch' = batch /\ sender' = sender

LEMMA LeavingKeeps ==
  ASSUME SessionsInv, NEW a \in Addresses, Leaves(a)
  PROVE  SessionsInv'
<1>1. /\ QueueHolds /\ AwayIsOver /\ StagesAreKnown /\ AskersSpawn /\ SettingsFirst
      /\ players' = players /\ batch' = batch /\ sender' = sender
      /\ main_to_threaded' = Append(main_to_threaded, Gone(a))
      /\ client' = [client EXCEPT ![a] = "away"] /\ client \in [Addresses -> Waits]
      /\ main_to_threaded \in Seq(Messages)
  BY DEF SessionsInv, Leaves, QueueHolds
<1>2. client'[a] = "away" /\ \A b \in Addresses : b # a => client'[b] = client[b]
  BY <1>1
<1>3. /\ main_to_threaded' \in Seq(Messages)
      /\ \E n \in DOMAIN main_to_threaded' :
           main_to_threaded'[n] = Gone(a) /\ \A k \in DOMAIN main_to_threaded' : k <= n
      /\ Pending(a)'
      /\ \A b : b # a => (Pending(b)' <=> Pending(b))
      /\ \A b, n, q : Fresh(b, n, q)' => b # a
      /\ \A b, n, q : b # a => (Fresh(b, n, q)' <=> Fresh(b, n, q))
  BY <1>1, LeavingIs
<1>4. /\ \A b : has_minecraft_player_address(b)' <=> has_minecraft_player_address(b)
      /\ \A b : IsPlaying(b)' <=> IsPlaying(b)
  BY <1>1 DEF has_minecraft_player_address, IsPlaying
<1>5. ASSUME NEW b, NEW q, b # a, IsToHandle(b, q) PROVE IsToHandle(b, q)'
  <2>1. Pending(b)' <=> Pending(b)
    BY <1>3, <1>5
  <2>2. \A n : Fresh(b, n, q) => Fresh(b, n, q)'
    BY <1>3, <1>5
  <2>3. QED
    BY <1>1, <1>5, <2>1, <2>2, StillToHandle
<1>6. QueueHolds'
  <2>1. batch' = <<>> \/ \E r \in Packets : batch' = <<r>>
    BY <1>1 DEF QueueHolds
  <2>2. client' \in [Addresses -> Waits]
    BY <1>1 DEF Waits
  <2>3. QED
    BY <1>3, <2>1, <2>2 DEF QueueHolds
<1>7. AwayIsOver'
  <2> SUFFICES ASSUME NEW b \in Addresses, client'[b] = "away"
               PROVE  /\ \A n \in DOMAIN main_to_threaded' : main_to_threaded'[n].address = b =>
                           \E k \in DOMAIN main_to_threaded' : k >= n /\ main_to_threaded'[k] = Gone(b)
                      /\ batch' # <<>> /\ sender' = b => Pending(b)'
                      /\ has_minecraft_player_address(b)' => Pending(b)'
    BY Zenon DEF AwayIsOver
  <2>1. CASE b = a
    <3>1. \A n \in DOMAIN main_to_threaded' : \E k \in DOMAIN main_to_threaded' : k >= n /\ main_to_threaded'[k] = Gone(a)
      <4>1. PICK last \in DOMAIN main_to_threaded' :
              main_to_threaded'[last] = Gone(a) /\ \A k \in DOMAIN main_to_threaded' : k <= last
        BY <1>3
      <4>2. \A n \in DOMAIN main_to_threaded' : n \in Nat
        BY <1>3
      <4>3. \A n \in DOMAIN main_to_threaded' : last >= n
        BY <4>1, <4>2
      <4>4. QED
        BY <4>1, <4>3
    <3>2. Pending(b)'
      BY <1>3, <2>1
    <3>3. QED
      BY <2>1, <3>1, <3>2
  <2>2. CASE b # a
    <3>1. client[b] = "away" /\ (Pending(b)' <=> Pending(b))
      BY <1>2, <1>3, <2>2
    <3>2. ASSUME NEW n \in DOMAIN main_to_threaded', main_to_threaded'[n].address = b
          PROVE  \E k \in DOMAIN main_to_threaded' : k >= n /\ main_to_threaded'[k] = Gone(b)
      <4>1. Gone(a) \in Messages /\ Gone(a).address = a
        BY MessagesAre DEF Messages, Message, Gone
      <4>2. /\ DOMAIN main_to_threaded' = DOMAIN main_to_threaded \cup {Len(main_to_threaded) + 1}
            /\ \A k \in DOMAIN main_to_threaded : main_to_threaded'[k] = main_to_threaded[k]
            /\ main_to_threaded'[Len(main_to_threaded) + 1] = Gone(a)
        BY <1>1, <4>1, AppendIs
      <4>3. n \in DOMAIN main_to_threaded /\ main_to_threaded[n].address = b
        BY <2>2, <3>2, <4>1, <4>2
      <4>4. QED
        BY <1>1, <3>1, <4>2, <4>3 DEF AwayIsOver
    <3>3. QED
      BY <1>1, <1>4, <3>1, <3>2 DEF AwayIsOver
  <2>3. QED
    BY <2>1, <2>2
<1>8. StagesAreKnown'
  <2> SUFFICES ASSUME NEW b \in Addresses, client'[b] \in Stages
               PROVE  IsToHandle(b, Settings(TRUE))' \/ (has_minecraft_player_address(b)' /\ ~Pending(b)')
    BY DEF StagesAreKnown
  <2>1. b # a /\ client[b] \in Stages
    BY <1>2, StagesAre
  <2>2. QED
    BY <1>1, <1>3, <1>4, <1>5, <2>1 DEF StagesAreKnown
<1>9. AskersSpawn'
  <2> SUFFICES ASSUME NEW b \in Addresses, client'[b] \in {"player_spawn", "playing"}
               PROVE  IsToHandle(b, Ask)' \/ (IsPlaying(b)' /\ ~Pending(b)')
    BY DEF AskersSpawn
  <2>1. b # a /\ client[b] \in {"player_spawn", "playing"}
    BY <1>2
  <2>2. QED
    BY <1>1, <1>3, <1>4, <1>5, <2>1 DEF AskersSpawn
<1>10. SettingsFirst'
  <2> SUFFICES ASSUME NEW b \in Addresses, NEW n, Fresh(b, n, Settings(TRUE))'
               PROVE  ~InBatch(b, Ask)' /\ \A m : Fresh(b, m, Ask)' => n < m
    BY DEF SettingsFirst
  <2>1. \A q : Fresh(b, n, q)' => b # a
    BY <1>3
  <2>2. b # a
    BY <2>1
  <2>3. \A m, q : Fresh(b, m, q)' <=> Fresh(b, m, q)
    BY <1>3, <2>2
  <2>4. InBatch(b, Ask)' <=> InBatch(b, Ask)
    BY <1>1, <1>3, <2>2 DEF InBatch
  <2>5. Fresh(b, n, Settings(TRUE))
    BY <2>3
  <2>6. ~InBatch(b, Ask) /\ \A m : Fresh(b, m, Ask) => n < m
    BY <1>1, <2>5 DEF SettingsFirst, Fresh
  <2>7. QED
    BY <2>3, <2>4, <2>6
<1>11. QED
  BY <1>6, <1>7, <1>8, <1>9, <1>10 DEF SessionsInv

LEMMA WaitingKeeps ==
  ASSUME SessionsInv, NEW a \in Addresses, client[a] = "player_spawn",
         client' = [client EXCEPT ![a] = "playing"],
         players' = players, batch' = batch, sender' = sender, main_to_threaded' = main_to_threaded
  PROVE  SessionsInv'
<1>1. client \in [Addresses -> Waits]
  BY DEF SessionsInv, QueueHolds
<1>2. /\ client' \in [Addresses -> Waits]
      /\ \A b \in Addresses : /\ client'[b] = "away" => client[b] = "away"
                              /\ client'[b] \in Stages => client[b] \in Stages
                              /\ client'[b] \in {"player_spawn", "playing"} => client[b] \in {"player_spawn", "playing"}
  BY <1>1, StagesAre DEF Waits
<1>3. /\ \A b : Pending(b)' <=> Pending(b)
      /\ \A b, n, q : Fresh(b, n, q)' <=> Fresh(b, n, q)
      /\ \A b, q : IsToHandle(b, q)' <=> IsToHandle(b, q)
      /\ \A b, q : InBatch(b, q)' <=> InBatch(b, q)
      /\ \A b : has_minecraft_player_address(b)' <=> has_minecraft_player_address(b)
      /\ \A b : IsPlaying(b)' <=> IsPlaying(b)
  BY DEF Pending, Fresh, IsToHandle, InBatch, has_minecraft_player_address, IsPlaying
<1>4. QueueHolds' /\ SettingsFirst'
  BY <1>2 DEF SessionsInv, QueueHolds, SettingsFirst, InBatch, Fresh, Pending
<1>5. AwayIsOver'
  BY <1>2, <1>3 DEF SessionsInv, AwayIsOver
<1>6. StagesAreKnown'
  BY <1>2, <1>3 DEF SessionsInv, StagesAreKnown
<1>7. AskersSpawn'
  BY <1>2, <1>3 DEF SessionsInv, AskersSpawn
<1>8. QED
  BY <1>4, <1>5, <1>6, <1>7 DEF SessionsInv

LEMMA NothingKeeps ==
  ASSUME SessionsInv, client' = client, players' = players, batch' = batch, sender' = sender,
         main_to_threaded' = main_to_threaded
  PROVE  SessionsInv'
<1>1. QueueHolds'
  BY DEF SessionsInv, QueueHolds
<1>2. AwayIsOver'
  BY DEF SessionsInv, AwayIsOver, Pending, has_minecraft_player_address
<1>3. StagesAreKnown'
  BY DEF SessionsInv, StagesAreKnown, IsToHandle, Pending, has_minecraft_player_address
<1>4. AskersSpawn'
  BY DEF SessionsInv, AskersSpawn, IsToHandle, Pending, IsPlaying
<1>5. SettingsFirst'
  BY DEF SessionsInv, SettingsFirst, InBatch, Fresh, Pending
<1>6. QED
  BY <1>1, <1>2, <1>3, <1>4, <1>5 DEF SessionsInv

LEMMA PlayersKept ==
  ASSUME TypeOK, TableIsSound, NEW a, remove_minecraft_player(a)
  PROVE  /\ ~has_minecraft_player_address(a)'
         /\ \A b : b # a => (has_minecraft_player_address(b)' <=> has_minecraft_player_address(b))
<1>1. CASE players' = players /\ ~has_minecraft_player_address(a)
  BY <1>1 DEF has_minecraft_player_address
<1>2. ASSUME NEW gone, Removed(gone), players[gone].address = a
      PROVE  /\ ~has_minecraft_player_address(a)'
             /\ \A b : b # a => (has_minecraft_player_address(b)' <=> has_minecraft_player_address(b))
  <2>1. /\ \A j \in DOMAIN players' : \E k \in DOMAIN players \ {gone} : players'[j] = players[k]
        /\ \A k \in DOMAIN players \ {gone} : \E j \in DOMAIN players' : players'[j] = players[k]
        /\ gone \in DOMAIN players
    BY <1>2, RemovedIs DEF TypeOK, Removed
  <2>2. \A k \in DOMAIN players \ {gone} : players[k].address # a
    BY <1>2, <2>1 DEF TableIsSound
  <2>3. QED
    BY <1>2, <2>1, <2>2 DEF has_minecraft_player_address
<1>3. QED
  BY <1>1, <1>2, LeavingRemoves


LEMMA TailKeepsGone ==
  ASSUME main_to_threaded \in Seq(Messages), main_to_threaded # <<>>,
         main_to_threaded' = Tail(main_to_threaded), NEW b,
         \A n \in DOMAIN main_to_threaded : main_to_threaded[n].address = b =>
           \E k \in DOMAIN main_to_threaded : k >= n /\ main_to_threaded[k] = Gone(b)
  PROVE  \A n \in DOMAIN main_to_threaded' : main_to_threaded'[n].address = b =>
           \E k \in DOMAIN main_to_threaded' : k >= n /\ main_to_threaded'[k] = Gone(b)
<1> DEFINE s == main_to_threaded
<1>1. /\ \A k \in DOMAIN s' : k \in Nat /\ k > 0 /\ k + 1 \in DOMAIN s /\ s'[k] = s[k + 1]
      /\ \A k \in DOMAIN s : k \in Nat /\ (k = 1 \/ (k > 1 /\ k - 1 \in DOMAIN s' /\ s'[k - 1] = s[k]))
  BY TailIs
<1>2. ASSUME NEW n \in DOMAIN s', s'[n].address = b
      PROVE  \E k \in DOMAIN s' : k >= n /\ s'[k] = Gone(b)
  <2>1. n \in Nat /\ n > 0 /\ n + 1 \in DOMAIN s /\ s[n + 1].address = b
    BY <1>1, <1>2
  <2>2. PICK k \in DOMAIN s : k >= n + 1 /\ s[k] = Gone(b)
    BY <2>1
  <2>3. k \in Nat /\ k - 1 \in DOMAIN s' /\ s'[k - 1] = Gone(b)
    BY <1>1, <2>1, <2>2
  <2>4. k - 1 >= n
    BY <2>1, <2>2, <2>3
  <2>5. QED
    BY <2>3, <2>4
<1>3. QED
  BY <1>2

LEMMA TakingOrders ==
  ASSUME QueueHolds, Take, SettingsFirst, NEW b \in Addresses, NEW n, Fresh(b, n, Settings(TRUE))',
         NEW m, Fresh(b, m, Ask)'
  PROVE  n < m
<1>1. \A q, k : Fresh(b, k, q)' => k \in Nat /\ k > 0 /\ Fresh(b, k + 1, q)
  BY TakingIs
<1>2. n \in Nat /\ Fresh(b, n + 1, Settings(TRUE)) /\ m \in Nat /\ Fresh(b, m + 1, Ask)
  BY <1>1
<1>3. n + 1 \in DOMAIN main_to_threaded /\ m + 1 \in DOMAIN main_to_threaded
  BY <1>2 DEF Fresh
<1>4. n + 1 < m + 1
  BY <1>2, <1>3 DEF SettingsFirst
<1>5. QED
  BY <1>2, <1>4

\* The head of the queue is in it and gone from what remains.
LEMMA HeadIs ==
  ASSUME QueueHolds, Take
  PROVE  /\ main_to_threaded \in Seq(Messages) /\ main_to_threaded # <<>>
         /\ main_to_threaded' = Tail(main_to_threaded)
         /\ Head(main_to_threaded) \in Messages /\ Head(main_to_threaded).address \in Addresses
         /\ 1 \in DOMAIN main_to_threaded /\ main_to_threaded[1] = Head(main_to_threaded)
         /\ \A k \in DOMAIN main_to_threaded : k = 1 \/ k > 1
<1>1. main_to_threaded \in Seq(Messages) /\ main_to_threaded # <<>>
      /\ main_to_threaded' = Tail(main_to_threaded)
  BY DEF QueueHolds, Take
<1>2. QED
  BY <1>1, TailIs, MessageIs

\* The end of a session, which its client has already left.
LEMMA TakingGoneKeeps ==
  ASSUME TypeOK, TableIsSound, SessionsInv, Take, NEW from \in Addresses,
         Head(main_to_threaded) = Gone(from), remove_minecraft_player(from),
         client' = client, batch' = batch, sender' = sender
  PROVE  SessionsInv'
<1> DEFINE head == Head(main_to_threaded)
<1>1. /\ QueueHolds /\ AwayIsOver /\ StagesAreKnown /\ AskersSpawn /\ SettingsFirst
      /\ Take /\ client' = client /\ batch' = <<>> /\ batch = <<>> /\ head = Gone(from)
  BY DEF SessionsInv, Take
<1>2. /\ \A b : Pending(b)' => Pending(b)
      /\ \A b : Pending(b) => Pending(b)' \/ head = Gone(b)
      /\ \A b, n, q : Fresh(b, n, q) =>
           \/ n = 1 /\ head = Message(b, <<q>>) /\ ~Pending(b)'
           \/ n > 1 /\ Fresh(b, n - 1, q)'
      /\ main_to_threaded' \in Seq(Messages)
  BY <1>1, TakingIs
<1>3. /\ main_to_threaded \in Seq(Messages) /\ main_to_threaded # <<>>
      /\ main_to_threaded' = Tail(main_to_threaded) /\ head \in Messages
      /\ 1 \in DOMAIN main_to_threaded /\ main_to_threaded[1] = head
      /\ \A k \in DOMAIN main_to_threaded : k = 1 \/ k > 1
  BY <1>1, HeadIs
<1> HIDE DEF head
<1>4. /\ ~has_minecraft_player_address(from)' /\ ~IsPlaying(from)'
      /\ \A b : b # from => (has_minecraft_player_address(b)' <=> has_minecraft_player_address(b))
      /\ \A b : b # from => (IsPlaying(b)' <=> IsPlaying(b))
  BY PlayersKept, PlayingEnds
<1>5. /\ Pending(from)
      /\ \A b : b # from => (Pending(b)' <=> Pending(b))
  <2>1. \A b : b # from => Gone(from) # Gone(b)
    BY MessagesAre
  <2>2. Pending(from)
    BY <1>1, <1>3 DEF Pending
  <2>3. QED
    BY <1>1, <1>2, <2>1, <2>2
<1>6. ASSUME NEW b, NEW q, IsToHandle(b, q) PROVE IsToHandle(b, q)'
  <2>1. ~InBatch(b, q)
    BY <1>1, MessagesAre DEF InBatch
  <2>2. PICK n : Fresh(b, n, q)
    BY <1>6, <2>1, ToHandleIs
  <2>3. head # Message(b, <<q>>)
    BY <1>1, MessagesAre
  <2>4. Fresh(b, n - 1, q)'
    BY <1>2, <2>2, <2>3
  <2>5. QED
    BY <2>4 DEF IsToHandle, Fresh
<1>7. QueueHolds'
  BY <1>1, <1>2 DEF QueueHolds
<1>8. AwayIsOver'
  <2> SUFFICES ASSUME NEW b \in Addresses, client[b] = "away"
               PROVE  /\ \A n \in DOMAIN main_to_threaded' : main_to_threaded'[n].address = b =>
                           \E k \in DOMAIN main_to_threaded' : k >= n /\ main_to_threaded'[k] = Gone(b)
                      /\ batch' # <<>> /\ sender' = b => Pending(b)'
                      /\ has_minecraft_player_address(b)' => Pending(b)'
    BY <1>1, Zenon DEF AwayIsOver
  <2>1. \A n \in DOMAIN main_to_threaded : main_to_threaded[n].address = b =>
          \E k \in DOMAIN main_to_threaded : k >= n /\ main_to_threaded[k] = Gone(b)
    BY <1>1 DEF AwayIsOver
  <2>2. \A n \in DOMAIN main_to_threaded' : main_to_threaded'[n].address = b =>
          \E k \in DOMAIN main_to_threaded' : k >= n /\ main_to_threaded'[k] = Gone(b)
    BY <1>3, <2>1, TailKeepsGone
  <2>3. has_minecraft_player_address(b)' => Pending(b)'
    BY <1>1, <1>4, <1>5 DEF AwayIsOver
  <2>4. QED
    BY <1>1, <2>2, <2>3
<1>9. StagesAreKnown'
  <2> SUFFICES ASSUME NEW b \in Addresses, client[b] \in Stages
               PROVE  IsToHandle(b, Settings(TRUE))' \/ (has_minecraft_player_address(b)' /\ ~Pending(b)')
    BY <1>1 DEF StagesAreKnown
  <2>1. CASE IsToHandle(b, Settings(TRUE))
    BY <1>6, <2>1
  <2>2. CASE has_minecraft_player_address(b) /\ ~Pending(b)
    BY <1>4, <1>5, <2>2
  <2>3. QED
    BY <1>1, <2>1, <2>2 DEF StagesAreKnown
<1>10. AskersSpawn'
  <2> SUFFICES ASSUME NEW b \in Addresses, client[b] \in {"player_spawn", "playing"}
               PROVE  IsToHandle(b, Ask)' \/ (IsPlaying(b)' /\ ~Pending(b)')
    BY <1>1 DEF AskersSpawn
  <2>1. CASE IsToHandle(b, Ask)
    BY <1>6, <2>1
  <2>2. CASE IsPlaying(b) /\ ~Pending(b)
    BY <1>4, <1>5, <2>2
  <2>3. QED
    BY <1>1, <2>1, <2>2 DEF AskersSpawn
<1>11. SettingsFirst'
  <2>1. \A b : ~InBatch(b, Ask)'
    BY <1>1, MessagesAre DEF InBatch
  <2>2. QED
    BY <1>1, <2>1, TakingOrders DEF SettingsFirst
<1>12. QED
  BY <1>7, <1>8, <1>9, <1>10, <1>11 DEF SessionsInv

\* A packet goes into the batch.
LEMMA TakingFrameKeeps ==
  ASSUME SessionsInv, Take, NEW from \in Addresses, NEW p \in Packets,
         Head(main_to_threaded) = Message(from, <<p>>), batch' = <<p>>, sender' = from,
         players' = players, client' = client
  PROVE  SessionsInv'
<1> DEFINE head == Head(main_to_threaded)
<1>1. /\ QueueHolds /\ AwayIsOver /\ StagesAreKnown /\ AskersSpawn /\ SettingsFirst
      /\ Take /\ client' = client /\ batch = <<>> /\ head = Message(from, <<p>>)
  BY DEF SessionsInv, Take
<1>2. /\ \A b : Pending(b)' => Pending(b)
      /\ \A b : Pending(b) => Pending(b)' \/ head = Gone(b)
      /\ \A b, n, q : Fresh(b, n, q) =>
           \/ n = 1 /\ head = Message(b, <<q>>) /\ ~Pending(b)'
           \/ n > 1 /\ Fresh(b, n - 1, q)'
      /\ main_to_threaded' \in Seq(Messages)
  BY <1>1, TakingIs
<1>3. /\ main_to_threaded \in Seq(Messages) /\ main_to_threaded # <<>>
      /\ main_to_threaded' = Tail(main_to_threaded) /\ head \in Messages
      /\ 1 \in DOMAIN main_to_threaded /\ main_to_threaded[1] = head
      /\ \A k \in DOMAIN main_to_threaded : k = 1 \/ k > 1
  BY <1>1, HeadIs
<1> HIDE DEF head
<1>4. /\ \A b : has_minecraft_player_address(b)' <=> has_minecraft_player_address(b)
      /\ \A b : IsPlaying(b)' <=> IsPlaying(b)
  BY DEF has_minecraft_player_address, IsPlaying
<1>5. \A b : Pending(b)' <=> Pending(b)
  BY <1>1, <1>2, MessagesAre
<1>6. ASSUME NEW b, NEW q, IsToHandle(b, q) PROVE IsToHandle(b, q)'
  <2>1. ~InBatch(b, q)
    BY <1>1, MessagesAre DEF InBatch
  <2>2. PICK n : Fresh(b, n, q)
    BY <1>6, <2>1, ToHandleIs
  <2>3. CASE n = 1 /\ head = Message(b, <<q>>) /\ ~Pending(b)'
    <3>1. b = from /\ q = p
      <4>1. Message(b, <<q>>) = Message(from, <<p>>)
        BY <1>1, <2>3
      <4>2. QED
        BY <4>1, SameMessage
    <3>2. batch' = <<q>> /\ sender' = b
      BY <3>1
    <3>3. QED
      BY <2>3, <3>2 DEF IsToHandle, Pending
  <2>4. CASE Fresh(b, n - 1, q)'
    BY <2>4 DEF IsToHandle, Fresh
  <2>5. QED
    BY <1>2, <2>2, <2>3, <2>4
<1>7. QueueHolds'
  BY <1>1, <1>2 DEF QueueHolds
<1>8. AwayIsOver'
  <2> SUFFICES ASSUME NEW b \in Addresses, client[b] = "away"
               PROVE  /\ \A n \in DOMAIN main_to_threaded' : main_to_threaded'[n].address = b =>
                           \E k \in DOMAIN main_to_threaded' : k >= n /\ main_to_threaded'[k] = Gone(b)
                      /\ batch' # <<>> /\ sender' = b => Pending(b)'
                      /\ has_minecraft_player_address(b)' => Pending(b)'
    BY <1>1, Zenon DEF AwayIsOver
  <2>1. \A n \in DOMAIN main_to_threaded : main_to_threaded[n].address = b =>
          \E k \in DOMAIN main_to_threaded : k >= n /\ main_to_threaded[k] = Gone(b)
    BY <1>1 DEF AwayIsOver
  <2>2. \A n \in DOMAIN main_to_threaded' : main_to_threaded'[n].address = b =>
          \E k \in DOMAIN main_to_threaded' : k >= n /\ main_to_threaded'[k] = Gone(b)
    BY <1>3, <2>1, TailKeepsGone
  <2>3. has_minecraft_player_address(b)' => Pending(b)'
    BY <1>1, <1>4, <1>5 DEF AwayIsOver
  <2>4. ASSUME from = b PROVE Pending(b)'
    <3>1. head.address = b
      BY <1>1, <2>4, MessagesAre
    <3>2. Pending(b)
      BY <1>3, <2>1, <3>1 DEF Pending
    <3>3. QED
      BY <1>5, <3>2
  <2>5. QED
    BY <2>2, <2>3, <2>4
<1>9. StagesAreKnown'
  <2> SUFFICES ASSUME NEW b \in Addresses, client[b] \in Stages
               PROVE  IsToHandle(b, Settings(TRUE))' \/ (has_minecraft_player_address(b)' /\ ~Pending(b)')
    BY <1>1 DEF StagesAreKnown
  <2>1. CASE IsToHandle(b, Settings(TRUE))
    BY <1>6, <2>1
  <2>2. CASE has_minecraft_player_address(b) /\ ~Pending(b)
    BY <1>4, <1>5, <2>2
  <2>3. QED
    BY <1>1, <2>1, <2>2 DEF StagesAreKnown
<1>10. AskersSpawn'
  <2> SUFFICES ASSUME NEW b \in Addresses, client[b] \in {"player_spawn", "playing"}
               PROVE  IsToHandle(b, Ask)' \/ (IsPlaying(b)' /\ ~Pending(b)')
    BY <1>1 DEF AskersSpawn
  <2>1. CASE IsToHandle(b, Ask)
    BY <1>6, <2>1
  <2>2. CASE IsPlaying(b) /\ ~Pending(b)
    BY <1>4, <1>5, <2>2
  <2>3. QED
    BY <1>1, <2>1, <2>2 DEF AskersSpawn
<1>11. SettingsFirst'
  <2> SUFFICES ASSUME NEW b \in Addresses, NEW n, Fresh(b, n, Settings(TRUE))'
               PROVE  ~InBatch(b, Ask)' /\ \A m : Fresh(b, m, Ask)' => n < m
    BY DEF SettingsFirst
  <2>1. \A m : Fresh(b, m, Ask)' => n < m
    BY <1>1, TakingOrders
  <2>2. ASSUME InBatch(b, Ask)' PROVE FALSE
    <3>1. <<p>> = <<Ask>> /\ from = b /\ ~Pending(b)'
      BY <2>2 DEF InBatch
    <3>2. p = Ask
      BY <3>1
    <3>3. Fresh(b, 1, Ask)
      BY <1>1, <1>3, <1>5, <3>1, <3>2 DEF Fresh, Pending
    <3>4. \A q : Fresh(b, n, q)' => n \in Nat /\ n > 0 /\ Fresh(b, n + 1, q)
      BY <1>1, TakingIs
    <3>5. n \in Nat /\ Fresh(b, n + 1, Settings(TRUE))
      BY <3>4
    <3>6. n + 1 < 1
      BY <1>1, <3>3, <3>5 DEF SettingsFirst, Fresh
    <3>7. QED
      BY <3>5, <3>6
  <2>3. QED
    BY <2>1, <2>2
<1>12. QED
  BY <1>7, <1>8, <1>9, <1>10, <1>11 DEF SessionsInv

\* A packet whose connection is not there any more is dropped.
LEMMA TakingOfGoneKeeps ==
  ASSUME SessionsInv, Take, NEW from \in Addresses, NEW p \in Packets,
         Head(main_to_threaded) = Message(from, <<p>>), client[from] = "away",
         batch' = batch, sender' = sender, players' = players, client' = client
  PROVE  SessionsInv'
<1> DEFINE head == Head(main_to_threaded)
<1>1. /\ QueueHolds /\ AwayIsOver /\ StagesAreKnown /\ AskersSpawn /\ SettingsFirst
      /\ Take /\ client' = client /\ batch' = <<>> /\ batch = <<>> /\ head = Message(from, <<p>>)
  BY DEF SessionsInv, Take
<1>2. /\ \A b : Pending(b)' => Pending(b)
      /\ \A b : Pending(b) => Pending(b)' \/ head = Gone(b)
      /\ \A b, n, q : Fresh(b, n, q) =>
           \/ n = 1 /\ head = Message(b, <<q>>) /\ ~Pending(b)'
           \/ n > 1 /\ Fresh(b, n - 1, q)'
      /\ main_to_threaded' \in Seq(Messages)
  BY <1>1, TakingIs
<1>3. /\ main_to_threaded \in Seq(Messages) /\ main_to_threaded # <<>>
      /\ main_to_threaded' = Tail(main_to_threaded) /\ head \in Messages
      /\ 1 \in DOMAIN main_to_threaded /\ main_to_threaded[1] = head
      /\ \A k \in DOMAIN main_to_threaded : k = 1 \/ k > 1
  BY <1>1, HeadIs
<1> HIDE DEF head
<1>4. /\ \A b : has_minecraft_player_address(b)' <=> has_minecraft_player_address(b)
      /\ \A b : IsPlaying(b)' <=> IsPlaying(b)
  BY DEF has_minecraft_player_address, IsPlaying
<1>5. \A b : Pending(b)' <=> Pending(b)
  BY <1>1, <1>2, MessagesAre
<1>6. ASSUME NEW b, NEW q, IsToHandle(b, q), client[b] # "away" PROVE IsToHandle(b, q)'
  <2>1. ~InBatch(b, q)
    BY <1>1, MessagesAre DEF InBatch
  <2>2. PICK n : Fresh(b, n, q)
    BY <1>6, <2>1, ToHandleIs
  <2>3. head # Message(b, <<q>>)
    BY <1>1, <1>6, MessagesAre
  <2>4. Fresh(b, n - 1, q)'
    BY <1>2, <2>2, <2>3
  <2>5. QED
    BY <2>4 DEF IsToHandle, Fresh
<1>7. QueueHolds'
  BY <1>1, <1>2 DEF QueueHolds
<1>8. AwayIsOver'
  <2> SUFFICES ASSUME NEW b \in Addresses, client[b] = "away"
               PROVE  /\ \A n \in DOMAIN main_to_threaded' : main_to_threaded'[n].address = b =>
                           \E k \in DOMAIN main_to_threaded' : k >= n /\ main_to_threaded'[k] = Gone(b)
                      /\ batch' # <<>> /\ sender' = b => Pending(b)'
                      /\ has_minecraft_player_address(b)' => Pending(b)'
    BY <1>1, Zenon DEF AwayIsOver
  <2>1. \A n \in DOMAIN main_to_threaded : main_to_threaded[n].address = b =>
          \E k \in DOMAIN main_to_threaded : k >= n /\ main_to_threaded[k] = Gone(b)
    BY <1>1 DEF AwayIsOver
  <2>2. \A n \in DOMAIN main_to_threaded' : main_to_threaded'[n].address = b =>
          \E k \in DOMAIN main_to_threaded' : k >= n /\ main_to_threaded'[k] = Gone(b)
    BY <1>3, <2>1, TailKeepsGone
  <2>3. has_minecraft_player_address(b)' => Pending(b)'
    BY <1>1, <1>4, <1>5 DEF AwayIsOver
  <2>4. QED
    BY <1>1, <2>2, <2>3
<1>9. StagesAreKnown'
  <2> SUFFICES ASSUME NEW b \in Addresses, client[b] \in Stages
               PROVE  IsToHandle(b, Settings(TRUE))' \/ (has_minecraft_player_address(b)' /\ ~Pending(b)')
    BY <1>1 DEF StagesAreKnown
  <2>1. CASE IsToHandle(b, Settings(TRUE))
    BY <1>6, StagesAre, <2>1
  <2>2. CASE has_minecraft_player_address(b) /\ ~Pending(b)
    BY <1>4, <1>5, <2>2
  <2>3. QED
    BY <1>1, <2>1, <2>2 DEF StagesAreKnown
<1>10. AskersSpawn'
  <2> SUFFICES ASSUME NEW b \in Addresses, client[b] \in {"player_spawn", "playing"}
               PROVE  IsToHandle(b, Ask)' \/ (IsPlaying(b)' /\ ~Pending(b)')
    BY <1>1 DEF AskersSpawn
  <2>1. CASE IsToHandle(b, Ask)
    BY <1>6, <2>1
  <2>2. CASE IsPlaying(b) /\ ~Pending(b)
    BY <1>4, <1>5, <2>2
  <2>3. QED
    BY <1>1, <2>1, <2>2 DEF AskersSpawn
<1>11. SettingsFirst'
  <2>1. \A b : ~InBatch(b, Ask)'
    BY <1>1, MessagesAre DEF InBatch
  <2>2. QED
    BY <1>1, <2>1, TakingOrders DEF SettingsFirst
<1>12. QED
  BY <1>7, <1>8, <1>9, <1>10, <1>11 DEF SessionsInv

\* A packet of the batch is handled.
LEMMA HandlingKeeps ==
  ASSUME TypeOK, TableIsSound, SessionsInv, on_f, client' = client, main_to_threaded' = main_to_threaded
  PROVE  SessionsInv'
<1>1. /\ QueueHolds /\ AwayIsOver /\ StagesAreKnown /\ AskersSpawn /\ SettingsFirst
  BY DEF SessionsInv
<1>2. batch # <<>> /\ sender' = sender /\ batch' = <<>>
  <2>1. batch # <<>> /\ sender' = sender /\ (batch' = Tail(batch) \/ batch' = <<>>)
    BY BatchShrinks
  <2>2. PICK p \in Packets : batch = <<p>>
    BY <1>1, <2>1 DEF QueueHolds
  <2>3. QED
    BY <2>1, <2>2, HeadOfOne
<1>3. \A b : /\ has_minecraft_player_address(b) => has_minecraft_player_address(b)'
             /\ has_minecraft_player_address(b)' => has_minecraft_player_address(b) \/ b = sender
             /\ IsPlaying(b) => IsPlaying(b)'
  BY HandlersKeepPlayers
<1>4. /\ \A b : Pending(b)' <=> Pending(b)
      /\ \A b, n, q : Fresh(b, n, q)' <=> Fresh(b, n, q)
  BY DEF Pending, Fresh
<1>5. ASSUME NEW b, NEW n, NEW q, Fresh(b, n, q) PROVE IsToHandle(b, q)'
  BY <1>4, <1>5 DEF IsToHandle, Fresh
<1>6. QueueHolds'
  BY <1>1, <1>2 DEF QueueHolds
<1>7. AwayIsOver'
  <2> SUFFICES ASSUME NEW b \in Addresses, client[b] = "away"
               PROVE  /\ \A n \in DOMAIN main_to_threaded : main_to_threaded[n].address = b =>
                           \E k \in DOMAIN main_to_threaded : k >= n /\ main_to_threaded[k] = Gone(b)
                      /\ batch' # <<>> /\ sender' = b => Pending(b)'
                      /\ has_minecraft_player_address(b)' => Pending(b)'
    BY Zenon DEF AwayIsOver
  <2>1. has_minecraft_player_address(b)' => Pending(b)'
    BY <1>1, <1>2, <1>3, <1>4 DEF AwayIsOver
  <2>2. QED
    BY <1>1, <1>2, <2>1 DEF AwayIsOver
<1>8. StagesAreKnown'
  <2> SUFFICES ASSUME NEW b \in Addresses, client[b] \in Stages
               PROVE  IsToHandle(b, Settings(TRUE))' \/ (has_minecraft_player_address(b)' /\ ~Pending(b)')
    BY DEF StagesAreKnown
  <2>1. CASE InBatch(b, Settings(TRUE))
    <3>1. has_minecraft_player_address(b)'
      BY <2>1, SettingsMakeKnown DEF InBatch
    <3>2. QED
      BY <1>4, <2>1, <3>1 DEF InBatch
  <2>2. CASE \E n : Fresh(b, n, Settings(TRUE))
    BY <1>5, <2>2
  <2>3. CASE has_minecraft_player_address(b) /\ ~Pending(b)
    BY <1>3, <1>4, <2>3
  <2>4. QED
    BY <1>1, <2>1, <2>2, <2>3, ToHandleIs DEF StagesAreKnown
<1>9. AskersSpawn'
  <2> SUFFICES ASSUME NEW b \in Addresses, client[b] \in {"player_spawn", "playing"}
               PROVE  IsToHandle(b, Ask)' \/ (IsPlaying(b)' /\ ~Pending(b)')
    BY DEF AskersSpawn
  <2>1. CASE InBatch(b, Ask)
    <3>1. client[b] \in Stages /\ ~Pending(b) /\ batch = <<Ask>> /\ sender = b
      BY <2>1, StagesAre DEF InBatch
    <3>2. ~InBatch(b, Settings(TRUE))
      <4>1. <<Ask>> # <<Settings(TRUE)>>
        BY AskIsNotSettings, HeadOfOne
      <4>2. QED
        BY <3>1, <4>1 DEF InBatch
    <3>3. \A n : ~Fresh(b, n, Settings(TRUE))
      BY <1>1, <2>1 DEF SettingsFirst, Fresh
    <3>4. has_minecraft_player_address(b)
      BY <1>1, <3>1, <3>2, <3>3, ToHandleIs DEF StagesAreKnown
    <3>5. IsPlaying(b)'
      BY <3>1, <3>4, AskingSpawns
    <3>6. QED
      BY <1>4, <3>1, <3>5
  <2>2. CASE \E n : Fresh(b, n, Ask)
    BY <1>5, <2>2
  <2>3. CASE IsPlaying(b) /\ ~Pending(b)
    BY <1>3, <1>4, <2>3
  <2>4. QED
    BY <1>1, <2>1, <2>2, <2>3, ToHandleIs DEF AskersSpawn
<1>10. SettingsFirst'
  <2>1. \A b : ~InBatch(b, Ask)'
    BY <1>2, MessagesAre DEF InBatch
  <2>2. QED
    BY <1>1, <1>4, <2>1 DEF SettingsFirst, Fresh
<1>11. QED
  BY <1>6, <1>7, <1>8, <1>9, <1>10 DEF SessionsInv

\* What a client answers moves it on to the next stage.
LEMMA AnswersAre ==
  ASSUME NEW s \in DOMAIN Answers
  PROVE  /\ Answers[s][1] \in Packets /\ Answers[s][1] # Settings(TRUE)
         /\ Answers[s][2] \in Stages
         /\ Answers[s][2] \in {"player_spawn", "playing"} => Answers[s][1] = Ask
         /\ s \in Stages
<1> DEFINE login == [id |-> "login", accepted |-> TRUE]
           have == [id |-> "resource_pack_client_response", status |-> "have_all_packs"]
           done == [id |-> "resource_pack_client_response", status |-> "completed"]
<1>1. login \in Packets /\ login.id = "login"
  BY DEF Packets
<1>2. have \in Packets /\ have.id = "resource_pack_client_response"
  BY DEF Packets
<1>3. done \in Packets /\ done.id = "resource_pack_client_response"
  BY DEF Packets
<1>4. Ask \in Packets
  BY BoundsAreNumbers DEF Packets, Ask
<1>5. Settings(TRUE).id = "request_network_settings"
  BY DEF Settings
<1>6. login # Settings(TRUE) /\ have # Settings(TRUE) /\ done # Settings(TRUE) /\ Ask # Settings(TRUE)
  BY <1>1, <1>2, <1>3, <1>5, AskIsNotSettings
<1> HIDE DEF login, have, done
<1>7. /\ Answers["network_setting"] = <<login, "resource_packs_info">>
      /\ Answers["resource_packs_info"] = <<have, "resource_pack_stack">>
      /\ Answers["resource_pack_stack"] = <<done, "start_game">>
      /\ Answers["start_game"] = <<Ask, "player_spawn">>
  BY DEF Answers, login, have, done
<1>8. \A x, y : <<x, y>>[1] = x /\ <<x, y>>[2] = y
  OBVIOUS
<1>9. s \in {"network_setting", "resource_packs_info", "resource_pack_stack", "start_game"} /\ s \in Stages
  BY StagesAre
<1>10. CASE s = "network_setting"
  <2>1. Answers[s][1] = login /\ Answers[s][2] = "resource_packs_info"
    <3>1. Answers[s] = <<login, "resource_packs_info">>
      BY <1>7, <1>10
    <3>2. QED
      BY <1>8, <3>1
  <2>2. "resource_packs_info" \in Stages /\ "resource_packs_info" \notin {"player_spawn", "playing"}
    BY StagesAre
  <2>3. QED
    BY <1>1, <1>6, <1>9, <2>1, <2>2
<1>11. CASE s = "resource_packs_info"
  <2>1. Answers[s][1] = have /\ Answers[s][2] = "resource_pack_stack"
    <3>1. Answers[s] = <<have, "resource_pack_stack">>
      BY <1>7, <1>11
    <3>2. QED
      BY <1>8, <3>1
  <2>2. "resource_pack_stack" \in Stages /\ "resource_pack_stack" \notin {"player_spawn", "playing"}
    BY StagesAre
  <2>3. QED
    BY <1>2, <1>6, <1>9, <2>1, <2>2
<1>12. CASE s = "resource_pack_stack"
  <2>1. Answers[s][1] = done /\ Answers[s][2] = "start_game"
    <3>1. Answers[s] = <<done, "start_game">>
      BY <1>7, <1>12
    <3>2. QED
      BY <1>8, <3>1
  <2>2. "start_game" \in Stages /\ "start_game" \notin {"player_spawn", "playing"}
    BY StagesAre
  <2>3. QED
    BY <1>3, <1>6, <1>9, <2>1, <2>2
<1>13. CASE s = "start_game"
  <2>1. Answers[s][1] = Ask /\ Answers[s][2] = "player_spawn"
    <3>1. Answers[s] = <<Ask, "player_spawn">>
      BY <1>7, <1>13
    <3>2. QED
      BY <1>8, <3>1
  <2>2. "player_spawn" \in Stages
    BY StagesAre
  <2>3. QED
    BY <1>4, <1>6, <1>9, <2>1, <2>2
<1>14. QED
  BY <1>9, <1>10, <1>11, <1>12, <1>13

\* The steps of the clients, seen from the queue and the table.
LEMMA ClientsDo ==
  ASSUME TypeOK, QueueHolds, NEW a \in Addresses, Client(a) \/ Answer(a)
  PROVE  \/ \E p \in Packets, w \in Waits \ {"away"} : Speaks(a, p, w)
         \/ Leaves(a)
         \/ /\ client[a] = "player_spawn" /\ client' = [client EXCEPT ![a] = "playing"]
            /\ players' = players /\ batch' = batch /\ sender' = sender /\ main_to_threaded' = main_to_threaded
         \/ /\ client' = client
            /\ players' = players /\ batch' = batch /\ sender' = sender /\ main_to_threaded' = main_to_threaded
<1>1. client \in [Addresses -> Waits] /\ sent[a] \in Seq(SentPackets)
  BY DEF QueueHolds, TypeOK
<1>2. \A c \in BOOLEAN : Settings(c) \in Packets
  BY DEF Settings, Packets
<1>3. Settings(FALSE) # Settings(TRUE)
  <2>1. Settings(FALSE).current = FALSE /\ Settings(TRUE).current = TRUE
    BY DEF Settings
  <2>2. QED
    BY <2>1
<1>4. CASE Connect(a)
  <2>1. client[a] = "away" /\ players' = players /\ batch' = batch /\ sender' = sender
    BY <1>4 DEF Connect, vars
  <2>2. CASE Wait(a, "network_setting") /\ Say(a, Settings(TRUE))
    <3>1. "network_setting" \in Waits \ {"away"} /\ "network_setting" \notin {"player_spawn", "playing"}
      BY StagesAre DEF Waits
    <3>2. Speaks(a, Settings(TRUE), "network_setting")
      BY <2>1, <2>2, <3>1 DEF Speaks, Wait, Say
    <3>3. QED
      BY <1>2, <3>1, <3>2
  <2>3. CASE Wait(a, "old") /\ Say(a, Settings(FALSE))
    <3>1. "old" \in Waits \ {"away"} /\ "old" \notin Stages /\ "old" \notin {"player_spawn", "playing"}
      BY StagesAre DEF Waits
    <3>2. Speaks(a, Settings(FALSE), "old")
      BY <1>3, <2>1, <2>3, <3>1 DEF Speaks, Wait, Say
    <3>3. QED
      BY <1>2, <3>1, <3>2
  <2>4. QED
    BY <1>4, <2>2, <2>3 DEF Connect
<1>5. CASE Talk(a)
  <2> DEFINE text == [id |-> "text"]
  <2>1. text \in Packets /\ text # Settings(TRUE)
    <3>1. text \in Packets /\ text.id = "text" /\ Settings(TRUE).id = "request_network_settings"
      BY DEF Packets, Settings
    <3>2. QED
      BY <3>1
  <2>2. client[a] = "playing" /\ client' = client /\ Say(a, text)
        /\ players' = players /\ batch' = batch /\ sender' = sender
    BY <1>5 DEF Talk, vars
  <2>3. client' = [client EXCEPT ![a] = "playing"]
    BY <1>1, <2>2
  <2>4. "playing" \in Waits \ {"away"} /\ "playing" \in Stages
    BY StagesAre DEF Waits
  <2> HIDE DEF text
  <2>5. Speaks(a, text, "playing")
    BY <2>1, <2>2, <2>3, <2>4 DEF Speaks, Say
  <2>6. QED
    BY <2>1, <2>4, <2>5
<1>6. CASE Leave(a)
  BY <1>6 DEF Leave, Leaves, Wait, vars
<1>7. CASE Lost(a)
  BY <1>7 DEF Lost
<1>8. CASE Awaited(a)
  <2> DEFINE s == client[a]
  <2>1. /\ sent[a] # <<>> /\ Head(sent[a]).id = s
        /\ Say(a, Answers[s][1]) /\ Wait(a, Answers[s][2])
        /\ players' = players /\ batch' = batch /\ sender' = sender
    BY <1>8 DEF Awaited, Arrives
  <2>2. s \in DOMAIN Answers
    <3>1. Head(sent[a]) \in SentPackets
      BY <1>1, <2>1
    <3>2. Head(sent[a]).id \notin {"away", "old", "player_spawn", "playing"}
      BY <3>1 DEF SentPackets
    <3>3. s \in Waits /\ s \notin {"away", "old", "player_spawn", "playing"}
      BY <1>1, <2>1, <3>2
    <3>4. QED
      BY <3>3, StagesAre DEF Waits
  <2>3. /\ Answers[s][1] \in Packets /\ Answers[s][1] # Settings(TRUE)
        /\ Answers[s][2] \in Stages
        /\ Answers[s][2] \in {"player_spawn", "playing"} => Answers[s][1] = Ask
        /\ s \in Stages
    BY <2>2, AnswersAre
  <2>4. Answers[s][2] \in Waits \ {"away"}
    BY <2>3, StagesAre DEF Waits
  <2>5. Speaks(a, Answers[s][1], Answers[s][2])
    BY <2>1, <2>3 DEF Speaks, Say, Wait
  <2>6. QED
    BY <2>3, <2>4, <2>5
<1>9. CASE Spawned(a)
  BY <1>9 DEF Spawned, Arrives, Wait
<1>10. CASE Outdated(a)
  BY <1>10 DEF Outdated, Arrives, Wait, Leaves
<1>11. CASE Ignored(a)
  BY <1>11 DEF Ignored, Arrives
<1>12. QED
  BY <1>4, <1>5, <1>6, <1>7, <1>8, <1>9, <1>10, <1>11 DEF Client, Answer

LEMMA ClientsKeepTable ==
  ASSUME TypeOK, TableIsSound, NEW a \in Addresses, Client(a) \/ Answer(a)
  PROVE  TypeOK' /\ TableIsSound'
<1>1. players' = players /\ batch' = batch /\ sender' = sender /\ said' = said
      /\ (sent' = sent \/ (sent[a] # <<>> /\ sent' = [sent EXCEPT ![a] = Tail(@)]))
  <2>1. CASE Client(a)
    BY <2>1 DEF Client, Connect, Talk, Leave, Lost, vars
  <2>2. CASE Answer(a)
    BY <2>2 DEF Answer, Awaited, Spawned, Outdated, Ignored, Arrives
  <2>3. QED
    BY <2>1, <2>2
<1>2. sent' \in [Addresses -> Seq(SentPackets)]
  <2>1. sent[a] # <<>> => Tail(sent[a]) \in Seq(SentPackets)
    BY DEF TypeOK
  <2>2. QED
    BY <1>1, <2>1 DEF TypeOK
<1>3. QED
  BY <1>1, <1>2 DEF TypeOK, TableIsSound

LEMMA WorkerKeeps ==
  ASSUME TypeOK, TableIsSound, SessionsInv, Worker
  PROVE  TypeOK' /\ TableIsSound' /\ SessionsInv'
<1> DEFINE head == Head(main_to_threaded)
<1>1. QueueHolds
  BY DEF SessionsInv
<1>2. Take => /\ head \in Messages /\ head.address \in Addresses
              /\ head.packets = <<>> => head = Gone(head.address)
              /\ head.packets # <<>> => \E p \in Packets : head.packets = <<p>> /\ head = Message(head.address, <<p>>)
  BY <1>1, HeadIs, MessageIs
<1>3. CASE TakeGone
  <2>1. /\ Take /\ head.packets = <<>> /\ remove_minecraft_player(head.address)
        /\ batch' = batch /\ sender' = sender /\ sent' = sent /\ said' = said /\ client' = client
    BY <1>3 DEF TakeGone
  <2>2. SessionsInv'
    BY <1>2, <2>1, TakingGoneKeeps
  <2>3. players' \in Seq(Player) /\ TableIsSound'
    BY <2>1, LeavingKeepsTable
  <2>4. QED
    BY <2>1, <2>2, <2>3 DEF TypeOK
<1>4. CASE TakeFrame
  <2>1. /\ Take /\ head.packets # <<>> /\ batch' = head.packets /\ sender' = head.address
        /\ players' = players /\ sent' = sent /\ said' = said /\ client' = client
    BY <1>4 DEF TakeFrame
  <2>2. PICK p \in Packets : head.packets = <<p>> /\ head = Message(head.address, <<p>>)
    BY <1>2, <2>1
  <2>3. SessionsInv'
    BY <1>2, <2>1, <2>2, TakingFrameKeeps
  <2>4. batch' \in Seq(Packets) /\ sender' \in Addresses
    <3>1. <<p>> \in Seq(Packets)
      BY Single
    <3>2. QED
      BY <1>2, <2>1, <2>2, <3>1
  <2>5. QED
    BY <2>1, <2>3, <2>4 DEF TypeOK, TableIsSound
<1>5. CASE TakeOfGone
  <2>1. /\ Take /\ head.packets # <<>> /\ client[head.address] = "away"
        /\ players' = players /\ batch' = batch /\ sender' = sender /\ sent' = sent /\ said' = said
        /\ client' = client
    BY <1>5 DEF TakeOfGone
  <2>2. PICK p \in Packets : head = Message(head.address, <<p>>)
    BY <1>2, <2>1
  <2>3. SessionsInv'
    BY <1>2, <2>1, <2>2, TakingOfGoneKeeps
  <2>4. QED
    BY <2>1, <2>3 DEF TypeOK, TableIsSound
<1>6. CASE on_f /\ UNCHANGED <<client, main_to_threaded>>
  BY <1>6, HandlersKeepTable, HandlingKeeps
<1>7. QED
  BY <1>3, <1>4, <1>5, <1>6 DEF Worker

LEMMA SessionsStart == SessionsInit => TypeOK /\ TableIsSound /\ SessionsInv
<1> SUFFICES ASSUME SessionsInit PROVE TypeOK /\ TableIsSound /\ SessionsInv
  OBVIOUS
<1>1. TypeOK /\ TableIsSound
  BY TableStarts DEF SessionsInit
<1>2. /\ main_to_threaded = <<>> /\ batch = <<>> /\ players = <<>>
      /\ client = [a \in Addresses |-> "away"]
  BY DEF SessionsInit, Init
<1>3. QueueHolds
  BY <1>2 DEF QueueHolds, Waits
<1>4. AwayIsOver
  BY <1>2 DEF AwayIsOver, has_minecraft_player_address
<1>5. StagesAreKnown /\ AskersSpawn
  BY <1>2, StagesAre DEF StagesAreKnown, AskersSpawn
<1>6. SettingsFirst
  BY <1>2 DEF SettingsFirst
<1>7. QED
  BY <1>1, <1>3, <1>4, <1>5, <1>6 DEF SessionsInv

LEMMA SessionsStep ==
  TypeOK /\ TableIsSound /\ SessionsInv /\ [SessionsNext]_all => TypeOK' /\ TableIsSound' /\ SessionsInv'
<1> SUFFICES ASSUME TypeOK, TableIsSound, SessionsInv, [SessionsNext]_all
             PROVE  TypeOK' /\ TableIsSound' /\ SessionsInv'
  OBVIOUS
<1>1. CASE Worker
  BY <1>1, WorkerKeeps
<1>2. ASSUME NEW a \in Addresses, Client(a) \/ Answer(a) PROVE TypeOK' /\ TableIsSound' /\ SessionsInv'
  <2>1. QueueHolds
    BY DEF SessionsInv
  <2>2. SessionsInv'
    BY <1>2, <2>1, ClientsDo, SpeakingKeeps, LeavingKeeps, WaitingKeeps, NothingKeeps
  <2>3. QED
    BY <1>2, <2>2, ClientsKeepTable
<1>3. CASE UNCHANGED all
  <2>1. SessionsInv'
    BY <1>3, NothingKeeps DEF all, vars
  <2>2. QED
    BY <1>3, <2>1 DEF all, vars, TypeOK, TableIsSound
<1>4. QED
  BY <1>1, <1>2, <1>3 DEF SessionsNext

\* The table and what its clients believe agree, for any clients, queue and bounds, whoever leaves
\* and comes back while the worker is behind.
THEOREM TableFollows == SessionsSpec => []TableFollowsClients
<1>1. TypeOK /\ TableIsSound /\ SessionsInv => TableFollowsClients
  <2> SUFFICES ASSUME TypeOK, TableIsSound, SessionsInv PROVE PlayingIsKnown /\ GoneIsForgotten
    BY DEF TableFollowsClients
  <2>1. PlayingIsKnown
    BY DEF SessionsInv, AskersSpawn, PlayingIsKnown
  <2>2. GoneIsForgotten
    BY DEF SessionsInv, AwayIsOver, Pending, GoneIsForgotten
  <2>3. QED
    BY <2>1, <2>2
<1>2. QED
  BY <1>1, SessionsStart, SessionsStep, PTL DEF SessionsSpec
-------------------------------------------------------------------------------
(* What is heard. *)

LEMMA SmallestNat == ASSUME NEW T \in SUBSET Nat, T # {} PROVE \E n \in T : \A t \in T : n <= t
<1>1. IsWellFoundedOn(OpToRel(<, Nat), Nat)
  BY NatLessThanWellFounded
<1>2. PICK n \in T : \A t \in T : <<t, n>> \notin OpToRel(<, Nat)
  BY <1>1, WFMin
<1>3. \A t \in T : ~(t < n)
  BY <1>2 DEF OpToRel
<1> QED
  BY <1>3

LEMMA NumberIsNat == ASSUME NEW e \in SentPackets, IsBroadcast(e) PROVE e.number \in Nat
BY DEF SentPackets, IsBroadcast

\* What is heard with packet k, if `before` was heard up to it.
Hearing(out, k, before) == IF IsBroadcast(out[k]) THEN Append(before, out[k].number) ELSE before

IsHeard(h, out, n) == \A k \in 0 .. n : h[k] = IF k = 0 THEN <<>> ELSE Hearing(out, k, h[k - 1])

LEMMA HeardExists ==
  ASSUME NEW out \in Seq(SentPackets) PROVE \A n \in 0 .. Len(out) : \E h \in [0 .. n -> Seq(Nat)] : IsHeard(h, out, n)
<1> DEFINE T == {n \in 0 .. Len(out) : ~ \E h \in [0 .. n -> Seq(Nat)] : IsHeard(h, out, n)}
<1> SUFFICES ASSUME T # {} PROVE FALSE
  OBVIOUS
<1>1. PICK n \in T : \A t \in T : n <= t
  <2>1. T \in SUBSET Nat
    OBVIOUS
  <2> QED
    BY <2>1, SmallestNat
<1>2. n # 0
  <2> DEFINE g == [k \in 0 .. 0 |-> <<>>]
  <2>1. g \in [0 .. 0 -> Seq(Nat)] /\ \A k \in 0 .. 0 : k = 0 /\ g[k] = <<>>
    OBVIOUS
  <2> HIDE DEF g
  <2>2. IsHeard(g, out, 0)
    BY <2>1, Zenon DEF IsHeard
  <2> QED
    BY <2>1, <2>2
<1>3. n - 1 \in 0 .. Len(out) /\ n - 1 \notin T /\ n \in 1 .. Len(out)
  <2>1. n \in 0 .. Len(out) /\ Len(out) \in Nat
    OBVIOUS
  <2>2. n - 1 \in 0 .. Len(out) /\ ~(n <= n - 1) /\ n \in 1 .. Len(out)
    BY <2>1, <1>2
  <2> QED
    BY <1>1, <2>2
<1>4. PICK h \in [0 .. n - 1 -> Seq(Nat)] : IsHeard(h, out, n - 1)
  BY <1>3
<1> DEFINE more == Hearing(out, n, h[n - 1])
<1>5. more \in Seq(Nat)
  <2>1. h[n - 1] \in Seq(Nat) /\ out[n] \in SentPackets
    BY <1>3
  <2> QED
    BY <2>1, NumberIsNat, AppendIs DEF Hearing
<1> HIDE DEF more
<1> DEFINE g == [k \in 0 .. n |-> IF k = n THEN more ELSE h[k]]
<1>6. g \in [0 .. n -> Seq(Nat)]
  BY <1>3, <1>5
<1>7. \A k \in 0 .. n : g[k] = IF k = n THEN more ELSE h[k]
  OBVIOUS
<1> HIDE DEF g
<1>8. IsHeard(g, out, n)
  <2> SUFFICES ASSUME NEW k \in 0 .. n PROVE g[k] = IF k = 0 THEN <<>> ELSE Hearing(out, k, g[k - 1])
    BY Zenon DEF IsHeard
  <2>1. CASE k = n
    <3>1. g[k] = more /\ g[k - 1] = h[k - 1] /\ k # 0
      BY <1>3, <1>7, <2>1
    <3> QED
      BY <2>1, <3>1 DEF more
  <2>2. CASE k # n
    <3>1. k \in 0 .. n - 1 /\ g[k] = h[k] /\ (k # 0 => g[k - 1] = h[k - 1])
      BY <1>3, <1>7, <2>2
    <3>2. h[k] = IF k = 0 THEN <<>> ELSE Hearing(out, k, h[k - 1])
      BY <1>4, <3>1 DEF IsHeard
    <3> QED
      BY <3>1, <3>2
  <2> QED
    BY <2>1, <2>2
<1> QED
  BY <1>6, <1>8

LEMMA HeardUnique ==
  ASSUME NEW out, NEW n \in Nat, NEW g, NEW h, IsHeard(g, out, n), IsHeard(h, out, n)
  PROVE  \A k \in 0 .. n : g[k] = h[k]
<1> DEFINE T == {k \in 0 .. n : g[k] # h[k]}
<1> SUFFICES ASSUME T # {} PROVE FALSE
  OBVIOUS
<1>1. PICK k \in T : \A t \in T : k <= t
  <2>1. T \in SUBSET Nat
    OBVIOUS
  <2> QED
    BY <2>1, SmallestNat
<1>2. CASE k = 0
  BY <1>1, <1>2 DEF IsHeard
<1>3. CASE k # 0
  <2>1. k - 1 \in 0 .. n /\ k - 1 \notin T
    BY <1>1, <1>3
  <2>2. g[k - 1] = h[k - 1]
    BY <2>1
  <2>3. g[k] = Hearing(out, k, g[k - 1]) /\ h[k] = Hearing(out, k, h[k - 1])
    BY <1>1, <1>3 DEF IsHeard
  <2> QED
    BY <1>1, <2>2, <2>3
<1> QED
  BY <1>2, <1>3

LEMMA HeardUpToIs ==
  ASSUME NEW out \in Seq(SentPackets)
  PROVE  IsHeard(HeardUpTo(out), out, Len(out))
<1> DEFINE body(h) ==
      [n \in 0 .. Len(out) |-> IF n = 0 THEN <<>>
                               ELSE IF IsBroadcast(out[n]) THEN Append(h[n - 1], out[n].number) ELSE h[n - 1]]
<1>1. PICK h \in [0 .. Len(out) -> Seq(Nat)] : IsHeard(h, out, Len(out))
  <2>1. Len(out) \in 0 .. Len(out)
    OBVIOUS
  <2> QED
    BY <2>1, HeardExists
<1>2. h = body(h)
  BY <1>1 DEF IsHeard, Hearing
<1>3. HeardUpTo(out) = body(HeardUpTo(out))
  BY <1>2 DEF HeardUpTo
<1> QED
  BY <1>3 DEF IsHeard, Hearing

LEMMA NothingHeard == Heard(<<>>) = <<>>
<1>1. <<>> \in Seq(SentPackets) /\ Len(<<>>) = 0
  OBVIOUS
<1>2. IsHeard(HeardUpTo(<<>>), <<>>, 0)
  BY <1>1, HeardUpToIs
<1>3. HeardUpTo(<<>>)[0] = <<>>
  BY <1>2 DEF IsHeard
<1> QED
  BY <1>1, <1>3 DEF Heard

\* What comes later does not change what was heard.
LEMMA HeardBefore ==
  ASSUME NEW s \in Seq(SentPackets), NEW t \in Seq(SentPackets)
  PROVE  /\ IsHeard(HeardUpTo(s \o t), s \o t, Len(s) + Len(t))
         /\ Heard(s \o t) = HeardUpTo(s \o t)[Len(s) + Len(t)]
         /\ HeardUpTo(s \o t)[Len(s)] = Heard(s)
<1> DEFINE both == s \o t
<1>1. /\ both \in Seq(SentPackets) /\ Len(both) = Len(s) + Len(t) /\ Len(s) \in Nat /\ Len(t) \in Nat
      /\ \A n \in 1 .. Len(s) : both[n] = s[n]
  BY JoinedIs
<1> HIDE DEF both
<1>2. IsHeard(HeardUpTo(both), both, Len(s) + Len(t)) /\ IsHeard(HeardUpTo(s), s, Len(s))
  BY <1>1, HeardUpToIs
<1>3. IsHeard(HeardUpTo(both), s, Len(s))
  BY <1>1, <1>2 DEF IsHeard, Hearing
<1>4. HeardUpTo(both)[Len(s)] = HeardUpTo(s)[Len(s)]
  BY <1>1, <1>2, <1>3, HeardUnique
<1> QED
  BY <1>1, <1>2, <1>4 DEF Heard, both

\* Packets that are no broadcasts are not heard.
LEMMA HeardStays ==
  ASSUME NEW s \in Seq(SentPackets), NEW t \in Seq(SentPackets), \A n \in DOMAIN t : ~IsBroadcast(t[n])
  PROVE  Heard(s \o t) = Heard(s)
<1> DEFINE both == s \o t
           h == HeardUpTo(both)
           T == {n \in 0 .. Len(t) : h[Len(s) + n] # Heard(s)}
<1>1. /\ Len(s) \in Nat /\ Len(t) \in Nat /\ DOMAIN t = 1 .. Len(t)
      /\ \A n \in 1 .. Len(t) : both[Len(s) + n] = t[n]
  BY JoinedIs
<1>2. IsHeard(h, both, Len(s) + Len(t)) /\ Heard(both) = h[Len(s) + Len(t)] /\ h[Len(s)] = Heard(s)
  BY HeardBefore
<1> HIDE DEF both, h
<1>3. T = {}
  <2> SUFFICES ASSUME T # {} PROVE FALSE
    OBVIOUS
  <2>1. PICK n \in T : \A m \in T : n <= m
    <3>1. T \in SUBSET Nat
      BY <1>1
    <3> QED
      BY <3>1, SmallestNat
  <2>2. n # 0
    BY <1>1, <1>2
  <2>3. n - 1 \in 0 .. Len(t) /\ n - 1 \notin T /\ n \in 1 .. Len(t)
    <3>1. n \in 0 .. Len(t) /\ \A m : m \in T => n <= m
      BY <2>1
    <3> HIDE DEF T
    <3>2. n - 1 \in 0 .. Len(t) /\ ~(n <= n - 1) /\ n \in 1 .. Len(t)
      BY <1>1, <2>2, <3>1
    <3> QED
      BY <3>1, <3>2
  <2>4. /\ Len(s) + n \in 0 .. Len(s) + Len(t) /\ Len(s) + n # 0
        /\ Len(s) + n - 1 = Len(s) + (n - 1)
    BY <1>1, <2>3
  <2>5. h[Len(s) + n] = Hearing(both, Len(s) + n, h[Len(s) + (n - 1)])
    BY <1>2, <2>4 DEF IsHeard
  <2>6. ~IsBroadcast(both[Len(s) + n])
    BY <1>1, <2>3
  <2>7. h[Len(s) + n] = h[Len(s) + (n - 1)]
    BY <2>5, <2>6 DEF Hearing
  <2> QED
    BY <2>1, <2>3, <2>7
<1>4. h[Len(s) + Len(t)] = Heard(s)
  BY <1>1, <1>3
<1> QED
  BY <1>2, <1>4 DEF both

LEMMA HeardMore ==
  ASSUME NEW s \in Seq(SentPackets), NEW e \in SentPackets, IsBroadcast(e)
  PROVE  Heard(Append(s, e)) = Append(Heard(s), e.number)
<1> DEFINE both == s \o <<e>>
           h == HeardUpTo(both)
<1>1. <<e>> \in Seq(SentPackets) /\ Len(<<e>>) = 1 /\ both = Append(s, e) /\ Len(s) \in Nat /\ both[Len(s) + 1] = e
  OBVIOUS
<1>2. IsHeard(h, both, Len(s) + 1) /\ Heard(both) = h[Len(s) + 1] /\ h[Len(s)] = Heard(s)
  BY <1>1, HeardBefore
<1> HIDE DEF both, h
<1>3. Len(s) + 1 \in 0 .. Len(s) + 1 /\ Len(s) + 1 # 0 /\ Len(s) + 1 - 1 = Len(s)
  BY <1>1
<1>4. h[Len(s) + 1] = Hearing(both, Len(s) + 1, h[Len(s)])
  BY <1>2, <1>3 DEF IsHeard
<1> QED
  BY <1>1, <1>2, <1>4 DEF Hearing

LEMMA NobodyHeard ==
  ASSUME NEW s \in Seq(SentPackets), \A n \in DOMAIN s : ~IsBroadcast(s[n])
  PROVE  Heard(s) = <<>>
<1>1. <<>> \in Seq(SentPackets) /\ <<>> \o s = s
  OBVIOUS
<1>2. Heard(<<>> \o s) = Heard(<<>>)
  BY <1>1, HeardStays
<1> QED
  BY <1>1, <1>2, NothingHeard
-------------------------------------------------------------------------------
(* Session is implemented. *)

PhaseOf(a) == IF IsPlaying(a) THEN "playing" ELSE IF has_minecraft_player_address(a) THEN "known" ELSE "unknown"

LEMMA PlayingIsInTable == ASSUME NEW a, IsPlaying(a) PROVE has_minecraft_player_address(a)
BY DEF IsPlaying, has_minecraft_player_address

LEMMA StutterStep ==
  ASSUME said' = said,
         \A a \in Addresses : PhaseOf(a)' = PhaseOf(a) /\ Heard(sent'[a]) = Heard(sent[a])
  PROVE  UNCHANGED Kept!vars
<1>1. [a \in Addresses |-> PhaseOf(a)]' = [a \in Addresses |-> PhaseOf(a)]
  OBVIOUS
<1>2. [a \in Addresses |-> Heard(sent[a])]' = [a \in Addresses |-> Heard(sent[a])]
  OBVIOUS
<1> QED
  BY <1>1, <1>2 DEF Kept!vars, PhaseOf

LEMMA ArriveStep ==
  ASSUME NEW a \in Addresses, PhaseOf(a) = "unknown", said' = said,
         \A b \in Addresses : /\ PhaseOf(b)' = (IF b = a THEN "known" ELSE PhaseOf(b))
                              /\ Heard(sent'[b]) = Heard(sent[b])
  PROVE  Kept!Arrive(a)
<1>1. [b \in Addresses |-> PhaseOf(b)]' = [[b \in Addresses |-> PhaseOf(b)] EXCEPT ![a] = "known"]
  OBVIOUS
<1>2. [b \in Addresses |-> Heard(sent[b])]' = [b \in Addresses |-> Heard(sent[b])]
  OBVIOUS
<1>3. [b \in Addresses |-> PhaseOf(b)][a] = "unknown"
  OBVIOUS
<1> QED
  BY <1>1, <1>2, <1>3 DEF Kept!Arrive, PhaseOf

LEMMA SpawnStep ==
  ASSUME NEW a \in Addresses, PhaseOf(a) = "known", said' = said,
         \A b \in Addresses : /\ PhaseOf(b)' = (IF b = a THEN "playing" ELSE PhaseOf(b))
                              /\ Heard(sent'[b]) = Heard(sent[b])
  PROVE  Kept!Spawn(a)
<1>1. [b \in Addresses |-> PhaseOf(b)]' = [[b \in Addresses |-> PhaseOf(b)] EXCEPT ![a] = "playing"]
  OBVIOUS
<1>2. [b \in Addresses |-> Heard(sent[b])]' = [b \in Addresses |-> Heard(sent[b])]
  OBVIOUS
<1>3. [b \in Addresses |-> PhaseOf(b)][a] = "known"
  OBVIOUS
<1> QED
  BY <1>1, <1>2, <1>3 DEF Kept!Spawn, PhaseOf

LEMMA SayStep ==
  ASSUME said' = said + 1,
         \A a \in Addresses :
           /\ PhaseOf(a)' = PhaseOf(a)
           /\ Heard(sent'[a]) = IF PhaseOf(a) = "playing" THEN Append(Heard(sent[a]), said + 1) ELSE Heard(sent[a])
  PROVE  Kept!Say
<1> DEFINE phases == [a \in Addresses |-> PhaseOf(a)]
           hear == [a \in Addresses |-> Heard(sent[a])]
<1>1. phases' = phases
  OBVIOUS
<1>2. hear' = [a \in Addresses |-> IF phases[a] = "playing" THEN Append(hear[a], said + 1) ELSE hear[a]]
  OBVIOUS
<1> QED
  BY <1>1, <1>2 DEF Kept!Say, PhaseOf

LEMMA LeaveStep ==
  ASSUME NEW a \in Addresses, PhaseOf(a) # "unknown", said' = said,
         \A b \in Addresses : /\ PhaseOf(b)' = (IF b = a THEN "unknown" ELSE PhaseOf(b))
                              /\ Heard(sent'[b]) = (IF b = a THEN <<>> ELSE Heard(sent[b]))
  PROVE  Kept!Leave(a)
<1>1. [b \in Addresses |-> PhaseOf(b)]' = [[b \in Addresses |-> PhaseOf(b)] EXCEPT ![a] = "unknown"]
  OBVIOUS
<1>2. [b \in Addresses |-> Heard(sent[b])]' = [[b \in Addresses |-> Heard(sent[b])] EXCEPT ![a] = <<>>]
  OBVIOUS
<1>3. [b \in Addresses |-> PhaseOf(b)][a] # "unknown"
  OBVIOUS
<1> QED
  BY <1>1, <1>2, <1>3 DEF Kept!Leave, PhaseOf

\* Who is known before a handler is known after it, and but for the sender of the settings the reverse.
LEMMA KnownKeeps ==
  ASSUME TypeOK, players' = players \/ (\E k, q : Changed(k, q)), NEW a
  PROVE  has_minecraft_player_address(a)' <=> has_minecraft_player_address(a)
<1>1. CASE players' = players
  BY <1>1 DEF has_minecraft_player_address
<1>2. ASSUME NEW k, NEW q, Changed(k, q)
      PROVE  has_minecraft_player_address(a)' <=> has_minecraft_player_address(a)
  <2>1. /\ DOMAIN players' = DOMAIN players
        /\ \A j \in DOMAIN players : players'[j] = IF j = k THEN q ELSE players[j]
    BY <1>2, ChangedIs DEF Changed, TypeOK
  <2> QED
    BY <1>2, <2>1 DEF has_minecraft_player_address, Changed
<1> QED
  BY <1>1, <1>2

LEMMA KnownStarts ==
  ASSUME TypeOK, Added
  PROVE  /\ ~has_minecraft_player_address(sender)
         /\ \A a : has_minecraft_player_address(a)' <=> has_minecraft_player_address(a) \/ a = sender
<1>1. PICK p \in Player :
        /\ p.address = sender /\ players' = Append(players, p)
        /\ \A k \in DOMAIN players : players[k].address # p.address
  BY DEF Added
<1>2. /\ DOMAIN players' = DOMAIN players \cup {Len(players) + 1}
      /\ \A k \in DOMAIN players : players'[k] = players[k]
      /\ players'[Len(players) + 1] = p
  BY <1>1, AppendIs DEF TypeOK
<1> QED
  BY <1>1, <1>2 DEF has_minecraft_player_address

LEMMA ToldUnheard ==
  ASSUME TypeOK, AllTold, NEW a \in Addresses, ~IsPlaying(a)
  PROVE  Heard(sent[a]) = <<>>
<1>1. sent[a] \in Seq(SentPackets) /\ Told(sent[a], IsPlaying(a))
  BY DEF TypeOK, AllTold
<1>2. \A n \in DOMAIN sent[a] : ~IsBroadcast(sent[a][n])
  BY <1>1 DEF Told
<1> QED
  BY <1>1, <1>2, NobodyHeard

\* To be told something else than broadcasts is to hear nothing.
LEMMA TellUnheard ==
  ASSUME TypeOK, NEW q \in Seq(SentPackets), \A n \in DOMAIN q : ~IsBroadcast(q[n])
  PROVE  \A a \in Addresses : Heard(Tell(sender, q)[a]) = Heard(sent[a])
<1>1. /\ sent \in Sents /\ sender \in Addresses
      /\ Tell(sender, q)[sender] = sent[sender] \o q
      /\ \A b \in Addresses : b # sender => Tell(sender, q)[b] = sent[b]
  BY TellIs DEF TypeOK, Sents
<1>2. Heard(sent[sender] \o q) = Heard(sent[sender])
  BY <1>1, HeardStays DEF Sents
<1>3. ASSUME NEW a \in Addresses PROVE Heard(Tell(sender, q)[a]) = Heard(sent[a])
  <2>1. CASE a = sender
    BY <1>1, <1>2, <2>1
  <2>2. CASE a # sender
    BY <1>1, <2>2
  <2> QED
    BY <2>1, <2>2
<1> QED
  BY <1>3

LEMMA QuietUnheard ==
  ASSUME TypeOK, NEW out, out = sent \/ \E q \in Seq(QuietPackets) : out = Tell(sender, q)
  PROVE  \A a \in Addresses : Heard(out[a]) = Heard(sent[a])
<1>1. ASSUME NEW q \in Seq(QuietPackets) PROVE q \in Seq(SentPackets) /\ \A n \in DOMAIN q : ~IsBroadcast(q[n])
  BY QuietIsSent DEF QuietPackets
<1> QED
  BY <1>1, TellUnheard

LEMMA ChunksUnheard ==
  ASSUME NEW p \in Player
  PROVE  send_chunks(p) \in Seq(SentPackets) /\ \A n \in DOMAIN send_chunks(p) : ~IsBroadcast(send_chunks(p)[n])
<1> DEFINE c == send_chunks(p)
<1>1. c \in Seq(SentPackets) /\ Len(c) = 2 /\ c[2].id = "network_chunk_publisher_update"
  BY ChunksAre
<1>2. c[1].id = "chunks"
  <2>1. c[1] = [id |-> "chunks", centre |-> ChunkOf(p.position), radius |-> p.view_distance]
    BY ChunksAre, Zenon
  <2> QED
    BY <2>1
<1> HIDE DEF c
<1>3. DOMAIN c = 1 .. 2 /\ \A n \in 1 .. 2 : n = 1 \/ n = 2
  BY <1>1
<1>4. \A n \in DOMAIN c : ~IsBroadcast(c[n])
  BY <1>1, <1>2, <1>3 DEF IsBroadcast
<1> QED
  BY <1>1, <1>4 DEF c

\* Kept means Session with the table and what was sent: a step of it or one that does not show.
KeptStep == Kept!Next \/ UNCHANGED Kept!vars

LEMMA QuietKept == ASSUME TypeOK, Quiet PROVE KeptStep
<1>1. \A a \in Addresses : Heard(sent'[a]) = Heard(sent[a])
  BY QuietUnheard DEF Quiet
<1>2. \A a : IsPlaying(a)' <=> IsPlaying(a)
  BY PlayingKeeps DEF Quiet
<1>3. CASE players' = players
  <2>1. \A a : has_minecraft_player_address(a)' <=> has_minecraft_player_address(a)
    BY <1>3, KnownKeeps
  <2>2. UNCHANGED Kept!vars
    BY <1>1, <1>2, <2>1, StutterStep DEF PhaseOf, Quiet
  <2> QED
    BY <2>2 DEF KeptStep
<1>4. CASE Added
  <2>1. /\ ~has_minecraft_player_address(sender) /\ sender \in Addresses
        /\ \A a : has_minecraft_player_address(a)' <=> has_minecraft_player_address(a) \/ a = sender
    BY <1>4, KnownStarts DEF TypeOK
  <2>2. ~IsPlaying(sender)
    BY <2>1, PlayingIsInTable
  <2>3. Kept!Arrive(sender)
    BY <1>1, <1>2, <2>1, <2>2, ArriveStep DEF PhaseOf, Quiet
  <2> QED
    BY <2>1, <2>3 DEF KeptStep, Kept!Next
<1> QED
  BY <1>3, <1>4 DEF Quiet

LEMMA SpawnKept == ASSUME TypeOK, TableIsSound, NEW k, NEW q, Spawns(k, q) PROVE KeptStep
<1>1. /\ q \in Player /\ k \in DOMAIN players /\ players[k].address = sender /\ sender \in Addresses
      /\ Changed(k, q) /\ sent' = Tell(sender, World(q)) /\ said' = said
  BY DEF Spawns, Changed, TypeOK
<1>2. \A a \in Addresses : Heard(sent'[a]) = Heard(sent[a])
  <2>1. World(q) \in Seq(SentPackets) /\ \A n \in DOMAIN World(q) : ~IsBroadcast(World(q)[n])
    BY <1>1, WorldIs, WorldReads
  <2> QED
    BY <1>1, <2>1, TellUnheard
<1>3. /\ ~IsPlaying(sender) /\ (\A a : a = sender => IsPlaying(a)')
      /\ \A a : a # sender => (IsPlaying(a)' <=> IsPlaying(a))
  BY PlayingStarts
<1>4. has_minecraft_player_address(sender)
  BY <1>1 DEF has_minecraft_player_address
<1>5. \A a : has_minecraft_player_address(a)' <=> has_minecraft_player_address(a)
  BY <1>1, KnownKeeps
<1>6. Kept!Spawn(sender)
  BY <1>1, <1>2, <1>3, <1>4, <1>5, SpawnStep DEF PhaseOf
<1> QED
  BY <1>1, <1>6 DEF KeptStep, Kept!Next

LEMMA MoveKept == ASSUME TypeOK, NEW k, NEW q, Moves(k, q) PROVE KeptStep
<1>1. /\ players[k] \in Player /\ Changed(k, q) /\ q.spawned = players[k].spawned /\ said' = said
      /\ sent' = sent \/ sent' = Tell(sender, send_chunks(players[k]))
  BY DEF Moves, Changed, TypeOK
<1>2. \A a \in Addresses : Heard(sent'[a]) = Heard(sent[a])
  BY <1>1, ChunksUnheard, TellUnheard
<1>3. \A a : /\ IsPlaying(a)' <=> IsPlaying(a)
             /\ has_minecraft_player_address(a)' <=> has_minecraft_player_address(a)
  BY <1>1, PlayingKeeps, KnownKeeps
<1>4. UNCHANGED Kept!vars
  BY <1>1, <1>2, <1>3, StutterStep DEF PhaseOf
<1> QED
  BY <1>4 DEF KeptStep

LEMMA SayKept ==
  ASSUME TypeOK, NEW id \in {"text", "player_skin"}, NEW out \in Sents, Says(id, out),
         out = sent \/ \E q \in Seq(QuietPackets) : out = Tell(sender, q)
  PROVE  KeptStep
<1> DEFINE e == [id |-> id, number |-> said + 1]
<1>1. /\ e \in SentPackets /\ IsBroadcast(e) /\ e.number = said + 1
      /\ \A a \in Addresses : sent'[a] = IF IsPlaying(a) THEN Append(out[a], e) ELSE out[a]
  BY SaidIs DEF IsBroadcast
<1> HIDE DEF e
<1>2. \A a \in Addresses : Heard(out[a]) = Heard(sent[a])
  BY QuietUnheard
<1>3. \A a \in Addresses : Heard(sent'[a]) = IF IsPlaying(a) THEN Append(Heard(sent[a]), said + 1) ELSE Heard(sent[a])
  <2> SUFFICES ASSUME NEW a \in Addresses
               PROVE  Heard(sent'[a]) = IF IsPlaying(a) THEN Append(Heard(sent[a]), said + 1) ELSE Heard(sent[a])
    OBVIOUS
  <2>1. out[a] \in Seq(SentPackets)
    BY DEF Sents
  <2>2. Heard(Append(out[a], e)) = Append(Heard(sent[a]), said + 1)
    BY <1>1, <1>2, <2>1, HeardMore
  <2> QED
    BY <1>1, <1>2, <2>2
<1>4. players' = players /\ said' = said + 1
  BY DEF Says
<1>5. \A a : /\ IsPlaying(a)' <=> IsPlaying(a)
             /\ has_minecraft_player_address(a)' <=> has_minecraft_player_address(a)
  BY <1>4, PlayingKeeps, KnownKeeps
<1>6. Kept!Say
  BY <1>3, <1>4, <1>5, SayStep DEF PhaseOf
<1> QED
  BY <1>6 DEF KeptStep, Kept!Next

LEMMA LeaveKept == ASSUME TypeOK, TableIsSound, AllTold, NEW a \in Addresses, on_dn(a) PROVE KeptStep
<1>1. /\ remove_minecraft_player(a) /\ said' = said
      /\ sent'[a] = <<>> /\ \A b \in Addresses : b # a => sent'[b] = sent[b]
  BY DEF on_dn, TypeOK
<1>2. \A b \in Addresses : Heard(sent'[b]) = (IF b = a THEN <<>> ELSE Heard(sent[b]))
  BY <1>1, NothingHeard
<1>3. /\ ~IsPlaying(a)' /\ ~has_minecraft_player_address(a)'
      /\ \A b : b # a => /\ IsPlaying(b)' <=> IsPlaying(b)
                         /\ has_minecraft_player_address(b)' <=> has_minecraft_player_address(b)
  BY <1>1, PlayingEnds, PlayersKept
<1>4. \A b \in Addresses : PhaseOf(b)' = (IF b = a THEN "unknown" ELSE PhaseOf(b))
  <2>1. ASSUME NEW b \in Addresses, b # a PROVE PhaseOf(b)' = PhaseOf(b)
    BY <1>3, <2>1 DEF PhaseOf
  <2>2. PhaseOf(a)' = "unknown"
    BY <1>3 DEF PhaseOf
  <2> QED
    BY <2>1, <2>2
<1>5. CASE has_minecraft_player_address(a)
  <2>1. PhaseOf(a) # "unknown"
    BY <1>5 DEF PhaseOf
  <2>2. Kept!Leave(a)
    BY <1>1, <1>2, <1>4, <2>1, LeaveStep
  <2> QED
    BY <2>2 DEF KeptStep, Kept!Next
<1>6. CASE ~has_minecraft_player_address(a)
  <2>1. ~IsPlaying(a) /\ PhaseOf(a) = "unknown"
    BY <1>6, PlayingIsInTable DEF PhaseOf
  <2>2. Heard(sent[a]) = <<>>
    BY <2>1, ToldUnheard
  <2>3. \A b \in Addresses : PhaseOf(b)' = PhaseOf(b) /\ Heard(sent'[b]) = Heard(sent[b])
    BY <1>2, <1>4, <2>1, <2>2
  <2>4. UNCHANGED Kept!vars
    BY <1>1, <2>3, StutterStep
  <2> QED
    BY <2>4 DEF KeptStep
<1> QED
  BY <1>5, <1>6

LEMMA KeptSteps == TypeOK /\ TableIsSound /\ AllTold /\ [Next]_vars => [Kept!Next]_(Kept!vars)
<1> SUFFICES ASSUME TypeOK, TableIsSound, AllTold, [Next]_vars PROVE KeptStep
  BY DEF KeptStep
<1>1. CASE on_f
  <2>1. ASSUME NEW id \in {"text", "player_skin"}, NEW out \in Sents,
               out = sent \/ \E q \in Seq(QuietPackets) : out = Tell(sender, q), Says(id, out)
        PROVE  KeptStep
    BY <2>1, SayKept
  <2> QED
    BY <1>1, <2>1, HandlersDo, QuietKept, SpawnKept, MoveKept DEF Handled, Sents
<1>2. ASSUME NEW a \in Addresses, on_dn(a) PROVE KeptStep
  BY <1>2, LeaveKept
<1>3. CASE UNCHANGED <<players, sent, said>>
  <2>1. \A a \in Addresses : PhaseOf(a)' = PhaseOf(a) /\ Heard(sent'[a]) = Heard(sent[a])
    BY <1>3 DEF PhaseOf, IsPlaying, has_minecraft_player_address
  <2> QED
    BY <1>3, <2>1, StutterStep DEF KeptStep
<1> QED
  BY <1>1, <1>2, <1>3 DEF Next, Receive, vars

LEMMA KeptStarts == Init => Kept!Init
<1> SUFFICES ASSUME Init PROVE Kept!Init
  OBVIOUS
<1>1. players = <<>> /\ said = 0 /\ \A a \in Addresses : sent[a] = <<>>
  BY DEF Init
<1>2. \A a \in Addresses : PhaseOf(a) = "unknown" /\ Heard(sent[a]) = <<>>
  BY <1>1, NothingHeard DEF PhaseOf, IsPlaying, has_minecraft_player_address
<1>3. [a \in Addresses |-> PhaseOf(a)] = [a \in Addresses |-> "unknown"]
  BY <1>2
<1>4. [a \in Addresses |-> Heard(sent[a])] = [a \in Addresses |-> <<>>]
  BY <1>2
<1> QED
  BY <1>1, <1>3, <1>4 DEF Kept!Init, PhaseOf

\* From its spawn to its leaving a client hears all that anybody says, in the one order in which it
\* was said: the broadcasts over the table (server.c:103) implement Session, whoever comes, asks
\* for its settings again, spawns and leaves in between.
THEOREM PromiseKept == Spec => KeepsPromise
<1>1. Init => TypeOK /\ TableIsSound /\ AllTold
  BY TableStarts, ToldStarts
<1>2. TypeOK /\ TableIsSound /\ AllTold /\ [Next]_vars => (TypeOK /\ TableIsSound /\ AllTold)'
  BY TableSteps, ToldSteps
<1> QED
  BY <1>1, <1>2, KeptStarts, KeptSteps, PTL DEF Spec, KeepsPromise, Kept!Spec
===============================================================================
