-------------------------------- MODULE Packets --------------------------------
(***************************************************************************)
(* A batch of packets from the functions of mcpackets.c that put them to   *)
(* those that get them: each is put into a stream of its own, the streams  *)
(* go into a game packet, deflated or not, and the receiver takes the      *)
(* batch apart and gets each packet by its identifier.  Some structures of *)
(* mcmisc.c that only occur in packets without a get function are put and  *)
(* got by themselves, without an identifier.                               *)
(***************************************************************************)
EXTENDS PacketLayouts

CONSTANTS Examples(_, _),  \* inputs: the structures that are put with a layout
          Codecs,          \* inputs: the packets that occur
          MaxBatch         \* bound: packets in a batch

VARIABLES sent,     \* the packets of the batch, [codec, packet]
          streams,  \* their streams
          game,     \* the game packet
          entries,  \* the streams the receiver has found in it
          got,      \* the structures it has got
          left,     \* the bytes each get function has left in its stream
          phase

vars == <<sent, streams, game, entries, got, left, phase>>

\* The sides of a packet: the layout that puts it and the one that gets it.  The first three
\* are put by the client, which is external: it puts what the server gets.
Puts ==
  [login |-> get_packet_login, request_network_settings |-> get_packet_request_network_setting,
   request_ability |-> get_packet_request_ability,
   play_status |-> put_packet_play_status, disconnect |-> put_packet_disconnect,
   resource_packs_info |-> put_packet_resource_packs_info, resource_pack_stack |-> put_packet_resource_pack_stack,
   resource_pack_client_response |-> put_packet_resource_pack_client_response, text |-> put_packet_text,
   set_time |-> put_packet_set_time, start_game |-> put_packet_start_game, move_entity |-> put_packet_move_entity,
   move_player |-> put_packet_move_player, update_attributes |-> put_packet_update_attributes,
   interact |-> put_packet_interact, container_open |-> put_packet_container_open,
   container_close |-> put_packet_container_close, level_chunk |-> put_packet_level_chunk,
   request_chunk_radius |-> put_packet_request_chunk_radius, chunk_radius_updated |-> put_packet_chunk_radius_updated,
   player_skin |-> put_packet_player_skin,
   available_entity_identifiers |-> put_packet_available_entity_identifiers,
   network_chunk_publisher_update |-> put_packet_network_chunk_publisher_update,
   biome_definition_list |-> put_packet_biome_definition_list, network_settings |-> put_packet_network_setting,
   creative_content |-> put_packet_creative_content,
   misc_login_tokens |-> put_misc_login_tokens, misc_behavior_pack_infos |-> put_misc_behavior_pack_infos,
   misc_texture_pack_infos |-> put_misc_texture_pack_infos,
   misc_resource_pack_id_versions |-> put_misc_resource_pack_id_versions,
   misc_experiments |-> put_misc_experiments, misc_game_rules |-> put_misc_game_rules,
   misc_education_shared_resource_uri |-> put_misc_education_shared_resource_uri,
   misc_item_states |-> put_misc_item_states, misc_block_properties |-> put_misc_block_properties,
   misc_item |-> put_misc_item(TRUE), misc_item_without_stack_id |-> put_misc_item(FALSE),
   property_sync_data |-> put_property_sync_data]

Gets ==
  [login |-> get_packet_login, request_network_settings |-> get_packet_request_network_setting,
   request_ability |-> get_packet_request_ability,
   resource_pack_client_response |-> get_packet_resource_pack_client_response, text |-> get_packet_text,
   move_player |-> get_packet_move_player, interact |-> get_packet_interact,
   container_open |-> get_packet_container_open, container_close |-> get_packet_container_close,
   request_chunk_radius |-> get_packet_request_chunk_radius, player_skin |-> get_packet_player_skin,
   misc_login_tokens |-> get_misc_login_tokens, misc_behavior_pack_infos |-> get_misc_behavior_pack_infos,
   misc_texture_pack_infos |-> get_misc_texture_pack_infos,
   misc_resource_pack_id_versions |-> get_misc_resource_pack_id_versions,
   misc_experiments |-> get_misc_experiments, misc_game_rules |-> get_misc_game_rules,
   misc_education_shared_resource_uri |-> get_misc_education_shared_resource_uri,
   misc_item_states |-> get_misc_item_states, misc_block_properties |-> get_misc_block_properties,
   misc_item |-> get_misc_item(TRUE), misc_item_without_stack_id |-> get_misc_item(FALSE)]

Header(codec) == IF codec \in DOMAIN IDs THEN PutNumber("var_int", IDs[codec]) ELSE <<>>

\* What a deflate stream and the bytes of a batch look like to inflate, which is external: a
\* stream that deflate made is inflated; the block type 3 in the first byte is an error of the
\* data; with another one, bytes that are not a stream end in any way.
Outcomes(body) ==
  IF body.deflated THEN {"ok"}
  ELSE IF body.bytes # <<>> /\ (body.bytes[1] \div 2) % 4 = 3 THEN {"data_error"}
  ELSE {"data_error", "other"}

Batch == <<Rest("streams", <<F("byte_array_var_int", "stream")>>)>>

NoGame == [deflated |-> FALSE, bytes |-> <<>>]
-------------------------------------------------------------------------------
Init ==
  /\ sent = <<>> /\ streams = <<>> /\ game = NoGame /\ entries = <<>> /\ got = <<>> /\ left = <<>>
  /\ phase = "put"

PutPacket ==
  /\ phase = "put" /\ Len(sent) < MaxBatch
  /\ \E codec \in Codecs : \E p \in Examples(codec, Puts[codec]) :
       /\ sent' = Append(sent, [codec |-> codec, packet |-> p])
       /\ streams' = Append(streams, Header(codec) \o Put(Puts[codec], p))
  /\ UNCHANGED <<game, entries, got, left, phase>>

put_packet_game ==
  /\ phase = "put" /\ sent # <<>>
  /\ \E iscompress \in BOOLEAN :
       game' = [deflated |-> iscompress,
                bytes    |-> Put(Batch, [streams |-> [n \in DOMAIN streams |-> [stream |-> streams[n]]]])]
  /\ phase' = "game"
  /\ UNCHANGED <<sent, streams, entries, got, left>>

\* Mutant: a batch that is not a deflate stream is lost whatever inflate says of it.
Mut_get_packet_game ==
  /\ phase = "game"
  /\ \E status \in Outcomes(game) :
       IF status # "ok" THEN phase' = "lost" /\ UNCHANGED entries
       ELSE LET batch == Get(Batch, <<>>, Reader(game.bytes)).value.streams
            IN phase' = "entries" /\ entries' = [n \in DOMAIN batch |-> batch[n].stream]
  /\ UNCHANGED <<sent, streams, game, got, left>>

\* An outcome of inflate that is neither success nor an error of the data leaves nothing the
\* function could take apart.
get_packet_game ==
  /\ phase = "game"
  /\ \E status \in Outcomes(game) :
       IF status = "other" THEN phase' = "lost" /\ UNCHANGED entries
       ELSE LET batch == Get(Batch, <<>>, Reader(game.bytes)).value.streams
            IN phase' = "entries" /\ entries' = [n \in DOMAIN batch |-> batch[n].stream]
  /\ UNCHANGED <<sent, streams, game, got, left>>

\* The packet is known by its identifier; the structures without one, by their place.
GetPacket ==
  /\ phase = "entries" /\ Len(got) < Len(entries) /\ Len(got) < Len(sent)
  /\ LET n      == Len(got) + 1
         bare   == sent[n].codec \notin DOMAIN IDs
         header == GetNumber("var_int", Reader(entries[n]))
     IN \E codec \in DOMAIN Gets :
          /\ IF bare THEN codec = sent[n].codec ELSE codec \in DOMAIN IDs /\ IDs[codec] = header.value % 1024
          /\ LET g == Get(Gets[codec], <<>>, IF bare THEN Reader(entries[n]) ELSE header.reader)
             IN /\ got' = Append(got, g.value)
                /\ left' = Append(left, Len(entries[n]) - g.reader.offset)
  /\ UNCHANGED <<sent, streams, game, entries, phase>>

Next == PutPacket \/ put_packet_game \/ get_packet_game \/ GetPacket

Spec == Init /\ [][Next]_vars
-------------------------------------------------------------------------------
\* The fields of a skin that get_misc_skin steps over.
Dropped == {"personas", "tints"}

RECURSIVE Agrees(_, _)
Agrees(p, q) ==
  /\ DOMAIN p \subseteq DOMAIN q /\ DOMAIN q \ DOMAIN p \subseteq Dropped
  /\ \A f \in DOMAIN p : IF f = "skin_data" THEN Agrees(p[f], q[f]) ELSE p[f] = q[f]

\* The get function of a packet finds every field where its put function has put it, for every
\* kind of packet and every length of its lists; the skin comes back without its personas.
ReadBack == \A n \in DOMAIN got : Agrees(got[n], sent[n].packet)

\* And it takes the stream to its end: nothing that was put goes unread.
LeavesNothing == \A n \in DOMAIN left : left[n] = 0

\* The bytes of a packet tell where it ends and what it is: no stream of a packet is the
\* beginning of the stream of another one.
TellApart ==
  \A m, n \in DOMAIN sent :
    /\ sent[m].codec = sent[n].codec \/ {sent[m].codec, sent[n].codec} \subseteq DOMAIN IDs
    /\ IsPrefix(streams[m], streams[n])
    => sent[m] = sent[n]

\* A batch comes apart into the streams it was put together from.  It may be lost only if it
\* was not deflated, and never when it starts with the request for the network settings, the
\* one batch the client sends so: the length of that request, 6, is not the start of a stream.
BatchIsKept ==
  /\ phase = "entries" => entries = streams
  /\ phase = "lost" => ~game.deflated /\ sent[1].codec # "request_network_settings"
===============================================================================
