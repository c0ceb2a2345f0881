------------------------------- MODULE RakPackets -------------------------------
(***************************************************************************)
(* The put and get functions of rakpacket.c, rakmisc.c and rakinternal.c   *)
(* as layouts, and a RakNet packet, a frame, or a message between the      *)
(* threads from the function that puts it to the one that gets it.  The    *)
(* acknowledgements, whose records are made by a loop of their own, are in *)
(* module AckRanges.                                                       *)
(***************************************************************************)
EXTENDS Layout

ID_CONNECTED_PING == 0
ID_UNCONNECTED_PING_OPEN_CONNECTIONS == 2
ID_CONNECTED_PONG == 3
ID_OPEN_CONNECTION_REQUEST_1 == 5
ID_OPEN_CONNECTION_REPLY_1 == 6
ID_OPEN_CONNECTION_REQUEST_2 == 7
ID_OPEN_CONNECTION_REPLY_2 == 8
ID_CONNECTION_REQUEST == 9
ID_CONNECTION_REQUEST_ACCEPTED == 16
ID_NEW_INCOMING_CONNECTION == 19
ID_INCOMPATIBLE_PROTOCOL_VERSION == 25
ID_UNCONNECTED_PONG == 28
ID_FRAME_SET == 128

INTERNAL_FRAME == 0
INTERNAL_NEW_INCOMING_CONNECTION == 1
INTERNAL_DISCONNECT_NOTIFICATION == 2
INTERNAL_SET_OPTION == 3

MAGIC == <<0, 255, 255, 0, 254, 254, 254, 254, 253, 253, 253, 253, 18, 52, 86, 120>>
AF_INET6 == <<10, 0>>
SystemAddresses == 20

Id(id) == Literal(<<id>>)
Long == "unsigned_long_be"
-------------------------------------------------------------------------------
is_reliable(reliability) == reliability \in {2, 3, 4, 6, 7}
is_sequenced(reliability) == reliability \in {1, 4}
is_ordered(reliability) == reliability \in {1, 3, 4, 7}

\* The first byte of a frame: the reliability in its three highest bits, then the fragment bit.
Flags == {32 * reliability + fragmented : reliability \in 0 .. 7, fragmented \in {0, 16}}
Reliability(flags) == flags \div 32
Reliable  == {f \in Flags : is_reliable(Reliability(f))}
Sequenced == {f \in Flags : is_sequenced(Reliability(f))}
Ordered   == {f \in Flags : is_ordered(Reliability(f))}
Fragments == {f \in Flags : (f \div 16) % 2 = 1}

put_misc_frame ==
  <<F("unsigned_byte", "flags"), F("bits", "size"),
    When("flags", Reliable, <<F("unsigned_triad_le", "reliable_frame_index")>>),
    When("flags", Sequenced, <<F("unsigned_triad_le", "sequenced_frame_index")>>),
    When("flags", Ordered, <<F("unsigned_triad_le", "ordered_frame_index"), F("unsigned_byte", "order_channel")>>),
    When("flags", Fragments,
      <<F("unsigned_int_be", "compound_size"), F("unsigned_short_be", "compound_id"), F("unsigned_int_be", "index")>>),
    Bytes("size", "stream")>>

get_misc_frame ==
  <<F("unsigned_byte", "flags"), F("bits", "size"),
    When("flags", Reliable, <<F("unsigned_triad_le", "reliable_frame_index")>>),
    When("flags", Sequenced, <<F("unsigned_triad_le", "sequenced_frame_index")>>),
    When("flags", Ordered, <<F("unsigned_triad_le", "ordered_frame_index"), F("unsigned_byte", "order_channel")>>),
    When("flags", Fragments,
      <<F("unsigned_int_be", "compound_size"), F("unsigned_short_be", "compound_id"), F("unsigned_int_be", "index")>>),
    Bytes("size", "stream")>>

\* Mutant: an ordered frame is counted without its channel.
Mut_get_frame_size(frame) ==
  3 + Len(frame.stream) + (IF frame.flags \in Reliable THEN 3 ELSE 0) + (IF frame.flags \in Sequenced THEN 3 ELSE 0)
    + (IF frame.flags \in Ordered THEN 3 ELSE 0) + (IF frame.flags \in Fragments THEN 10 ELSE 0)

get_frame_size(frame) ==
  3 + Len(frame.stream) + (IF frame.flags \in Reliable THEN 3 ELSE 0) + (IF frame.flags \in Sequenced THEN 3 ELSE 0)
    + (IF frame.flags \in Ordered THEN 4 ELSE 0) + (IF frame.flags \in Fragments THEN 10 ELSE 0)

\* The bytes of an address are turned in version 4.
put_misc_address ==
  <<F("unsigned_byte", "version"),
    When("version", {4}, <<F("ipv4", "address"), F("unsigned_short_be", "port")>>),
    Unless("version", {4},
      <<Literal(AF_INET6), F("unsigned_short_be", "port"), Literal(<<0, 0, 0, 0>>), F("ipv6", "address"),
        Literal(<<0, 0, 0, 0>>)>>)>>

get_misc_address ==
  <<F("unsigned_byte", "version"),
    When("version", {4}, <<F("ipv4", "address"), F("unsigned_short_be", "port")>>),
    Unless("version", {4},
      <<Over(2), F("unsigned_short_be", "port"), Over(4), F("ipv6", "address"), Over(4)>>)>>
-------------------------------------------------------------------------------
put_packet_unconnected_ping(opts) ==
  <<Id(IF opts # 0 THEN ID_UNCONNECTED_PING_OPEN_CONNECTIONS ELSE ID_UNCONNECTED_PONG),
    F(Long, "timestamp"), Literal(MAGIC), F(Long, "guid")>>
get_packet_unconnected_ping == <<Over(1), F(Long, "timestamp"), Over(16), F(Long, "guid")>>

put_packet_unconnected_pong ==
  <<Id(ID_UNCONNECTED_PONG), F(Long, "timestamp"), F(Long, "guid"), Literal(MAGIC), F("string_short_be", "message")>>
get_packet_unconnected_pong ==
  <<Over(1), F(Long, "timestamp"), F(Long, "guid"), Over(16), F("string_short_be", "message")>>

put_packet_incompatible_protocol_version ==
  <<Id(ID_INCOMPATIBLE_PROTOCOL_VERSION), F("unsigned_byte", "protocol_version"), Literal(MAGIC), F(Long, "guid")>>
get_packet_incompatible_protocol_version == <<Over(1), F("unsigned_byte", "protocol_version"), Over(16), F(Long, "guid")>>

\* Zeros fill the datagram up to the size that is tried; the receiver takes its size.
put_packet_open_connection_request_1 ==
  <<Id(ID_OPEN_CONNECTION_REQUEST_1), Literal(MAGIC), F("unsigned_byte", "protocol_version"), Padding("mtu_size", 18)>>
get_packet_open_connection_request_1 == <<Over(17), F("unsigned_byte", "protocol_version"), Padding("mtu_size", 18)>>

put_packet_open_connection_reply_1 ==
  <<Id(ID_OPEN_CONNECTION_REPLY_1), Literal(MAGIC), F(Long, "guid"), F("unsigned_byte", "use_security"),
    F("unsigned_short_be", "mtu_size")>>
get_packet_open_connection_reply_1 ==
  <<Over(17), F(Long, "guid"), F("unsigned_byte", "use_security"), F("unsigned_short_be", "mtu_size")>>

put_packet_open_connection_request_2 ==
  <<Id(ID_OPEN_CONNECTION_REQUEST_2), Literal(MAGIC), Sub("address", put_misc_address),
    F("unsigned_short_be", "mtu_size"), F(Long, "guid")>>
get_packet_open_connection_request_2 ==
  <<Over(17), Sub("address", get_misc_address), F("unsigned_short_be", "mtu_size"), F(Long, "guid")>>

put_packet_open_connection_reply_2 ==
  <<Id(ID_OPEN_CONNECTION_REPLY_2), Literal(MAGIC), F(Long, "guid"), Sub("address", put_misc_address),
    F("unsigned_short_be", "mtu_size"), F("unsigned_byte", "use_encryption")>>
get_packet_open_connection_reply_2 ==
  <<Over(17), F(Long, "guid"), Sub("address", get_misc_address), F("unsigned_short_be", "mtu_size"),
    F("unsigned_byte", "use_encryption")>>

put_packet_frame_set ==
  <<Id(ID_FRAME_SET), F("unsigned_triad_le", "sequence_number"), Rest("frames", put_misc_frame)>>
get_packet_frame_set == <<Over(1), F("unsigned_triad_le", "sequence_number"), Rest("frames", get_misc_frame)>>

put_packet_connection_request == <<Id(ID_CONNECTION_REQUEST), F(Long, "guid"), F(Long, "timestamp")>>
get_packet_connection_request == <<Over(1), F(Long, "guid"), F(Long, "timestamp")>>

put_packet_connection_request_accepted ==
  <<Id(ID_CONNECTION_REQUEST_ACCEPTED), Sub("address", put_misc_address), F("unsigned_short_be", "system_index"),
    Times(SystemAddresses, "system_addresses", put_misc_address), F(Long, "request_timestamp"), F(Long, "reply_timestamp")>>
get_packet_connection_request_accepted ==
  <<Over(1), Sub("address", get_misc_address), F("unsigned_short_be", "system_index"),
    Times(SystemAddresses, "system_addresses", get_misc_address), F(Long, "request_timestamp"), F(Long, "reply_timestamp")>>

put_packet_new_incoming_connection ==
  <<Id(ID_NEW_INCOMING_CONNECTION), Sub("address", put_misc_address),
    Times(SystemAddresses, "system_addresses", put_misc_address), F(Long, "request_timestamp"), F(Long, "reply_timestamp")>>
get_packet_new_incoming_connection ==
  <<Over(1), Sub("address", get_misc_address),
    Times(SystemAddresses, "system_addresses", get_misc_address), F(Long, "request_timestamp"), F(Long, "reply_timestamp")>>

put_packet_connected_ping == <<Id(ID_CONNECTED_PING), F(Long, "timestamp")>>
get_packet_connected_ping == <<Over(1), F(Long, "timestamp")>>

put_packet_connected_pong == <<Id(ID_CONNECTED_PONG), F(Long, "request_timestamp"), F(Long, "reply_timestamp")>>
get_packet_connected_pong == <<Over(1), F(Long, "request_timestamp"), F(Long, "reply_timestamp")>>
-------------------------------------------------------------------------------
\* The messages of the queues between the threads.
put_internal_address == <<F("string_int", "address"), F("unsigned_short_le", "port"), F("unsigned_byte", "version")>>

put_internal_frame ==
  <<Id(INTERNAL_FRAME)>> \o put_internal_address
  \o <<F("unsigned_byte", "reliability"),
       When("reliability", {r \in 0 .. 7 : is_reliable(r)}, <<F("unsigned_triad_le", "reliable_frame_index")>>),
       When("reliability", {r \in 0 .. 7 : is_sequenced(r)}, <<F("unsigned_triad_le", "sequenced_frame_index")>>),
       When("reliability", {r \in 0 .. 7 : is_ordered(r)},
            <<F("unsigned_triad_le", "ordered_frame_index"), F("unsigned_byte", "order_channel")>>),
       F("string_int", "stream")>>

get_internal_frame ==
  <<Over(1), F("string_int", "address"), F("unsigned_short_le", "port"),
    F("unsigned_byte", "version"), F("unsigned_byte", "reliability"),
    When("reliability", {r \in 0 .. 7 : is_reliable(r)}, <<F("unsigned_triad_le", "reliable_frame_index")>>),
    When("reliability", {r \in 0 .. 7 : is_sequenced(r)}, <<F("unsigned_triad_le", "sequenced_frame_index")>>),
    When("reliability", {r \in 0 .. 7 : is_ordered(r)},
         <<F("unsigned_triad_le", "ordered_frame_index"), F("unsigned_byte", "order_channel")>>),
    F("string_int", "stream")>>

put_internal_new_incoming_connection == <<Id(INTERNAL_NEW_INCOMING_CONNECTION)>> \o put_internal_address
get_internal_new_incoming_connection ==
  <<Over(1), F("string_int", "address"), F("unsigned_short_le", "port"), F("unsigned_byte", "version")>>

put_internal_disconnect_notification == <<Id(INTERNAL_DISCONNECT_NOTIFICATION)>> \o put_internal_address
get_internal_disconnect_notification ==
  <<Over(1), F("string_int", "address"), F("unsigned_short_le", "port"), F("unsigned_byte", "version")>>

put_internal_set_option == <<Id(INTERNAL_SET_OPTION), F("string_int", "name"), F("string_int", "option")>>
get_internal_set_option == <<Over(1), F("string_int", "name"), F("string_int", "option")>>
-------------------------------------------------------------------------------

CONSTANT Examples(_)  \* inputs: the structures that are put with a layout

VARIABLES codec,   \* what is put
          packet,  \* the structure
          stream,  \* its bytes
          got,     \* the structure that is got from them, once or never
          left     \* the bytes that are not taken

vars == <<codec, packet, stream, got, left>>

Puts ==
  [unconnected_ping |-> put_packet_unconnected_ping(0),
   unconnected_ping_open_connections |-> put_packet_unconnected_ping(1),
   unconnected_pong |-> put_packet_unconnected_pong,
   incompatible_protocol_version |-> put_packet_incompatible_protocol_version,
   open_connection_request_1 |-> put_packet_open_connection_request_1,
   open_connection_reply_1 |-> put_packet_open_connection_reply_1,
   open_connection_request_2 |-> put_packet_open_connection_request_2,
   open_connection_reply_2 |-> put_packet_open_connection_reply_2,
   frame_set |-> put_packet_frame_set, connection_request |-> put_packet_connection_request,
   connection_request_accepted |-> put_packet_connection_request_accepted,
   new_incoming_connection |-> put_packet_new_incoming_connection,
   connected_ping |-> put_packet_connected_ping, connected_pong |-> put_packet_connected_pong,
   internal_frame |-> put_internal_frame,
   internal_new_incoming_connection |-> put_internal_new_incoming_connection,
   internal_disconnect_notification |-> put_internal_disconnect_notification,
   internal_set_option |-> put_internal_set_option]

Gets ==
  [unconnected_ping |-> get_packet_unconnected_ping,
   unconnected_ping_open_connections |-> get_packet_unconnected_ping,
   unconnected_pong |-> get_packet_unconnected_pong,
   incompatible_protocol_version |-> get_packet_incompatible_protocol_version,
   open_connection_request_1 |-> get_packet_open_connection_request_1,
   open_connection_reply_1 |-> get_packet_open_connection_reply_1,
   open_connection_request_2 |-> get_packet_open_connection_request_2,
   open_connection_reply_2 |-> get_packet_open_connection_reply_2,
   frame_set |-> get_packet_frame_set, connection_request |-> get_packet_connection_request,
   connection_request_accepted |-> get_packet_connection_request_accepted,
   new_incoming_connection |-> get_packet_new_incoming_connection,
   connected_ping |-> get_packet_connected_ping, connected_pong |-> get_packet_connected_pong,
   internal_frame |-> get_internal_frame,
   internal_new_incoming_connection |-> get_internal_new_incoming_connection,
   internal_disconnect_notification |-> get_internal_disconnect_notification,
   internal_set_option |-> get_internal_set_option]

-------------------------------------------------------------------------------
Init ==
  /\ codec \in DOMAIN Puts
  /\ packet \in Examples(Puts[codec])
  /\ stream = <<>> /\ got = <<>> /\ left = 0

PutPacket ==
  /\ stream = <<>>
  /\ stream' = Put(Puts[codec], packet)
  /\ UNCHANGED <<codec, packet, got, left>>

GetPacket ==
  /\ stream # <<>> /\ got = <<>>
  /\ LET g == Get(Gets[codec], <<>>, Reader(stream))
     IN got' = <<g.value>> /\ left' = Len(stream) - g.reader.offset
  /\ UNCHANGED <<codec, packet, stream>>

Next == PutPacket \/ GetPacket

Spec == Init /\ [][Next]_vars
-------------------------------------------------------------------------------
\* What the server or a client gets is what the other put: every field in its place, for every
\* reliability, fragmented or not, any number of frames and both versions of an address.
ReadBack == got # <<>> => got = <<packet>>

\* Every byte is taken, but the last one of the datagram whose size is what it says.
LeavesNothing == got # <<>> => left = IF codec = "open_connection_request_1" THEN 1 ELSE 0

\* append_raknet_frame, which packs frames into a datagram up to the MTU, counts each with
\* get_frame_size: the sum is the number of bytes the datagram takes.
SizesAddUp ==
  codec = "frame_set" /\ stream # <<>> =>
    Len(stream) = FoldLeft(LAMBDA sum, frame : sum + get_frame_size(frame), 4, packet.frames)
================================================================================
