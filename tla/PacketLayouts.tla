----------------------------- MODULE PacketLayouts -----------------------------
(***************************************************************************)
(* The put and get functions of mcmisc.c and mcpackets.c, as layouts: each *)
(* is written from its own function, the two of a pair independently.  A   *)
(* put function of mcpackets.c starts with the identifier of the packet,   *)
(* which server.c has taken from the stream before it calls a get function.*)
(***************************************************************************)
EXTENDS Layout

S == "string_var_int"
GAME_RULE_BOOLEAN == 1
GAME_RULE_SIGNED_VAR_INT == 2
GAME_RULE_FLOAT_LE == 3
ITEM_EXTRA_DATA_WITH_NBT == 65535
Shield == 355
-------------------------------------------------------------------------------
get_misc_login_tokens == Fs("string_int_le", <<"identity", "client">>)

get_misc_behavior_pack_infos ==
  <<Many("short_le", "infos",
      Fs(S, <<"uuid", "version">>) \o <<F("unsigned_long_le", "size")>>
        \o Fs(S, <<"content_key", "sub_pack_name", "content_identity">>)
        \o <<F("unsigned_byte", "has_scripts")>>)>>

get_misc_texture_pack_infos ==
  <<Many("short_le", "infos",
      Fs(S, <<"uuid", "version">>) \o <<F("unsigned_long_le", "size")>>
        \o Fs(S, <<"content_key", "sub_pack_name", "content_identity">>)
        \o Fs("unsigned_byte", <<"has_scripts", "rtx_enabled">>))>>

get_misc_resource_pack_id_versions == <<Many("var_int", "id_versions", Fs(S, <<"uuid", "version", "name">>))>>

get_misc_resource_pack_ids == <<Many("short_le", "ids", <<F(S, "id")>>)>>

get_misc_experiment == <<F(S, "name"), F("unsigned_byte", "enabled")>>

get_misc_experiments == <<Many("int_le", "entries", get_misc_experiment)>>

get_misc_game_rule ==
  <<F(S, "name"), F("unsigned_byte", "editable"), F("var_int", "type"),
    When("type", {GAME_RULE_BOOLEAN}, <<F("unsigned_byte", "boolean")>>),
    When("type", {GAME_RULE_SIGNED_VAR_INT}, <<F("signed_var_int", "signed_var_int")>>),
    When("type", {GAME_RULE_FLOAT_LE}, <<F("float_le", "float_le")>>)>>

get_misc_game_rules == <<Many("var_int", "entries", get_misc_game_rule)>>

get_misc_education_shared_resource_uri == Fs(S, <<"button_name", "link_uri">>)

get_misc_item_states ==
  <<Many("var_int", "entries", <<F(S, "name"), F("short_le", "runtime_id"), F("unsigned_byte", "component_based")>>)>>

get_misc_block_properties == <<Many("var_int", "entries", <<F(S, "name"), F("nbt", "nbt")>>)>>

get_misc_item_extra_data(has_blocking_tick) ==
  <<F("unsigned_short_le", "with_nbt"),
    When("with_nbt", {ITEM_EXTRA_DATA_WITH_NBT}, <<F("unsigned_byte", "nbt_version"), F("lnbt", "nbt")>>),
    Many("int_le", "can_place_on", <<F("byte_array_short_le", "id")>>),
    Many("int_le", "can_destroy", <<F("byte_array_short_le", "id")>>)>>
  \o (IF has_blocking_tick THEN <<F("long_le", "blocking_tick")>> ELSE <<>>)

get_misc_item(with_stack_id) ==
  <<F("signed_var_int", "network_id"),
    Unless("network_id", {0},
      <<F("unsigned_short_le", "count"), F("var_int", "metadata")>>
      \o (IF with_stack_id
          THEN <<F("unsigned_byte", "has_stack_id"), Unless("has_stack_id", {0}, <<F("signed_var_int", "stack_id")>>)>>
          ELSE <<>>)
      \o <<F("signed_var_int", "block_runtime_id"),
           When("network_id", {Shield}, <<Blob("var_int", "extra", get_misc_item_extra_data(TRUE))>>),
           Unless("network_id", {Shield}, <<Blob("var_int", "extra", get_misc_item_extra_data(FALSE))>>)>>)>>

get_misc_skin_image == <<F("int_le", "width"), F("int_le", "height"), F(S, "data")>>

get_misc_skin_animation ==
  <<Sub("image", get_misc_skin_image), F("int_le", "type"), F("float_le", "frames"), F("int_le", "expression_type")>>

\* The personas and the colours of their tints are stepped over, and the number of colours is
\* got again before each of them.
get_misc_skin ==
  Fs(S, <<"skin_id", "play_fab_id", "resources_patch">>)
  \o <<Sub("skin_image", get_misc_skin_image),
       Many("int_le", "animations", get_misc_skin_animation),
       Sub("cape_image", get_misc_skin_image)>>
  \o Fs(S, <<"geometry_data", "geometry_engine_version", "animation_data", "cape_id", "full_skin_id",
             "arm_size", "skin_color">>)
  \o <<Drop(<<Many("int_le", "personas",
                   Fs(S, <<"piece_id", "piece_type", "pack_id">>) \o <<Over(1), F(S, "product_id")>>)>>),
       Drop(<<Many("int_le", "tints", <<F(S, "piece_type"), Reread("int_le", <<F(S, "color")>>)>>)>>)>>
  \o Fs("unsigned_byte", <<"is_premium", "is_persona", "is_persona_cape_classic", "is_primary_user", "is_override">>)
-------------------------------------------------------------------------------
put_misc_login_tokens == Fs("string_int_le", <<"identity", "client">>)

put_misc_behavior_pack_infos ==
  <<Many("short_le", "infos",
      <<F(S, "uuid"), F(S, "version"), F("unsigned_long_le", "size"), F(S, "content_key"),
        F(S, "sub_pack_name"), F(S, "content_identity"), F("unsigned_byte", "has_scripts")>>)>>

put_misc_texture_pack_infos ==
  <<Many("short_le", "infos",
      <<F(S, "uuid"), F(S, "version"), F("unsigned_long_le", "size"), F(S, "content_key"),
        F(S, "sub_pack_name"), F(S, "content_identity"), F("unsigned_byte", "has_scripts"),
        F("unsigned_byte", "rtx_enabled")>>)>>

put_misc_resource_pack_id_versions == <<Many("var_int", "id_versions", Fs(S, <<"uuid", "version", "name">>))>>

put_misc_resource_pack_ids == <<Many("short_le", "ids", <<F(S, "id")>>)>>

put_misc_experiment == <<F(S, "name"), F("unsigned_byte", "enabled")>>

put_misc_experiments == <<Many("int_le", "entries", put_misc_experiment)>>

put_misc_game_rule ==
  <<F(S, "name"), F("unsigned_byte", "editable"), F("var_int", "type"),
    When("type", {GAME_RULE_BOOLEAN}, <<F("unsigned_byte", "boolean")>>),
    When("type", {GAME_RULE_SIGNED_VAR_INT}, <<F("signed_var_int", "signed_var_int")>>),
    When("type", {GAME_RULE_FLOAT_LE}, <<F("float_le", "float_le")>>)>>

put_misc_game_rules == <<Many("var_int", "entries", put_misc_game_rule)>>

put_misc_education_shared_resource_uri == Fs(S, <<"button_name", "link_uri">>)

put_misc_item_states ==
  <<Many("var_int", "entries", <<F(S, "name"), F("short_le", "runtime_id"), F("unsigned_byte", "component_based")>>)>>

put_misc_block_properties == <<Many("var_int", "entries", <<F(S, "name"), F("nbt", "nbt")>>)>>

put_misc_item_extra_data(has_blocking_tick) ==
  <<F("unsigned_short_le", "with_nbt"),
    When("with_nbt", {ITEM_EXTRA_DATA_WITH_NBT}, <<F("unsigned_byte", "nbt_version"), F("lnbt", "nbt")>>),
    Many("int_le", "can_place_on", <<F("byte_array_short_le", "id")>>),
    Many("int_le", "can_destroy", <<F("byte_array_short_le", "id")>>)>>
  \o (IF has_blocking_tick THEN <<F("long_le", "blocking_tick")>> ELSE <<>>)

put_misc_item(with_stack_id) ==
  <<F("signed_var_int", "network_id"),
    Unless("network_id", {0},
      <<F("unsigned_short_le", "count"), F("var_int", "metadata")>>
      \o (IF with_stack_id
          THEN <<F("unsigned_byte", "has_stack_id"), Unless("has_stack_id", {0}, <<F("signed_var_int", "stack_id")>>)>>
          ELSE <<>>)
      \o <<F("signed_var_int", "block_runtime_id"),
           When("network_id", {Shield}, <<Blob("var_int", "extra", put_misc_item_extra_data(TRUE))>>),
           Unless("network_id", {Shield}, <<Blob("var_int", "extra", put_misc_item_extra_data(FALSE))>>)>>)>>

put_misc_skin_image == <<F("int_le", "width"), F("int_le", "height"), F(S, "data")>>

put_misc_skin_animation ==
  <<Sub("image", put_misc_skin_image), F("int_le", "type"), F("float_le", "frames"), F("int_le", "expression_type")>>

put_misc_skin_persona ==
  Fs(S, <<"piece_id", "piece_type", "pack_id">>) \o <<F("unsigned_byte", "is_piece_default"), F(S, "product_id")>>

put_misc_skin_persona_tint_color == <<F(S, "piece_type"), Many("int_le", "colors", <<F(S, "color")>>)>>

put_misc_skin ==
  Fs(S, <<"skin_id", "play_fab_id", "resources_patch">>)
  \o <<Sub("skin_image", put_misc_skin_image),
       Many("int_le", "animations", put_misc_skin_animation),
       Sub("cape_image", put_misc_skin_image)>>
  \o Fs(S, <<"geometry_data", "geometry_engine_version", "animation_data", "cape_id", "full_skin_id",
             "arm_size", "skin_color">>)
  \o <<Many("int_le", "personas", put_misc_skin_persona),
       Many("int_le", "tints", put_misc_skin_persona_tint_color)>>
  \o Fs("unsigned_byte", <<"is_premium", "is_persona", "is_persona_cape_classic", "is_primary_user", "is_override">>)

put_misc_attributes ==
  Fs("float_le", <<"min", "max", "current", "default_v">>)
  \o <<F(S, "id"),
       Many("var_int", "modifiers",
         <<F(S, "id"), F(S, "name"), F("float_le", "amount"), F("int_le", "operation"), F("int_le", "operand"),
           F("unsigned_byte", "can_serialize")>>)>>

put_property_sync_data ==
  <<Many("var_int", "int_properties", <<F("var_int", "key"), F("signed_var_int", "int_property")>>),
    Many("var_int", "float_properties", <<F("var_int", "key"), F("float_le", "float_property")>>)>>
-------------------------------------------------------------------------------
(* mcpackets.c                                                               *)

Byte1 == "unsigned_byte"

IDs == [login |-> 1, play_status |-> 2, disconnect |-> 5, resource_packs_info |-> 6,
        resource_pack_stack |-> 7, resource_pack_client_response |-> 8, text |-> 9, set_time |-> 10,
        start_game |-> 11, move_entity |-> 18, move_player |-> 19, update_attributes |-> 29,
        interact |-> 33, container_open |-> 46, container_close |-> 47, level_chunk |-> 58,
        request_chunk_radius |-> 69, chunk_radius_updated |-> 70, player_skin |-> 93,
        available_entity_identifiers |-> 119, network_chunk_publisher_update |-> 121,
        biome_definition_list |-> 122, network_settings |-> 143, creative_content |-> 145,
        request_ability |-> 184, request_network_settings |-> 193]

Named == {1, 7, 8}                  \* TEXT_CHAT, TEXT_WHISPER, TEXT_ANNOUNCEMENT
Plain == {0, 5, 6, 9, 10, 11}       \* TEXT_RAW, TIP, SYSTEM, JSON_WHISPER, JSON, JSON_ANNOUNCEMENT
Translated == {2, 3, 4}             \* TEXT_TRANSLATION, TEXT_POPUP, TEXT_JUKEBOX_POPUP
Positioned == {3, 4}                \* INTERACT_LEAVE_VEHICLE, INTERACT_MOUSE_OVER_ENTITY
MOVE_PLAYER_MODE_TELEPORT == 2
Position == <<"position_x", "position_y", "position_z">>
-------------------------------------------------------------------------------
get_packet_login == <<F("int_be", "protocol_version"), Blob("var_int", "tokens", get_misc_login_tokens)>>

get_packet_request_network_setting == <<F("int_be", "protocol_version")>>

get_packet_resource_pack_client_response == <<F(Byte1, "response_status")>> \o get_misc_resource_pack_ids

get_packet_text ==
  <<F(Byte1, "type"), F(Byte1, "needs_translation"),
    When("type", Named, <<F(S, "source_name")>>),
    When("type", Named \cup Plain, <<F(S, "message")>>),
    When("type", Translated, <<F(S, "message"), Many("var_int", "parameters", <<F(S, "parameter")>>)>>),
    F(S, "xbox_userId"), F(S, "platform_chat_id")>>

get_packet_interact ==
  <<F(Byte1, "action_id"), F("var_long", "entity_runtime_id"),
    When("action_id", Positioned, Fs("float_le", Position))>>

get_packet_container_open ==
  <<F("byte", "window_id"), F("byte", "window_type"), F("signed_var_int", "coordinates_x"),
    F("var_int", "coordinates_y"), F("signed_var_int", "coordinates_z"), F("signed_var_long", "entity_unique_id")>>

get_packet_container_close == <<F("byte", "window_id"), F(Byte1, "server")>>

get_packet_move_player ==
  <<F("var_int", "runtime_id")>> \o Fs("float_le", Position \o <<"pitch", "yaw", "head_yaw">>)
  \o <<F(Byte1, "mode"), F(Byte1, "on_ground"), F("var_int", "ridden_runtime_id"),
       When("mode", {MOVE_PLAYER_MODE_TELEPORT},
            Fs("int_le", <<"teleport_cause", "teleport_source_entity_type">>)),
       F("var_long", "tick")>>

get_packet_request_chunk_radius == <<F("signed_var_int", "chunk_radius")>>

get_packet_player_skin ==
  <<F("uuid", "skin_uuid"), Sub("skin_data", get_misc_skin), F(S, "new_skin_name"), F(S, "old_skin_name"),
    F(Byte1, "verified")>>

get_packet_request_ability ==
  <<F("signed_var_int", "ability_id"), F(Byte1, "ability_type"), F(Byte1, "ability_bool"), F("float_le", "ability_float")>>
-------------------------------------------------------------------------------
put_packet_play_status == <<F("int_be", "status")>>

put_packet_disconnect ==
  <<When("message", {<<>>}, <<Literal(<<1>>)>>), Unless("message", {<<>>}, <<Literal(<<0>>), F(S, "message")>>)>>

put_packet_resource_packs_info ==
  Fs(Byte1, <<"must_accept", "has_scripts", "force_server_packs">>)
  \o <<Sub("behavior_packs", put_misc_behavior_pack_infos), Sub("texture_packs", put_misc_texture_pack_infos)>>

put_packet_resource_pack_stack ==
  <<F(Byte1, "must_accept"), Sub("behavior_packs", put_misc_resource_pack_id_versions),
    Sub("resource_packs", put_misc_resource_pack_id_versions), F(S, "game_version"),
    Sub("experiments", put_misc_experiments), F(Byte1, "experiments_previously_used")>>

put_packet_resource_pack_client_response == <<F(Byte1, "response_status")>> \o put_misc_resource_pack_ids

put_packet_text ==
  <<F(Byte1, "type"), F(Byte1, "needs_translation"),
    When("type", Named, <<F(S, "source_name")>>),
    When("type", Named \cup Plain, <<F(S, "message")>>),
    When("type", Translated, <<F(S, "message"), Many("var_int", "parameters", <<F(S, "parameter")>>)>>),
    F(S, "xbox_userId"), F(S, "platform_chat_id")>>

put_packet_set_time == <<F("signed_var_int", "time")>>

put_packet_start_game ==
  <<F("signed_var_long", "entity_unique_id"), F("var_long", "entity_runtime_id"), F("signed_var_int", "player_gamemode")>>
  \o Fs("float_le", <<"player_x", "player_y", "player_z", "pitch", "yaw">>)
  \o <<F("long_le", "seed"), F("short_le", "biome_type"), F(S, "biome_name")>>
  \o Fs("signed_var_int", <<"dimension", "generator", "world_gamemode", "difficulty", "spawn_x">>)
  \o <<F("var_int", "spawn_y"), F("signed_var_int", "spawn_z"), F(Byte1, "achievements_disabled"),
       Literal(<<0, 1, 0>>),
       F("signed_var_int", "day_cycle_stop_time"), F("signed_var_int", "edu_offer"),
       F(Byte1, "edu_features_enabled"), F(S, "edu_product_uuid")>>
  \o Fs("float_le", <<"rain_level", "lightning_level">>)
  \o Fs(Byte1, <<"has_confirmed_platform_locked_content", "is_multiplayer", "broadcast_to_lan">>)
  \o Fs("var_int", <<"xbox_live_broadcast_mode", "platform_broadcast_mode">>)
  \o Fs(Byte1, <<"enable_commands", "are_texture_packs_required">>)
  \o <<Sub("gamerules", put_misc_game_rules), Sub("experiments", put_misc_experiments)>>
  \o Fs(Byte1, <<"experiments_previously_used", "bonus_chest", "map_enabled">>)
  \o <<F("signed_var_int", "permission_level"), F("int_le", "server_chunk_tick_range")>>
  \o Fs(Byte1, <<"has_locked_behavior_pack", "has_locked_texture_pack", "is_from_locked_world_template",
                 "msa_gamertags_only", "is_from_world_template", "is_world_template_option_locked",
                 "only_spawn_v1_villagers">>)
  \o <<Literal(<<1, 0, 1>>), F(S, "game_version")>>
  \o Fs("int_le", <<"limited_world_width", "limited_world_length">>)
  \o <<F(Byte1, "is_new_nether"), Sub("edu_resource_uri", put_misc_education_shared_resource_uri),
       F(Byte1, "experimental_gameplay_override"), Literal(<<0, 0>>)>>
  \o Fs(S, <<"level_id", "world_name", "premium_world_template_id">>)
  \o <<F(Byte1, "is_trial"), F("signed_var_int", "movement_authority"), F("signed_var_int", "rewind_history_size"),
       F(Byte1, "server_authoritative_block_breaking"), F("long_le", "current_tick"),
       F("signed_var_int", "enchantment_seed"),
       Sub("block_properties", put_misc_block_properties), Sub("item_states", put_misc_item_states),
       F(S, "multiplayer_correlation_id"), F(Byte1, "server_authoritative_inventory"), F(S, "engine"),
       Literal(<<COMPOUND_TAG, 0, END_TAG>>), F("unsigned_long_le", "block_pallete_checksum"),
       Literal([n \in 1 .. UuidSize |-> 48]), Literal(<<0, 0, 0>>)>>

put_packet_biome_definition_list == <<F("nbt", "nbt")>>

put_packet_available_entity_identifiers == <<F("nbt", "nbt")>>

put_packet_creative_content ==
  <<Many("var_int", "entries", <<F("var_int", "entry_id"), Sub("item", put_misc_item(FALSE))>>)>>

put_packet_update_attributes ==
  <<F("var_long", "entity_runtime_id"), Many("var_int", "attributes", put_misc_attributes), F("var_long", "tick")>>

put_packet_interact ==
  <<F(Byte1, "action_id"), F("var_long", "entity_runtime_id"),
    When("action_id", Positioned, Fs("float_le", Position))>>

put_packet_container_open ==
  <<F("byte", "window_id"), F("byte", "window_type"), F("signed_var_int", "coordinates_x"),
    F("var_int", "coordinates_y"), F("signed_var_int", "coordinates_z"), F("signed_var_long", "entity_unique_id")>>

\* The flag that is got as a byte is put as a var int: the same byte, as the flag is 0 or 1.
put_packet_container_close == <<F("byte", "window_id"), F("var_int", "server")>>

put_packet_move_player ==
  <<F("var_int", "runtime_id")>> \o Fs("float_le", Position \o <<"pitch", "yaw", "head_yaw">>)
  \o <<F(Byte1, "mode"), F(Byte1, "on_ground"), F("var_int", "ridden_runtime_id"),
       When("mode", {MOVE_PLAYER_MODE_TELEPORT},
            Fs("int_le", <<"teleport_cause", "teleport_source_entity_type">>)),
       F("var_long", "tick")>>

\* The angles are bytes of 1.40625 degrees here.
put_packet_move_entity ==
  <<F("var_int", "runtime_id"), F(Byte1, "flags")>> \o Fs("float_le", Position)
  \o Fs(Byte1, <<"pitch", "yaw", "head_yaw">>)

put_packet_player_skin ==
  <<F("uuid", "skin_uuid"), Sub("skin_data", put_misc_skin), F(S, "new_skin_name"), F(S, "old_skin_name"),
    F(Byte1, "verified")>>

put_packet_network_chunk_publisher_update ==
  <<F("signed_var_int", "x"), F("var_int", "y"), F("signed_var_int", "z"), F("var_int", "radius"),
    Literal(<<0, 0, 0, 0>>)>>

put_packet_request_chunk_radius == <<F("signed_var_int", "chunk_radius")>>

put_packet_chunk_radius_updated == <<F("signed_var_int", "chunk_radius")>>

put_packet_level_chunk ==
  <<F("signed_var_int", "x"), F("signed_var_int", "z"), F("var_int", "sub_chunk_count"),
    When("sub_chunk_count", {Requested}, <<F("unsigned_short_le", "highest_subchunk_count")>>),
    F(Byte1, "cache_enabled"),
    Unless("cache_enabled", {0}, <<Many("var_int", "hashes", <<F("unsigned_long_le", "hash")>>)>>),
    F("byte_array_var_int", "payload")>>

put_packet_network_setting == <<Literal(<<1, 0, 0, 0, 0, 0, 0, 0, 0, 0>>)>>
================================================================================
