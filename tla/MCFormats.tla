------------------------------- MODULE MCFormats -------------------------------
(***************************************************************************)
(* The sequential parts that turn a structure into bytes or text and back, *)
(* and the search of a region file, in one run: `part` says which of them  *)
(* it is, and the others stand still.  But for the search, the numbers and *)
(* the base64 texts they share the variables of an exchange.               *)
(***************************************************************************)
EXTENDS RegionSearch, Layout, BinaryStream, Base64Exchange

CONSTANT MaxTokens  \* bound: tokens of a JSON text

VARIABLES part,
          input, codec, streams, game, entries, result, left, heap, wild, phase

exchange == <<input, codec, streams, game, entries, result, left, heap, wild, phase>>

Scalar(type, chars) == [type |-> type, chars |-> chars, keys |-> <<>>, members |-> <<>>]
Nested(type, keys, members) == [type |-> type, chars |-> <<>>, keys |-> keys, members |-> members]
S(codes) == Scalar("string", codes)
(* Structures made from their layouts: every way through the conditions, every *)
(* length of the lists up to a bound, and the rest all zero or all different.  *)

\* The values the conditions of a layout compare a field with.
RECURSIVE Compared(_, _)
Compared(layout, name) ==
  UNION {(IF layout[n].name = name THEN layout[n].values ELSE {}) \cup Compared(layout[n].of, name) :
           n \in {k \in DOMAIN layout : layout[k].do \in {"when", "unless"}}}

Other(format) == IF format \in DOMAIN Lengths THEN <<65>> ELSE 77

Zero(format) ==
  IF format \in DOMAIN Lengths THEN <<>>
  ELSE IF format \in DOMAIN Order THEN [tag_id |-> END_TAG]
  ELSE IF format \in DOMAIN Sizes THEN [n \in 1 .. Sizes[format] |-> 0]
  ELSE IF format = "ipv4" THEN <<0, 0, 0, 0>>
  ELSE 0

Different(format, seed) ==
  LET k == (seed % 50) + 1
  IN IF format \in DOMAIN Lengths THEN [n \in 1 .. (k % 2) + 1 |-> 64 + k]
     ELSE IF format \in DOMAIN Order
     THEN [tag_id |-> COMPOUND_TAG, name |-> <<64 + k>>,
           data |-> <<[tag_id |-> BYTE_TAG, name |-> <<>>, data |-> k]>>]
     ELSE IF format \in DOMAIN Sizes THEN [n \in 1 .. Sizes[format] |-> k + n]
     ELSE IF format = "ipv4" THEN <<127, 0, k, 1>>
     ELSE IF format \in {"signed_var_int", "signed_var_long"} /\ k % 2 = 1 THEN -k
     ELSE k

\* The structures of a layout, with the fields of base; seed 0 gives the zeros.
RECURSIVE Extensions(_, _, _, _)
Extensions(layout, base, seed, most) ==
  LET At(n) == IF seed = 0 THEN 0 ELSE seed + n
      Lists(s, n, count) ==
        LET one == Extensions(s.of, <<>>, At(n), most)
            two == Extensions(s.of, <<>>, At(n + 19), most)
        IN CASE count = 0 -> {<<>>}
             [] count = 1 -> {<<a>> : a \in one}
             [] count = 2 -> {<<a, b>> : a \in one, b \in two}
      Step(ps, n) ==
        LET s == layout[n]
            With(values) == {p @@ (s.name :> v) : p \in ps, v \in values}
        IN CASE s.do = "field" ->
                  With(IF Compared(layout, s.name) # {} THEN Compared(layout, s.name) \cup {Other(s.format)}
                       ELSE IF seed = 0 THEN {Zero(s.format)} ELSE {Different(s.format, At(n))})
             [] s.do \in {"many", "rest"} -> With(UNION {Lists(s, n, count) : count \in 0 .. most})
             [] s.do = "padding" -> With({s.size + k : k \in 0 .. most})
             [] s.do = "times" -> With({[k \in 1 .. s.n |-> x] : x \in Extensions(s.of, <<>>, At(n), most)})
             [] s.do \in {"sub", "blob"} -> With(Extensions(s.of, <<>>, At(n), most))
             [] s.do \in {"when", "unless"} ->
                  UNION {IF (p[s.name] \in s.values) = (s.do = "when")
                         THEN Extensions(s.of, p, At(3 * n), most) ELSE {p} : p \in ps}
             \* As many bytes as the field says, which is given its values here.
             [] s.do = "bytes" ->
                  {[p EXCEPT ![s.size] = count] @@ (s.name :> [k \in 1 .. count |-> At(n + k) % 128]) :
                     p \in ps, count \in 0 .. most}
             [] OTHER -> ps
  IN FoldLeft(Step, {base}, [n \in DOMAIN layout |-> n])

Structures(layout, seed, most) == Extensions(layout, <<>>, seed, most)
-------------------------------------------------------------------------------
(* Numbers: every value of a kind of at most four bytes of two bits, every     *)
(* ninth of a longer one; two items at the ends of their ranges and around the *)
(* first step of a var int.                                                    *)

AllValues(kind) ==
  IF kind = "bytes" THEN {<<>>, <<3, 0>>}
  ELSE LET n == SizeOf(kind) IN {v \in Legal(kind) : n <= 256 \/ v % 9 = 0 \/ v \in {-(n \div 2), -1, n - 1}}

Edges(kind) ==
  IF kind = "bytes" THEN {<<>>, <<3, 0>>}
  ELSE LET n == SizeOf(kind) IN {-(n \div 2), -1, 0, 1, 2, (n \div 2) - 1, n - 1} \cap Legal(kind)

OneNumber  == (put = <<>> /\ StreamNext) \/ GetItem
TwoNumbers == (\E kind \in Kinds : \E v \in Edges(kind) : PutItem(kind, v)) \/ GetItem
-------------------------------------------------------------------------------
(* Tags: two levels of all of them, and lists and compounds in each other.     *)

Words == {<<>>, <<104, 105>>}
Flat == [tag_id : NumberTags, data : {5}] \cup [tag_id : ArrayTags, data : {<<>>, <<1, 2, 3>>}]

\* A compound of the tags of s, each named by its place.
CompoundOf(s) ==
  [tag_id |-> COMPOUND_TAG,
   data |-> [n \in DOMAIN s |-> [tag_id |-> s[n].tag_id, name |-> <<96 + n>>, data |-> s[n].data]]]

\* A list of the data of s, tags of one type; the empty list has the end tag.
ListOf(s) ==
  [tag_id |-> LIST_TAG,
   data |-> [tag_id |-> IF s = <<>> THEN END_TAG ELSE s[1].tag_id, items |-> [n \in DOMAIN s |-> s[n].data]]]

\* Compounds and lists of at most two of the tags.
Nest(tags) ==
  {CompoundOf(<<>>), ListOf(<<>>)}
    \cup {CompoundOf(<<t>>) : t \in tags} \cup {ListOf(<<t>>) : t \in tags}
    \cup {CompoundOf(<<t, u>>) : t \in tags, u \in tags}
    \cup {ListOf(<<p[1], p[2]>>) : p \in {q \in tags \X tags : q[1].tag_id = q[2].tag_id}}

Few  == {t \in Flat : t.tag_id \in {SHORT_TAG, STRING_TAG, LONG_ARRAY_TAG}}
Deep == {CompoundOf(<<ListOf(<<CompoundOf(<<t>>), CompoundOf(<<u, t>>)>>), u>>) : t \in Flat, u \in Few}

Data == Flat \cup Nest(Flat) \cup Deep
          \cup Nest({ListOf(<<>>), CompoundOf(<<>>)} \cup {ListOf(<<t>>) : t \in Few} \cup {CompoundOf(<<t>>) : t \in Few})

Named(t, name) == [tag_id |-> t.tag_id, name |-> name, data |-> t.data]

MCTrees == {[tag_id |-> END_TAG]} \cup {Named(t, name) : t \in Flat, name \in Words} \cup {Named(t, <<104>>) : t \in Data}

Tree == INSTANCE NbtTree WITH
  Trees <- MCTrees, Trailer <- <<0, 7>>, tree <- input, endianess <- codec, stream <- streams, reader <- entries, read <- result
-------------------------------------------------------------------------------
(* Packets: every kind, with lists of at most two entries; pairs of one kind;  *)
(* batches of three of some kinds.                                             *)

\* A disconnect is a message or none, and a skin with colours is not got back (see the hazards).
Colourless(name, p) == name = "player_skin" => \A n \in DOMAIN p.skin_data.tints : p.skin_data.tints[n].colors = <<>>
PacketExamples(name, layout, most) ==
  IF name = "disconnect" THEN {[message |-> <<>>], [message |-> <<65, 66>>], [message |-> <<65>>]}
  ELSE UNION {{p \in Structures(layout, seed, most) : Colourless(name, p)} : seed \in {0, 1}}

SomeCodecs == {"request_network_settings", "play_status", "interact", "resource_pack_client_response",
               "disconnect", "container_close"}

\* Those with an identifier, and the structures that are put by themselves.
AllCodecs ==
  {"login", "request_network_settings", "request_ability", "play_status", "disconnect", "resource_packs_info",
   "resource_pack_stack", "resource_pack_client_response", "text", "set_time", "start_game", "move_entity",
   "move_player", "update_attributes", "interact", "container_open", "container_close", "level_chunk",
   "request_chunk_radius", "chunk_radius_updated", "player_skin", "available_entity_identifiers",
   "network_chunk_publisher_update", "biome_definition_list", "network_settings", "creative_content"}
  \cup {"misc_login_tokens", "misc_behavior_pack_infos", "misc_texture_pack_infos", "misc_resource_pack_id_versions",
        "misc_experiments", "misc_game_rules", "misc_education_shared_resource_uri", "misc_item_states",
        "misc_block_properties", "misc_item", "misc_item_without_stack_id", "property_sync_data"}

\* The structures of every codec, which TLC computes once.
NoExamples(name, layout) == {}
Sides == INSTANCE Packets WITH Examples <- NoExamples, Codecs <- {}, MaxBatch <- 0, sent <- input, got <- result
Long  == [name \in AllCodecs |-> PacketExamples(name, Sides!Puts[name], 2)]
Short == [name \in AllCodecs |-> PacketExamples(name, Sides!Puts[name], 1)]
LongExamples(name, layout)  == Long[name]
ShortExamples(name, layout) == Short[name]

Packet == INSTANCE Packets WITH Examples <- LongExamples, Codecs <- AllCodecs, MaxBatch <- 1, sent <- input, got <- result
Pair   == INSTANCE Packets WITH Examples <- ShortExamples, Codecs <- AllCodecs, MaxBatch <- 2, sent <- input, got <- result
Batch  == INSTANCE Packets WITH Examples <- ShortExamples, Codecs <- SomeCodecs, MaxBatch <- 3, sent <- input, got <- result

\* The values that no condition of a layout names: a frame that is neither reliable nor a
\* fragment, and an address of version 6.
Given(p, name, value) == IF name \in DOMAIN p /\ p[name] = 77 THEN [p EXCEPT ![name] = value] ELSE p
Real(p) == Given(Given(p, "flags", 0), "version", 6)
AllReal(p) ==
  [name \in DOMAIN p |->
     IF name \in {"frames", "system_addresses"} THEN [n \in DOMAIN p[name] |-> Real(p[name][n])]
     ELSE IF name = "address" /\ "port" \notin DOMAIN p THEN Real(p[name])
     ELSE Real(p)[name]]
RakExamples(layout) == {AllReal(p) : p \in UNION {Structures(layout, seed, 2) : seed \in {0, 1}}}

Raknet == INSTANCE RakPackets WITH Examples <- RakExamples, packet <- input, stream <- streams, got <- result
-------------------------------------------------------------------------------
(* JSON: nested values, strings at the ends of what one to four bytes hold;    *)
(* texts of tokens, most of them not JSON.                                     *)

Chars == {1, 9, 10, 34, 44, 58, 63, 91, 92, 93, 97, 123, 125, 127, 128, 2047, 2048, 57344, 65535, 65536, 1114111}
Strings == {S(<<>>)} \cup {S(<<c>>) : c \in Chars} \cup {S(<<c, d>>) : c, d \in Chars}
Leaves  == {Scalar("null", <<>>), Scalar("bool", <<0>>), Scalar("bool", <<1>>), Scalar("int", <<55>>),
            Scalar("int", <<45, 49, 48>>), Scalar("float", <<48, 46, 53>>), S(<<97>>), S(<<34>>)}
Keys    == {<<97>>, <<98>>, <<34>>}

Around(vs) ==
  {Nested("array", <<>>, ms) : ms \in {<<>>} \cup {<<a>> : a \in vs} \cup {<<a, b>> : a, b \in vs}}
  \cup {Nested("object", ks, ms) : <<ks, ms>> \in
          {<<<<>>, <<>>>>} \cup {<<<<k>>, <<a>>>> : k \in Keys, a \in vs}
          \cup {<<<<k, l>>, <<a, b>>>> : k, l \in Keys, a, b \in vs}}

Inner == {Nested("array", <<>>, <<>>), Nested("object", <<>>, <<>>),
          Nested("array", <<>>, <<S(<<97>>), Nested("object", <<<<97>>>>, <<Scalar("int", <<49>>)>>)>>),
          Nested("object", <<<<97>>, <<98>>>>, <<Nested("array", <<>>, <<Scalar("null", <<>>)>>), S(<<98>>)>>)}

MCValues == Around(Leaves) \cup Around(Inner)
            \cup {Nested("array", <<>>, <<s>>) : s \in Strings} \cup {Nested("object", <<s.chars>>, <<s>>) : s \in Strings}

\* A number must not be followed by a tab at once.
MCGaps == {<<>>, <<32>>, <<13, 10, 9>>}

\* A quote by itself starts or ends a string of what is around it.
Tokens == {<<123>>, <<125>>, <<91>>, <<93>>, <<44>>, <<58>>, <<34, 97, 34>>, <<34>>, <<49>>, <<34, 97, 34, 58, 49>>}
MCTexts == {<<first>> \o FlattenSeq(s) : first \in {123, 91}, s \in UNION {[1 .. n -> Tokens] : n \in 0 .. MaxTokens}}

JsonValue == INSTANCE Json WITH
  Values <- MCValues, Gaps <- MCGaps, Texts <- MCTexts, text <- streams, meant <- input
-------------------------------------------------------------------------------
(* Base64: bytes whose digits are 0, 1, 62 and 63 at each place of a group, of *)
(* every length modulo three; tokens of strings that end in each way, followed *)
(* in memory by nothing, a quote, a brace, a digit or a low surrogate.         *)

Octets == {0, 1, 4, 239, 251, 255}
MCInputs == UNION {[1 .. n -> Octets] : n \in 0 .. 3} \cup {[k \in 1 .. n |-> (k * 67) % 256] : n \in 4 .. 14}

Endings == {S([k \in 1 .. n |-> 126] \o last) : n \in 0 .. 2, last \in {<<>>, <<62>>, <<127>>, <<2047>>, <<55295>>, <<65536>>}}
MCHeaders == {Nested("object", <<<<97>>>>, <<s>>) : s \in Endings}
MCPayloads == {Nested("object", <<<<101>>, <<107>>>>, <<v, S(<<126>>)>>) : v \in {Scalar("int", <<49, 50>>), Scalar("null", <<>>)}}
              \cup {Nested("object", <<<<101>>>>, <<v>>) : v \in {Scalar("float", <<49, 46, 53>>), Scalar("bool", <<1>>), Nested("array", <<>>, <<S(<<62>>)>>)}}
MCBeyond == {<<>>, <<34>>, <<125>>, <<49>>, <<92, 117, 100, 99, 48, 48, 34, 125>>}

Token == INSTANCE Jwt WITH
  Headers <- MCHeaders, Payloads <- MCPayloads, Signatures <- {<<0, 255, 251>>}, Beyond <- MCBeyond,
  header <- input, payload <- codec, signature <- left, token <- streams, jwt <- result
-------------------------------------------------------------------------------
SearchIdle ==
  /\ free_size = 0 /\ free_map = <<>> /\ required = 0 /\ pc = "first" /\ sector = 0 /\ run_start = -1 /\ run_length = 0

TextIdle ==
  original = <<>> /\ encoder = "none" /\ way = "direct" /\ text = <<>> /\ decoder = "none" /\ decoded = Null

ExchangeIdle ==
  /\ input = <<>> /\ codec = <<>> /\ streams = <<>> /\ game = <<>> /\ entries = <<>> /\ result = <<>> /\ left = <<>>
  /\ heap = {} /\ wild = {} /\ phase = <<>>

FormatsInit ==
  /\ StreamInit
  /\ \/ part = "search" /\ SearchInit /\ TextIdle /\ ExchangeIdle
     \/ part \in {"number", "numbers"} /\ SearchIdle /\ TextIdle /\ ExchangeIdle
     \/ part = "base64" /\ SearchIdle /\ TextInit /\ ExchangeIdle
     \/ /\ SearchIdle /\ TextIdle
        /\ \/ part = "tree" /\ Tree!Init /\ game = <<>> /\ left = <<>>
           \/ /\ \/ part = "packet" /\ Packet!Init
                 \/ part = "pair" /\ Pair!Init
                 \/ part = "batch" /\ Batch!Init
              /\ codec = <<>> /\ heap = {} /\ wild = {}
           \/ part = "raknet" /\ Raknet!Init /\ game = <<>> /\ entries = <<>> /\ heap = {} /\ wild = {} /\ phase = <<>>
           \/ part = "json" /\ JsonValue!Init /\ codec = <<>> /\ game = <<>> /\ entries = <<>> /\ left = <<>>
           \/ part = "jwt" /\ Token!Init /\ game = <<>> /\ entries = <<>> /\ heap = {} /\ wild = {} /\ phase = <<>>

\* Pairs of packets of one kind, which go no further.
PutPair == Pair!PutPacket /\ input'[1].codec = input'[Len(input')].codec

FormatsNext ==
  /\ UNCHANGED part
  /\ \/ part = "search" /\ SearchNext /\ UNCHANGED <<stream, letter, exchange>>
     \/ /\ \/ part = "number" /\ OneNumber
           \/ part = "numbers" /\ TwoNumbers
        /\ UNCHANGED <<search, letter, exchange>>
     \/ part = "base64" /\ TextNext /\ UNCHANGED <<search, stream, exchange>>
     \/ /\ UNCHANGED <<search, stream, letter>>
        /\ \/ part = "tree" /\ Tree!Next /\ UNCHANGED <<game, left>>
           \/ /\ \/ part = "packet" /\ Packet!Next
                 \/ part = "pair" /\ PutPair
                 \/ part = "batch" /\ Batch!Next
              /\ UNCHANGED <<codec, heap, wild>>
           \/ part = "raknet" /\ Raknet!Next /\ UNCHANGED <<game, entries, heap, wild, phase>>
           \/ part = "json" /\ JsonValue!Next /\ UNCHANGED <<codec, game, entries, left>>
           \/ part = "jwt" /\ Token!Next /\ UNCHANGED <<game, entries, heap, wild, phase>>
-------------------------------------------------------------------------------
\* What is got back is what was put: tags, packets of both protocols, JSON and the parts of a
\* token; and the getter stands behind it, no byte left and none taken of what follows (nbt.c,
\* mcmisc.c and mcpackets.c, rakmisc.c and rakpacket.c, json.c, jwt.c).  The size that
\* get_frame_size gives a frame, by which frames are packed up to the MTU, is the number of bytes
\* the frame takes in the datagram (rakmisc.c:159).  Nothing comes out of a JSON text that is not
\* in it: a member of an object never ends up under the key of another one, and what was accepted
\* reads the same again (json.c:486).
ReadBack ==
  CASE part = "tree"    -> Tree!ReadBack
    [] part = "packet"  -> Packet!ReadBack /\ Packet!LeavesNothing
    [] part = "raknet"  -> Raknet!ReadBack /\ Raknet!LeavesNothing /\ Raknet!SizesAddUp
    [] part = "json"    -> JsonValue!ReadBack /\ JsonValue!MembersBelongToKeys /\ JsonValue!ReadsAgain
    [] part = "jwt"     -> Token!EndDoesNotMatter /\ Token!SignedPartIsWhole
    [] OTHER            -> TRUE

\* Packets are told apart by their bytes, and a batch comes apart into what was put in it
\* (mcpackets.c:38, 16).
ComesApart ==
  /\ part = "pair" => Pair!TellApart
  /\ part = "batch" => Batch!BatchIsKept

\* Destroying a tree of tags or of JSON values gives back every block that getting it has
\* allocated, each once, however it is nested (nbt.c:485, json.c:600).
AllIsFreed ==
  /\ part = "tree" => Tree!NothingLeaks /\ Tree!FreedOnce
  /\ part = "json" => JsonValue!AllIsFreed
================================================================================
