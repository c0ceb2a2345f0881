-------------------------------- MODULE Resources --------------------------------
(***************************************************************************)
(* The tables of resourcemanager.c: item states, block states and creative *)
(* items, read once from files, and the lookups of mcmapping.c in them.  A *)
(* block state has no number in its file: it gets the position of its name *)
(* among those of the same name that come one after the other, in one      *)
(* byte, and its runtime id is its position in the file.                   *)
(***************************************************************************)
EXTENDS Integers, Sequences, FiniteSets

CONSTANTS Files,      \* inputs: [items, blocks, creative], the contents of the files
          MaxByte,    \* 255 in the code: the highest value of uint8_t
          EmptyName,  \* the name no entry has
          NoName      \* input: what stands for the name of an entry without one

ASSUME ByteAssumption == MaxByte \in Nat
ASSUME BlocksAssumption == \A f \in Files : f.blocks \in Seq(STRING) /\ \A i \in DOMAIN f.blocks : f.blocks[i] # EmptyName

\* No two items have the same number.
ASSUME ItemsAssumption ==
  \A f \in Files :
    /\ f.items \in Seq([name : STRING, runtime_id : Int])
    /\ \A i, j \in DOMAIN f.items : f.items[i].runtime_id = f.items[j].runtime_id => i = j

\* What may be missing in an entry is a sequence of at most one value.
Optional(x, S) == x \in Seq(S) /\ Len(x) <= 1
ASSUME CreativeAssumption ==
  \A f \in Files :
    /\ f.creative \in Seq([name : STRING, metadata : Seq(Nat), block_name : Seq(STRING), block_metadata : Seq(Nat), nbt : BOOLEAN])
    /\ \A i \in DOMAIN f.creative : Optional(f.creative[i].block_name, STRING) /\ Optional(f.creative[i].block_metadata, Nat)

VARIABLES file,
          item_states,       \* [name, runtime_id]
          block_states,      \* [name, metadata]
          creative_items,    \* [network_id, metadata, block_runtime_id, with_nbt]
          old_name, metadata_counter,
          heap,              \* the blocks that are allocated
          wild,              \* the blocks that were freed without being allocated
          phase

vars == <<file, item_states, block_states, creative_items, old_name, metadata_counter, heap, wild, phase>>

-------------------------------------------------------------------------------
\* The lookups of mcmapping.c, all of them linear.
Byte(n) == n % (MaxByte + 1)
First(S) == CHOOSE i \in S : \A j \in S : i <= j

block_state_to_runtime_id(name, metadata, states) ==
  LET found == {i \in DOMAIN states : states[i].name = name /\ states[i].metadata = metadata}
  IN IF found = {} THEN -1 ELSE First(found) - 1

item_state_to_runtime_id(name, states) ==
  LET found == {i \in DOMAIN states : states[i].name = name}
  IN IF found = {} THEN -1 ELSE states[First(found)].runtime_id

runtime_id_to_item_state(runtime_id, states) ==
  LET found == {i \in DOMAIN states : states[i].runtime_id = runtime_id}
  IN IF found = {} THEN NoName ELSE states[First(found)].name
-------------------------------------------------------------------------------
Init ==
  /\ file \in Files
  /\ item_states = <<>> /\ block_states = <<>> /\ creative_items = <<>>
  /\ old_name = EmptyName /\ metadata_counter = 0
  /\ heap = {} /\ wild = {}
  /\ phase = "items"

\* The names are copied; the values of the JSON text are destroyed with it.  The two tags are
\* read before, and the array of the next table is allocated at once.
LoadItemStates ==
  /\ phase = "items"
  /\ item_states' = file.items
  /\ heap' = heap \cup {<<"item", i>> : i \in DOMAIN file.items} \cup {<<"biomes", 0>>, <<"entities", 0>>, <<"items", 0>>, <<"blocks", 0>>}
  /\ phase' = "blocks"
  /\ UNCHANGED <<file, block_states, creative_items, old_name, metadata_counter, wild>>

Position == Len(block_states) + 1

Counted(name) == IF old_name # name THEN 0 ELSE metadata_counter

\* Mutant: the last name is not kept.
MutLoadBlockState ==
  /\ phase = "blocks" /\ Position <= Len(file.blocks)
  /\ LET name == file.blocks[Position]
     IN /\ name # NoName
        /\ block_states' = Append(block_states, [name |-> name, metadata |-> Counted(name)])
        /\ metadata_counter' = (IF Counted(name) = MaxByte THEN 0 ELSE Counted(name) + 1)
  /\ heap' = heap \cup {<<"block", Position>>}
  /\ UNCHANGED <<file, item_states, creative_items, old_name, wild, phase>>

\* One round of the loop; a name is never compared with the one of another round than the last.
LoadBlockState ==
  /\ phase = "blocks" /\ Position <= Len(file.blocks)
  /\ LET name == file.blocks[Position]
     IN /\ name # NoName
        /\ block_states' = Append(block_states, [name |-> name, metadata |-> Counted(name)])
        /\ metadata_counter' = (IF Counted(name) = MaxByte THEN 0 ELSE Counted(name) + 1)
        /\ old_name' = name
  /\ heap' = heap \cup {<<"block", Position>>}
  /\ UNCHANGED <<file, item_states, creative_items, wild, phase>>

\* The process ends if the name is missing.
NameIsMissing ==
  /\ phase = "blocks" /\ Position <= Len(file.blocks)
  /\ file.blocks[Position] = NoName
  /\ phase' = "exit"
  /\ UNCHANGED <<file, item_states, block_states, creative_items, old_name, metadata_counter, heap, wild>>

\* Mutant: an item without a number for its block gets the block of the name.
MutCreativeItem(entry) ==
  [network_id       |-> item_state_to_runtime_id(entry.name, item_states),
   metadata         |-> IF entry.metadata = <<>> THEN 0 ELSE entry.metadata[1],
   block_runtime_id |-> IF entry.block_name # <<>>
                        THEN block_state_to_runtime_id(entry.block_name[1], IF entry.block_metadata = <<>> THEN 0 ELSE Byte(entry.block_metadata[1]), block_states)
                        ELSE 0,
   with_nbt         |-> entry.nbt]

\* An entry of creative_items.json.
CreativeItem(entry) ==
  [network_id       |-> item_state_to_runtime_id(entry.name, item_states),
   metadata         |-> IF entry.metadata = <<>> THEN 0 ELSE entry.metadata[1],
   block_runtime_id |-> IF entry.block_name # <<>> /\ entry.block_metadata # <<>>
                        THEN block_state_to_runtime_id(entry.block_name[1], Byte(entry.block_metadata[1]), block_states)
                        ELSE 0,
   with_nbt         |-> entry.nbt]

LoadCreativeItems ==
  /\ phase = "blocks" /\ Position > Len(file.blocks)
  /\ creative_items' = [i \in DOMAIN file.creative |-> CreativeItem(file.creative[i])]
  /\ heap' = heap \cup {<<"nbt", i>> : i \in {i \in DOMAIN file.creative : file.creative[i].nbt}} \cup {<<"creative", 0>>}
  /\ phase' = "loaded"
  /\ UNCHANGED <<file, item_states, block_states, old_name, metadata_counter, wild>>

Freed ==
  {<<"item", i>> : i \in DOMAIN item_states} \cup {<<"biomes", 0>>, <<"entities", 0>>, <<"items", 0>>}
  \cup {<<"block", i>> : i \in DOMAIN block_states} \cup {<<"blocks", 0>>}
  \cup {<<"nbt", i>> : i \in {i \in DOMAIN creative_items : creative_items[i].with_nbt}} \cup {<<"creative", 0>>}

destroy_resources ==
  /\ phase = "loaded"
  /\ heap' = heap \ Freed
  /\ wild' = Freed \ heap
  /\ phase' = "destroyed"
  /\ UNCHANGED <<file, item_states, block_states, creative_items, old_name, metadata_counter>>

Next == LoadItemStates \/ LoadBlockState \/ NameIsMissing \/ LoadCreativeItems \/ destroy_resources

Spec == Init /\ [][Next]_vars
-------------------------------------------------------------------------------
\* The names of the entries that are read stand between lo and hi, one after the other, and their
\* numbers fit in a byte.
Between(name, lo, hi) == \A k \in DOMAIN file.blocks : file.blocks[k] = name <=> k \in lo .. hi
Fits(name) == \E lo, hi \in DOMAIN file.blocks : hi - lo <= MaxByte /\ Between(name, lo, hi)

\* Whatever the file, every block state of a name that fits is found again under its name and its
\* number: the runtime id that goes into a chunk is the one of that state and of no other.
StatesAreFound ==
  \A i \in DOMAIN block_states :
    Fits(block_states[i].name) =>
      block_state_to_runtime_id(block_states[i].name, block_states[i].metadata, block_states) = i - 1

\* The numbers of the creative items mean, in the tables that are sent with them, what the file
\* says: the item of that name, and the state of the block that is the n-th of its name.
CreativeItemsMeanTheirNames ==
  \A i \in DOMAIN creative_items :
    LET item  == creative_items[i]
        entry == file.creative[i]
    IN /\ item.network_id # -1 => runtime_id_to_item_state(item.network_id, item_states) = entry.name
       /\ \A lo, hi \in DOMAIN file.blocks :
            (/\ entry.block_name # <<>> /\ Between(entry.block_name[1], lo, hi) /\ hi - lo <= MaxByte
             /\ entry.block_metadata # <<>> /\ entry.block_metadata[1] <= MaxByte) =>
              item.block_runtime_id = IF entry.block_metadata[1] <= hi - lo THEN lo - 1 + entry.block_metadata[1] ELSE -1
       /\ entry.block_name = <<>> \/ entry.block_metadata = <<>> => item.block_runtime_id = 0

\* destroy_resources frees what was loaded, and nothing that was not.
AllIsFreed == wild = {} /\ (phase = "destroyed" => heap = {})
===============================================================================
