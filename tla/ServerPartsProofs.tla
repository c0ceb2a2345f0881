--------------------------- MODULE ServerPartsProofs ---------------------------
(***************************************************************************)
(* Proofs about the sequential parts of the server: the tables of          *)
(* Resources for all files and any width of the counter, the console's     *)
(* commands for any names, and what a login decides for any tokens.        *)
(***************************************************************************)
EXTENDS Resources, CommandManager, Login, FiniteSetTheorems, WellFoundedInduction, TLAPS

BlockState == [name : STRING, metadata : 0 .. MaxByte]

\* The entries from lo to i have the name of entry i, and the one before lo has another.
Run(lo, i) ==
  /\ \A k \in lo .. i : file.blocks[k] = file.blocks[i]
  /\ lo = 1 \/ file.blocks[lo - 1] # file.blocks[lo]

\* The numbers count from the start of each run as long as they fit in a byte.
NumbersCount ==
  \A i, lo \in DOMAIN block_states :
    lo <= i /\ Run(lo, i) /\ i - lo <= MaxByte => block_states[i].metadata = i - lo

\* The two variables of the loop belong to the last entry.
LoopVariables ==
  /\ metadata_counter \in 0 .. MaxByte
  /\ block_states = <<>> => old_name = EmptyName
  /\ block_states # <<>> =>
       LET last == block_states[Len(block_states)]
       IN /\ old_name = last.name
          /\ metadata_counter = (IF last.metadata = MaxByte THEN 0 ELSE last.metadata + 1)

NamesAreRead ==
  /\ block_states \in Seq(BlockState)
  /\ Len(block_states) <= Len(file.blocks)
  /\ \A i \in DOMAIN block_states : block_states[i].name = file.blocks[i]

IInv == file \in Files /\ NamesAreRead /\ LoopVariables /\ NumbersCount

-------------------------------------------------------------------------------
LEMMA InitIInv == Init => IInv
  <1> SUFFICES ASSUME Init PROVE IInv
    OBVIOUS
  <1>1. block_states = <<>> /\ file \in Files /\ metadata_counter = 0 /\ old_name = EmptyName
    BY DEF Init
  <1>2. file.blocks \in Seq(STRING)
    BY <1>1, BlocksAssumption
  <1>3. NamesAreRead
    BY <1>1, <1>2 DEF NamesAreRead
  <1>4. LoopVariables
    BY <1>1, ByteAssumption DEF LoopVariables
  <1>5. NumbersCount
    BY <1>1 DEF NumbersCount
  <1> QED
    BY <1>1, <1>3, <1>4, <1>5 DEF IInv

\* The step of the loop, apart from what the other steps leave alone.
LEMMA LoadKeepsNames == IInv /\ LoadBlockState => NamesAreRead' /\ LoopVariables'
  <1> SUFFICES ASSUME IInv, LoadBlockState PROVE NamesAreRead' /\ LoopVariables'
    OBVIOUS
  <1> DEFINE n == Len(block_states)
             name == file.blocks[n + 1]
             c == Counted(name)
  <1>1. block_states \in Seq(BlockState) /\ n \in Nat /\ n + 1 <= Len(file.blocks) /\ file' = file
    BY DEF IInv, NamesAreRead, LoadBlockState, Position
  <1>2. file.blocks \in Seq(STRING) /\ name \in STRING
    BY <1>1, BlocksAssumption DEF IInv
  <1>3. c \in 0 .. MaxByte
    BY ByteAssumption DEF IInv, LoopVariables, Counted
  <1>4. /\ block_states' = Append(block_states, [name |-> name, metadata |-> c])
        /\ metadata_counter' = (IF c = MaxByte THEN 0 ELSE c + 1)
        /\ old_name' = name
    BY DEF LoadBlockState, Position
  <1> HIDE DEF c
  <1>5. [name |-> name, metadata |-> c] \in BlockState
    BY <1>2, <1>3 DEF BlockState
  <1>6. /\ block_states' \in Seq(BlockState) /\ Len(block_states') = n + 1
        /\ block_states'[n + 1] = [name |-> name, metadata |-> c]
        /\ \A i \in 1 .. n : block_states'[i] = block_states[i]
    BY <1>1, <1>4, <1>5
  <1>7. NamesAreRead'
    BY <1>1, <1>6 DEF IInv, NamesAreRead
  <1>8. LoopVariables'
    BY <1>1, <1>3, <1>4, <1>6, ByteAssumption DEF LoopVariables
  <1> QED
    BY <1>7, <1>8

LEMMA LoadKeepsNumbers == IInv /\ LoadBlockState => NumbersCount'
  <1> SUFFICES ASSUME IInv, LoadBlockState,
                      NEW i \in DOMAIN block_states', NEW lo \in DOMAIN block_states',
                      lo <= i, Run(lo, i)', i - lo <= MaxByte
               PROVE  block_states'[i].metadata = i - lo
    BY DEF NumbersCount
  <1> DEFINE n == Len(block_states)
             name == file.blocks[n + 1]
             c == Counted(name)
  <1>1. /\ block_states \in Seq(BlockState) /\ n \in Nat /\ n + 1 <= Len(file.blocks) /\ file' = file
        /\ file.blocks \in Seq(STRING) /\ name # EmptyName
    BY BlocksAssumption DEF IInv, NamesAreRead, LoadBlockState, Position
  <1>2. block_states' = Append(block_states, [name |-> name, metadata |-> c])
    BY DEF LoadBlockState, Position
  <1> HIDE DEF c
  <1>3. /\ DOMAIN block_states' = 1 .. n + 1 /\ DOMAIN block_states = 1 .. n
        /\ block_states'[n + 1].metadata = c
        /\ \A k \in 1 .. n : block_states'[k] = block_states[k]
    BY <1>1, <1>2
  <1>4. Run(lo, i)
    BY <1>1 DEF Run
  <1>5. CASE i # n + 1
    BY <1>3, <1>4, <1>5 DEF IInv, NumbersCount
  <1>6. CASE i = n + 1 /\ lo = i
    <2>1. n = 0 \/ file.blocks[n] # name
      BY <1>1, <1>4, <1>6 DEF Run
    <2>2. n = 0 => old_name = EmptyName
      BY <1>1 DEF IInv, LoopVariables
    <2>3. n # 0 => old_name = file.blocks[n]
      BY <1>1 DEF IInv, LoopVariables, NamesAreRead
    <2>4. c = 0
      BY <1>1, <2>1, <2>2, <2>3 DEF c, Counted
    <2> QED
      BY <1>3, <1>6, <2>4
  <1>7. CASE i = n + 1 /\ lo # i
    <2>1. lo \in 1 .. n /\ n \in 1 .. n
      BY <1>3, <1>7
    <2>2. file.blocks[n] = name /\ \A k \in lo .. n : file.blocks[k] = file.blocks[n]
      BY <1>1, <1>4, <1>7, <2>1 DEF Run
    <2>3. Run(lo, n)
      BY <1>4, <2>2 DEF Run
    <2>4. block_states[n].metadata = n - lo /\ n - lo < MaxByte
      BY <1>3, <1>7, <2>1, <2>3, ByteAssumption DEF IInv, NumbersCount
    <2>5. old_name = name /\ metadata_counter = n - lo + 1
      BY <1>1, <2>1, <2>2, <2>4, ByteAssumption DEF IInv, LoopVariables, NamesAreRead
    <2>6. c = n - lo + 1
      BY <2>5 DEF c, Counted
    <2> QED
      BY <1>3, <1>7, <2>1, <2>6
  <1> QED
    BY <1>5, <1>6, <1>7

LEMMA OthersKeepIInv ==
  IInv /\ UNCHANGED <<file, block_states, old_name, metadata_counter>> => IInv'
  <1> SUFFICES ASSUME IInv, UNCHANGED <<file, block_states, old_name, metadata_counter>> PROVE IInv'
    OBVIOUS
  <1>1. NamesAreRead' /\ LoopVariables'
    BY DEF IInv, NamesAreRead, LoopVariables
  <1>2. NumbersCount'
    BY DEF IInv, NumbersCount, Run
  <1> QED
    BY <1>1, <1>2 DEF IInv

LEMMA NextIInv == IInv /\ [Next]_vars => IInv'
  <1> SUFFICES ASSUME IInv, [Next]_vars PROVE IInv'
    OBVIOUS
  <1>1. CASE LoadBlockState
    BY <1>1, LoadKeepsNames, LoadKeepsNumbers DEF IInv, LoadBlockState
  <1>2. CASE ~LoadBlockState
    <2>1. UNCHANGED <<file, block_states, old_name, metadata_counter>>
      BY <1>2 DEF Next, LoadItemStates, NameIsMissing, LoadCreativeItems, destroy_resources, vars
    <2> QED
      BY <2>1, OthersKeepIInv
  <1> QED
    BY <1>1, <1>2

THEOREM SpecIInv == Spec => []IInv
  BY InitIInv, NextIInv, PTL DEF Spec
-------------------------------------------------------------------------------
\* Entry k is numbered from the first of its name.
LEMMA Numbered ==
  ASSUME IInv, NEW name \in STRING, NEW lo \in DOMAIN file.blocks, NEW hi \in DOMAIN file.blocks,
         Between(name, lo, hi), hi - lo <= MaxByte, NEW k \in DOMAIN block_states, block_states[k].name = name
  PROVE  k \in lo .. hi /\ block_states[k].metadata = k - lo
  <1>1. /\ block_states \in Seq(BlockState) /\ file.blocks \in Seq(STRING) /\ Len(block_states) <= Len(file.blocks)
        /\ block_states[k].name = file.blocks[k]
    BY BlocksAssumption DEF IInv, NamesAreRead
  <1>2. k \in DOMAIN file.blocks /\ k \in lo .. hi /\ lo \in DOMAIN block_states
    BY <1>1 DEF Between
  <1>3. \A j \in lo .. k : file.blocks[j] = name
    BY <1>1, <1>2 DEF Between
  <1>4. lo = 1 \/ (lo - 1 \in DOMAIN file.blocks /\ file.blocks[lo - 1] # name)
    BY <1>1, <1>2 DEF Between
  <1>5. Run(lo, k)
    BY <1>1, <1>2, <1>3, <1>4 DEF Run
  <1> QED
    BY <1>1, <1>2, <1>5, ByteAssumption DEF IInv, NumbersCount

\* A block state that is the n-th of a name that fits, and has been read, is what the lookup finds.
LEMMA FoundAt ==
  ASSUME IInv, NEW name \in STRING, NEW lo \in DOMAIN file.blocks, NEW hi \in DOMAIN file.blocks,
         Between(name, lo, hi), hi - lo <= MaxByte, NEW k \in DOMAIN block_states, k \in lo .. hi
  PROVE  block_state_to_runtime_id(name, k - lo, block_states) = k - 1
  <1> DEFINE found == {i \in DOMAIN block_states : block_states[i].name = name /\ block_states[i].metadata = k - lo}
  <1>1. /\ block_states \in Seq(BlockState) /\ file.blocks \in Seq(STRING) /\ k \in DOMAIN file.blocks
        /\ block_states[k].name = name
    BY BlocksAssumption DEF IInv, NamesAreRead, Between
  <1>2. \A i \in found : i = k
    <2> SUFFICES ASSUME NEW i \in found PROVE i = k
      OBVIOUS
    <2>1. block_states[i].metadata = i - lo /\ block_states[i].metadata = k - lo
      BY Numbered
    <2> QED
      BY <2>1, <1>1
  <1>3. k \in found
    BY <1>1, Numbered
  <1>4. found = {k}
    BY <1>2, <1>3
  <1>5. First({k}) = k
    BY <1>1 DEF First
  <1> HIDE DEF found
  <1>6. First(found) = k /\ found # {}
    BY <1>4, <1>5
  <1> QED
    BY <1>6 DEF block_state_to_runtime_id, found

\* The runtime id of every block state whose name fits is the one of that state.
THEOREM BlockStatesAreFound == Spec => []StatesAreFound
  <1>1. IInv => StatesAreFound
    <2> SUFFICES ASSUME IInv, NEW i \in DOMAIN block_states, Fits(block_states[i].name)
                 PROVE  block_state_to_runtime_id(block_states[i].name, block_states[i].metadata, block_states) = i - 1
      BY DEF StatesAreFound
    <2>1. PICK lo, hi \in DOMAIN file.blocks : hi - lo <= MaxByte /\ Between(block_states[i].name, lo, hi)
      BY DEF Fits
    <2>2. block_states[i].name \in STRING
      <3>1. block_states \in Seq(BlockState)
        BY DEF IInv, NamesAreRead
      <3>2. block_states[i] \in BlockState
        BY <3>1
      <3> QED
        BY <3>2 DEF BlockState
    <2>3. i \in lo .. hi /\ block_states[i].metadata = i - lo
      BY <2>1, <2>2, Numbered
    <2>4. block_state_to_runtime_id(block_states[i].name, i - lo, block_states) = i - 1
      BY <2>1, <2>2, <2>3, FoundAt
    <2> QED
      BY <2>3, <2>4
  <1> QED
    BY <1>1, SpecIInv, PTL
-------------------------------------------------------------------------------
\* What is allocated in each phase.
Tables ==
  /\ phase \in {"items", "blocks", "exit", "loaded", "destroyed"}
  /\ wild = {}
  /\ phase = "items" => block_states = <<>> /\ item_states = <<>> /\ creative_items = <<>> /\ heap = {}
  /\ phase # "items" => item_states = file.items
  /\ phase \in {"blocks", "exit"} =>
       /\ creative_items = <<>>
       /\ heap = {<<"item", i>> : i \in DOMAIN item_states} \cup {<<"biomes", 0>>, <<"entities", 0>>, <<"items", 0>>, <<"blocks", 0>>}
                 \cup {<<"block", i>> : i \in DOMAIN block_states}
  /\ phase \in {"loaded", "destroyed"} =>
       /\ Len(block_states) = Len(file.blocks)
       /\ creative_items = [i \in DOMAIN file.creative |-> CreativeItem(file.creative[i])]
  /\ phase = "loaded" => heap = Freed
  /\ phase = "destroyed" => heap = {}

LEMMA InitTables == Init => Tables
  BY DEF Init, Tables

LEMMA NextTables == IInv /\ Tables /\ [Next]_vars => Tables'
  <1> SUFFICES ASSUME IInv, Tables, [Next]_vars PROVE Tables'
    OBVIOUS
  <1>0. block_states \in Seq(BlockState) /\ file.blocks \in Seq(STRING) /\ Len(block_states) <= Len(file.blocks)
    BY BlocksAssumption DEF IInv, NamesAreRead
  <1>1. CASE LoadItemStates
    BY <1>1 DEF LoadItemStates, Tables
  <1>2. CASE LoadBlockState
    <2>1. DOMAIN block_states' = DOMAIN block_states \cup {Position}
      BY <1>0, <1>2 DEF LoadBlockState, Position
    <2>2. heap' = heap \cup {<<"block", Position>>} /\ phase = "blocks"
          /\ UNCHANGED <<file, item_states, creative_items, wild, phase>>
      BY <1>2 DEF LoadBlockState
    <2> QED
      BY <2>1, <2>2 DEF Tables
  <1>3. CASE NameIsMissing
    BY <1>3 DEF NameIsMissing, Tables
  <1>4. CASE LoadCreativeItems
    <2>1. /\ phase = "blocks" /\ phase' = "loaded" /\ Len(block_states) = Len(file.blocks)
          /\ creative_items' = [i \in DOMAIN file.creative |-> CreativeItem(file.creative[i])]
          /\ UNCHANGED <<file, item_states, block_states, wild>>
      BY <1>0, <1>4 DEF LoadCreativeItems, Position
    <2>2. creative_items' = [i \in DOMAIN file.creative |-> CreativeItem(file.creative[i])']
      BY <2>1 DEF CreativeItem
    <2>3. \A i \in DOMAIN file.creative : creative_items'[i].with_nbt = file.creative[i].nbt
      BY <2>1 DEF CreativeItem
    <2>4. heap' = Freed'
      BY <1>4, <2>1, <2>3, ZenonT(60) DEF LoadCreativeItems, Tables, Freed
    <2> QED
      BY <2>1, <2>2, <2>4 DEF Tables
  <1>5. CASE destroy_resources
    <2>1. heap' = {} /\ wild' = {}
      BY <1>5 DEF destroy_resources, Tables
    <2> QED
      BY <1>5, <2>1 DEF destroy_resources, Tables, CreativeItem
  <1>6. CASE UNCHANGED vars
    BY <1>6 DEF vars, Tables, Freed, CreativeItem
  <1> QED
    BY <1>1, <1>2, <1>3, <1>4, <1>5, <1>6 DEF Next

THEOREM SpecTables == Spec => []Tables
  BY InitTables, NextTables, SpecIInv, PTL DEF Spec

\* Everything that was loaded is freed, and nothing else.
THEOREM ResourcesAreFreed == Spec => []AllIsFreed
  <1>1. Tables => AllIsFreed
    BY DEF Tables, AllIsFreed
  <1> QED
    BY <1>1, SpecTables, PTL
-------------------------------------------------------------------------------
\* No state has a number past the last one of its name.
LEMMA NotFound ==
  ASSUME IInv, NEW name \in STRING, NEW lo \in DOMAIN file.blocks, NEW hi \in DOMAIN file.blocks,
         Between(name, lo, hi), hi - lo <= MaxByte, NEW metadata \in Nat, metadata > hi - lo
  PROVE  block_state_to_runtime_id(name, metadata, block_states) = -1
  <1>1. file.blocks \in Seq(STRING)
    BY BlocksAssumption DEF IInv
  <1>2. \A i \in DOMAIN block_states : ~(block_states[i].name = name /\ block_states[i].metadata = metadata)
    <2> SUFFICES ASSUME NEW i \in DOMAIN block_states, block_states[i].name = name, block_states[i].metadata = metadata
                 PROVE  FALSE
      OBVIOUS
    <2>1. i \in lo .. hi /\ metadata = i - lo
      BY Numbered
    <2> QED
      BY <1>1, <2>1
  <1> QED
    BY <1>2 DEF block_state_to_runtime_id

\* A position that is searched for is found if there is one.
LEMMA FirstIsMember ==
  ASSUME NEW S, S \subseteq Nat, S # {}
  PROVE  First(S) \in S
  <1>1. IsWellFoundedOn(OpToRel(<, Nat), Nat)
    BY NatLessThanWellFounded
  <1>2. PICK n \in S : \A m \in S : <<m, n>> \notin OpToRel(<, Nat)
    BY <1>1, WFMin
  <1>3. \A m \in S : n <= m
    <2>1. \A m \in S : ~(m < n)
      BY <1>2 DEF OpToRel
    <2> QED
      BY <2>1
  <1> QED
    BY <1>3 DEF First

\* Two items of one table do not share a number.
LEMMA ItemsAreNamed ==
  ASSUME IInv, Tables, phase # "items", NEW name, item_state_to_runtime_id(name, item_states) # -1
  PROVE  runtime_id_to_item_state(item_state_to_runtime_id(name, item_states), item_states) = name
  <1> DEFINE found == {i \in DOMAIN item_states : item_states[i].name = name}
             id == item_states[First(found)].runtime_id
             back == {i \in DOMAIN item_states : item_states[i].runtime_id = id}
  <1>1. /\ item_states \in Seq([name : STRING, runtime_id : Int])
        /\ \A i, j \in DOMAIN item_states : item_states[i].runtime_id = item_states[j].runtime_id => i = j
    BY ItemsAssumption DEF IInv, Tables
  <1>2. found # {} /\ item_state_to_runtime_id(name, item_states) = id
    BY DEF item_state_to_runtime_id
  <1>4. found \subseteq Nat
    BY <1>1
  <1> HIDE DEF found
  <1>6. First(found) \in found
    BY <1>2, <1>4, FirstIsMember
  <1>7. First(found) \in DOMAIN item_states /\ item_states[First(found)].name = name
    BY <1>6 DEF found
  <1> HIDE DEF id
  <1>8. back = {First(found)}
    BY <1>1, <1>7 DEF id
  <1>9. First({First(found)}) = First(found)
    BY <1>1, <1>7 DEF First
  <1> HIDE DEF back
  <1>10. First(back) = First(found) /\ back # {}
    BY <1>8, <1>9
  <1>11. runtime_id_to_item_state(id, item_states) = item_states[First(back)].name
    BY <1>10 DEF runtime_id_to_item_state, back
  <1> QED
    BY <1>2, <1>7, <1>10, <1>11

\* What a creative item says of its block, once all block states are read.
LEMMA BlockIsMeant ==
  ASSUME IInv, Len(block_states) = Len(file.blocks), NEW name \in STRING, NEW metadata \in Nat, metadata <= MaxByte,
         NEW lo \in DOMAIN file.blocks, NEW hi \in DOMAIN file.blocks, Between(name, lo, hi), hi - lo <= MaxByte
  PROVE  block_state_to_runtime_id(name, Byte(metadata), block_states) = IF metadata <= hi - lo THEN lo - 1 + metadata ELSE -1
  <1>1. /\ block_states \in Seq(BlockState) /\ file.blocks \in Seq(STRING)
        /\ DOMAIN block_states = DOMAIN file.blocks
    BY BlocksAssumption DEF IInv, NamesAreRead
  <1>2. Byte(metadata) = metadata
    BY ByteAssumption DEF Byte
  <1>3. CASE metadata <= hi - lo
    <2>1. lo + metadata \in lo .. hi /\ lo + metadata \in DOMAIN block_states /\ (lo + metadata) - lo = metadata
      BY <1>1, <1>3
    <2>2. block_state_to_runtime_id(name, (lo + metadata) - lo, block_states) = (lo + metadata) - 1
      BY <2>1, FoundAt
    <2>3. (lo + metadata) - 1 = lo - 1 + metadata
      BY <1>1
    <2> QED
      BY <1>2, <1>3, <2>1, <2>2, <2>3
  <1>4. CASE ~(metadata <= hi - lo)
    <2>1. metadata > hi - lo
      BY <1>1, <1>4
    <2>2. block_state_to_runtime_id(name, metadata, block_states) = -1
      BY <2>1, NotFound
    <2> QED
      BY <1>2, <1>4, <2>2
  <1> QED
    BY <1>3, <1>4

\* The numbers of the creative items mean what the files say, in the tables that are sent with them.
THEOREM CreativeItemsAreMeant == Spec => []CreativeItemsMeanTheirNames
  <1>1. IInv /\ Tables => CreativeItemsMeanTheirNames
    <2> SUFFICES ASSUME IInv, Tables, NEW i \in DOMAIN creative_items
                 PROVE  LET item  == creative_items[i]
                            entry == file.creative[i]
                        IN /\ item.network_id # -1 => runtime_id_to_item_state(item.network_id, item_states) = entry.name
                           /\ \A lo, hi \in DOMAIN file.blocks :
                                (/\ entry.block_name # <<>> /\ Between(entry.block_name[1], lo, hi) /\ hi - lo <= MaxByte
                                 /\ entry.block_metadata # <<>> /\ entry.block_metadata[1] <= MaxByte) =>
                                  item.block_runtime_id = IF entry.block_metadata[1] <= hi - lo
                                                          THEN lo - 1 + entry.block_metadata[1] ELSE -1
                           /\ entry.block_name = <<>> \/ entry.block_metadata = <<>> => item.block_runtime_id = 0
      BY DEF CreativeItemsMeanTheirNames
    <2> DEFINE entry == file.creative[i]
               item == creative_items[i]
    <2>1. phase \in {"loaded", "destroyed"}
      BY DEF Tables
    <2>2. /\ Len(block_states) = Len(file.blocks) /\ phase # "items"
          /\ i \in DOMAIN file.creative /\ item = CreativeItem(entry)
      BY <2>1 DEF Tables
    <2>3. /\ Optional(entry.block_name, STRING) /\ Optional(entry.block_metadata, Nat)
      BY <2>2, CreativeAssumption DEF IInv
    <2>4. /\ item.network_id = item_state_to_runtime_id(entry.name, item_states)
          /\ item.block_runtime_id = IF entry.block_name # <<>> /\ entry.block_metadata # <<>>
                                     THEN block_state_to_runtime_id(entry.block_name[1], Byte(entry.block_metadata[1]), block_states)
                                     ELSE 0
      BY <2>2 DEF CreativeItem
    <2> HIDE DEF item
    <2>5. item.network_id # -1 => runtime_id_to_item_state(item.network_id, item_states) = entry.name
      BY <2>2, <2>4, ItemsAreNamed
    <2>6. ASSUME NEW lo \in DOMAIN file.blocks, NEW hi \in DOMAIN file.blocks,
                 entry.block_name # <<>>, Between(entry.block_name[1], lo, hi), hi - lo <= MaxByte,
                 entry.block_metadata # <<>>, entry.block_metadata[1] <= MaxByte
          PROVE  item.block_runtime_id = IF entry.block_metadata[1] <= hi - lo THEN lo - 1 + entry.block_metadata[1] ELSE -1
      <3>1. entry.block_name[1] \in STRING /\ entry.block_metadata[1] \in Nat
        BY <2>3, <2>6 DEF Optional
      <3>2. item.block_runtime_id = block_state_to_runtime_id(entry.block_name[1], Byte(entry.block_metadata[1]), block_states)
        BY <2>4, <2>6
      <3> HIDE DEF entry
      <3> QED
        BY <2>2, <2>6, <3>1, <3>2, BlockIsMeant
    <2> QED
      BY <2>4, <2>5, <2>6 DEF item
  <1> QED
    BY <1>1, SpecIInv, SpecTables, PTL

-------------------------------------------------------------------------------
(* The console's commands *)

LEMMA SmallestNat == ASSUME NEW T \in SUBSET Nat, T # {} PROVE \E n \in T : \A t \in T : n <= t
<1>1. IsWellFoundedOn(OpToRel(<, Nat), Nat)
  BY NatLessThanWellFounded
<1>2. PICK n \in T : \A t \in T : <<t, n>> \notin OpToRel(<, Nat)
  BY <1>1, WFMin
<1>3. \A t \in T : ~(t < n)
  BY <1>2 DEF OpToRel
<1> QED
  BY <1>3

UpTo(S, k) == {j \in S : j <= k}

\* After the k-th number of a set comes its next: the least of those that are greater.
LEMMA NextPlace ==
  ASSUME NEW S \in SUBSET Nat, IsFiniteSet(S), NEW L \in SUBSET S, L # S,
         \A a \in L, b \in S \ L : a < b
  PROVE  \E k \in S : Cardinality(UpTo(S, k)) = Cardinality(L) + 1
<1>1. PICK k \in S \ L : \A t \in S \ L : k <= t
  BY SmallestNat
<1>2. UpTo(S, k) = L \cup {k}
  <2>1. \A j \in S : j <= k <=> j \in L \/ j = k
    <3> SUFFICES ASSUME NEW j \in S PROVE j <= k <=> j \in L \/ j = k
      OBVIOUS
    <3>1. j \in Nat /\ k \in Nat /\ k \in S \ L
      BY <1>1
    <3>2. CASE j \in L
      BY <3>1, <3>2
    <3>3. CASE j \notin L
      BY <1>1, <3>1, <3>3
    <3> QED
      BY <3>2, <3>3
  <2> QED
    BY <1>1, <2>1 DEF UpTo
<1>3. Cardinality(L \cup {k}) = Cardinality(L) + 1
  BY <1>1, FS_Subset, FS_AddElement
<1> QED
  BY <1>1, <1>2, <1>3

LEMMA PlaceExists ==
  ASSUME NEW S \in SUBSET Nat, IsFiniteSet(S), NEW n \in 1 .. Cardinality(S)
  PROVE  \E k \in S : Cardinality(UpTo(S, k)) = n
<1> DEFINE Has(m) == \E k \in S : Cardinality(UpTo(S, k)) = m
           T == {m \in 1 .. Cardinality(S) : ~Has(m)}
<1>0. Cardinality(S) \in Nat
  BY FS_CardinalityType
<1>1. SUFFICES ASSUME T # {} PROVE FALSE
  <2> HIDE DEF Has
  <2> QED
    BY DEF Has
<1> HIDE DEF T
<1>2. PICK m \in T : \A t \in T : m <= t
  <2>1. T \in SUBSET Nat
    BY <1>0 DEF T
  <2> QED
    BY <1>1, <2>1, SmallestNat
<1>3. m \in 1 .. Cardinality(S) /\ ~Has(m)
  BY <1>2 DEF T
<1>4. CASE m = 1
  <2>1. Cardinality({}) = 0 /\ S # {}
    BY <1>0, <1>3, FS_EmptySet
  <2> QED
    BY <1>3, <1>4, <2>1, NextPlace
<1>5. CASE m # 1
  <2>1. m - 1 \in 1 .. Cardinality(S) /\ m - 1 < m /\ m - 1 < Cardinality(S)
    BY <1>0, <1>3, <1>5
  <2>2. Has(m - 1)
    BY <1>0, <1>2, <2>1 DEF T
  <2>3. PICK k \in S : Cardinality(UpTo(S, k)) = m - 1
    BY <2>2
  <2>4. UpTo(S, k) \in SUBSET S /\ UpTo(S, k) # S /\ \A a \in UpTo(S, k), b \in S \ UpTo(S, k) : a < b
    BY <2>1, <2>3 DEF UpTo
  <2>5. Has((m - 1) + 1)
    BY <2>3, <2>4, NextPlace
  <2> QED
    BY <1>0, <1>3, <2>5
<1> QED
  BY <1>4, <1>5

\* Where the n-th kept command was.
LEMMA PlaceIs ==
  ASSUME NEW S \in SUBSET Nat, IsFiniteSet(S)
  PROVE  /\ \A n \in 1 .. Cardinality(S) : Place(S, n) \in S
         /\ \A m, n \in 1 .. Cardinality(S) : Place(S, m) = Place(S, n) => m = n
         /\ \A k \in S : \E n \in 1 .. Cardinality(S) : Place(S, n) = k
<1>1. ASSUME NEW n \in 1 .. Cardinality(S)
      PROVE  Place(S, n) \in S /\ Cardinality(UpTo(S, Place(S, n))) = n
  BY PlaceExists DEF Place, UpTo
<1>2. ASSUME NEW k \in S
      PROVE  \E n \in 1 .. Cardinality(S) : Place(S, n) = k
  <2> DEFINE n == Cardinality(UpTo(S, k))
  <2>1. UpTo(S, k) \in SUBSET S /\ IsFiniteSet(UpTo(S, k)) /\ k \in UpTo(S, k)
    BY <1>2, FS_Subset DEF UpTo
  <2>2. n \in 1 .. Cardinality(S)
    BY <2>1, FS_Subset, FS_CardinalityType, FS_EmptySet
  <2>3. ASSUME NEW a \in S, NEW b \in S, a < b PROVE UpTo(S, a) # UpTo(S, b) /\ UpTo(S, a) \in SUBSET UpTo(S, b)
    <3>1. a \in Nat /\ b \in Nat
      OBVIOUS
    <3>2. b \in UpTo(S, b) /\ b \notin UpTo(S, a)
      BY <2>3, <3>1 DEF UpTo
    <3>3. \A j \in S : j <= a => j <= b
      BY <2>3, <3>1
    <3> QED
      BY <3>2, <3>3 DEF UpTo
  <2>4. ASSUME NEW a \in S, NEW b \in S, a < b PROVE Cardinality(UpTo(S, a)) # Cardinality(UpTo(S, b))
    <3>1. IsFiniteSet(UpTo(S, b))
      BY FS_Subset DEF UpTo
    <3> QED
      BY <2>3, <2>4, <3>1, FS_Subset
  <2>5. Place(S, n) \in S /\ Cardinality(UpTo(S, Place(S, n))) = n
    BY <1>1, <2>2
  <2>6. Place(S, n) = k
    <3>1. Place(S, n) \in Nat /\ k \in Nat
      BY <1>2, <2>5
    <3>2. ~(Place(S, n) < k) /\ ~(k < Place(S, n))
      BY <1>2, <2>4, <2>5
    <3> QED
      BY <3>1, <3>2
  <2> QED
    BY <2>2, <2>6
<1> QED
  BY <1>1, <1>2

LEMMA AppendIs ==
  ASSUME NEW S, NEW s \in Seq(S), NEW e \in S
  PROVE  /\ Append(s, e) \in Seq(S) /\ Len(Append(s, e)) = Len(s) + 1 /\ Append(s, e)[Len(s) + 1] = e
         /\ \A m \in 1 .. Len(s) : Append(s, e)[m] = s[m]
  OBVIOUS

\* What is left of a list without a name: the others, all of them.
AllLeft(s, name) ==
  /\ Others(s, name) \in Seq(Command)
  /\ \A j \in DOMAIN s : s[j].name # name => \E n \in DOMAIN Others(s, name) : Others(s, name)[n] = s[j]

LEMMA OthersAreLeft == ASSUME NEW s \in Seq(Command), NEW name PROVE AllLeft(s, name)
<1> DEFINE kept == DOMAIN s \ Named(s, name)
           c == Cardinality(kept)
<1>1. kept \in SUBSET Nat /\ IsFiniteSet(kept) /\ c \in Nat
  <2>1. IsFiniteSet(DOMAIN s) /\ DOMAIN s \in SUBSET Nat
    <3>1. DOMAIN s = 1 .. Len(s) /\ Len(s) \in Nat
      OBVIOUS
    <3>2. 1 \in Int /\ Len(s) \in Int
      BY <3>1
    <3> QED
      BY <3>1, <3>2, FS_Interval
  <2> QED
    BY <2>1, FS_Subset, FS_CardinalityType
<1>2. /\ \A n \in 1 .. c : Place(kept, n) \in kept
      /\ \A k \in kept : \E n \in 1 .. c : Place(kept, n) = k
  BY <1>1, PlaceIs
<1>3. Others(s, name) = [n \in 1 .. c |-> s[Place(kept, n)]]
  BY DEF Others
<1>4. \A k \in kept : k \in DOMAIN s /\ s[k] \in Command
  OBVIOUS
<1>5. \A j \in DOMAIN s : s[j].name # name => j \in kept
  BY DEF Named
<1> HIDE DEF kept, c
<1>6. Others(s, name) \in [1 .. c -> Command]
  BY <1>2, <1>3, <1>4
<1>7. Others(s, name) \in Seq(Command)
  BY <1>1, <1>6
<1>8. ASSUME NEW j \in DOMAIN s, s[j].name # name
      PROVE  \E n \in DOMAIN Others(s, name) : Others(s, name)[n] = s[j]
  <2>1. PICK n \in 1 .. c : Place(kept, n) = j
    BY <1>2, <1>5, <1>8
  <2> QED
    BY <1>3, <2>1
<1> QED
  BY <1>7, <1>8 DEF AllLeft

\* The inductive invariant.
ConsoleInv ==
  /\ commands \in Seq(Command \cup {Unset})
  /\ registered \in Seq(Command)
  /\ CommandsAreFound

LEMMA InitConsole == ConsoleInit => ConsoleInv
<1> SUFFICES ASSUME ConsoleInit PROVE ConsoleInv
  OBVIOUS
<1>1. commands = <<>> /\ commands_count = 0 /\ registered = <<>> /\ executed = <<>>
  BY DEF ConsoleInit
<1>2. commands \in Seq(Command \cup {Unset}) /\ registered \in Seq(Command) /\ Len(commands) = 0 /\ DOMAIN commands = {}
  BY <1>1
<1> QED
  BY <1>1, <1>2 DEF ConsoleInv, CommandsAreFound

LEMMA RegisterKeeps == ASSUME ConsoleInv, NEW command \in Command, register_command(command) PROVE ConsoleInv'
<1> DEFINE n == commands_count
<1>1. /\ commands \in Seq(Command \cup {Unset}) /\ registered \in Seq(Command)
      /\ n = Len(commands) /\ n \in Nat /\ DOMAIN commands = 1 .. n
      /\ \A k \in DOMAIN commands : commands[k] = Unset \/ \E j \in DOMAIN registered : commands[k] = registered[j]
  BY DEF ConsoleInv, CommandsAreFound
<1>2. /\ commands_count' = n + 1 /\ registered' = Append(registered, command) /\ UNCHANGED <<misused, executed>>
      /\ commands' = [k \in 1 .. n + 1 |-> IF k = n + 1 THEN command ELSE IF k \in DOMAIN commands THEN commands[k] ELSE Unset]
  BY DEF register_command
<1> HIDE DEF n
<1>3. /\ registered' \in Seq(Command) /\ DOMAIN registered' = DOMAIN registered \cup {Len(registered) + 1}
      /\ registered'[Len(registered) + 1] = command
      /\ \A j \in DOMAIN registered : registered'[j] = registered[j]
  BY <1>1, <1>2
<1>4. commands' = Append(commands, command)
  <2> DEFINE cells == Command \cup {Unset}
  <2>1. commands \in Seq(cells) /\ command \in cells
    BY <1>1
  <2> HIDE DEF cells
  <2> DEFINE longer == Append(commands, command)
  <2>2. longer \in Seq(cells) /\ Len(longer) = n + 1 /\ longer[n + 1] = command /\ \A k \in 1 .. n : longer[k] = commands[k]
    BY <1>1, <2>1, AppendIs
  <2> HIDE DEF longer
  <2>3. longer = [k \in 1 .. n + 1 |-> longer[k]]
    BY <1>1, <2>2
  <2>4. \A k \in 1 .. n + 1 : longer[k] = IF k = n + 1 THEN command ELSE IF k \in DOMAIN commands THEN commands[k] ELSE Unset
    BY <1>1, <2>2
  <2>5. commands' = longer
    BY <1>2, <2>3, <2>4
  <2> QED
    BY <2>5 DEF longer
<1>5. /\ commands' \in Seq(Command \cup {Unset}) /\ Len(commands') = n + 1 /\ DOMAIN commands' = DOMAIN commands \cup {n + 1}
      /\ commands'[n + 1] = command /\ \A k \in DOMAIN commands : commands'[k] = commands[k]
  BY <1>1, <1>4
<1>6. \A k \in DOMAIN commands' : commands'[k] = Unset \/ \E j \in DOMAIN registered' : commands'[k] = registered'[j]
  BY <1>1, <1>3, <1>5
<1>7. ~misused => commands' = registered'
  BY <1>2, <1>4 DEF ConsoleInv, CommandsAreFound
<1> QED
  BY <1>2, <1>3, <1>5, <1>6, <1>7 DEF ConsoleInv, CommandsAreFound

\* While every delete has named what is held once, no cell is unwritten and the names are those of the callers' commands.
LEMMA TableIsHeld ==
  ASSUME ConsoleInv, ~misused
  PROVE  /\ commands = registered /\ commands_count = Len(registered) /\ DOMAIN registered = 1 .. commands_count
         /\ Unwritten = {}
         /\ \A name, hits : \A k \in 1 .. commands_count : Matches(k, name, hits) <=> k \in Named(registered, name)
<1>1. commands = registered /\ registered \in Seq(Command) /\ commands_count = Len(commands)
  BY DEF ConsoleInv, CommandsAreFound
<1>2. DOMAIN registered = 1 .. commands_count /\ \A k \in 1 .. commands_count : registered[k] \in Command
  BY <1>1
<1>3. Unwritten = {}
  BY <1>1, <1>2, NoCommands DEF Unwritten
<1> QED
  BY <1>1, <1>2, <1>3 DEF Matches, Named

LEMMA DeleteKeeps == ASSUME ConsoleInv, NEW name \in Names, delete_command(name) PROVE ConsoleInv'
<1> DEFINE n == commands_count
           left == Others(registered, name)
<1>1. /\ commands \in Seq(Command \cup {Unset}) /\ registered \in Seq(Command)
      /\ n = Len(commands) /\ n \in Nat /\ DOMAIN commands = 1 .. n
      /\ \A k \in 1 .. n : commands[k] \in Command \cup {Unset}
      /\ \A k \in 1 .. n : commands[k] = Unset \/ \E j \in DOMAIN registered : commands[k] = registered[j]
  BY DEF ConsoleInv, CommandsAreFound
<1>2. /\ registered' = left /\ UNCHANGED executed
      /\ misused' = (misused \/ (n # 0 /\ Cardinality(Named(registered, name)) # 1))
  BY DEF delete_command
<1>3. /\ left \in Seq(Command)
      /\ \A j \in DOMAIN registered : registered[j].name # name => \E i \in DOMAIN left : left[i] = registered[j]
  <2>1. registered \in Seq(Command)
    BY <1>1
  <2>2. AllLeft(registered, name)
    BY <2>1, OthersAreLeft
  <2> QED
    BY <2>2 DEF AllLeft
<1> HIDE DEF left
<1>4. CASE n = 0
  <2>1. UNCHANGED <<commands, commands_count>> /\ DOMAIN commands = {}
    BY <1>1, <1>4 DEF delete_command
  <2>2. ASSUME ~misused PROVE commands = left
    <3>1. registered = commands /\ DOMAIN registered = {}
      BY <2>1, <2>2, TableIsHeld
    <3>2. Named(registered, name) = {} /\ Cardinality({}) = 0
      BY <3>1, FS_EmptySet DEF Named
    <3>3. left = [k \in 1 .. 0 |-> registered[Place({}, k)]]
      BY <3>1, <3>2 DEF left, Others
    <3> QED
      BY <1>1, <3>1, <3>3
  <2> QED
    BY <1>1, <1>2, <1>3, <2>1, <2>2 DEF ConsoleInv, CommandsAreFound
<1>5. CASE n # 0
  <2>1. PICK hits \in SUBSET Unwritten :
          LET kept == {k \in 1 .. n : ~Matches(k, name, hits)}
          IN commands' = [k \in 1 .. (n - 1) |-> IF k <= Cardinality(kept) THEN commands[Place(kept, k)] ELSE Unset]
    BY <1>5 DEF delete_command
  <2> DEFINE kept == {k \in 1 .. n : ~Matches(k, name, hits)}
             c == Cardinality(kept)
  <2>2. commands' = [k \in 1 .. (n - 1) |-> IF k <= c THEN commands[Place(kept, k)] ELSE Unset] /\ commands_count' = n - 1
    BY <1>5, <2>1 DEF delete_command
  <2>3. IsFiniteSet(1 .. n) /\ Cardinality(1 .. n) = n
    BY <1>1, <1>5, FS_Interval
  <2>4. kept \in SUBSET Nat /\ IsFiniteSet(kept) /\ c \in Nat
    <3>1. kept \subseteq 1 .. n
      OBVIOUS
    <3> QED
      BY <1>1, <2>3, <3>1, FS_Subset, FS_CardinalityType
  <2>5. \A k \in 1 .. c : Place(kept, k) \in kept
    BY <2>4, PlaceIs
  <2>6. \A k \in kept : k \in 1 .. n /\ (commands[k] = Unset \/ commands[k].name # name)
    BY DEF Matches, Unwritten
  <2>7. ASSUME ~misused'
        PROVE  commands' = left
    <3>1. ~misused /\ Cardinality(Named(registered, name)) = 1
      BY <1>2, <1>5, <2>7
    <3>2. commands = registered /\ DOMAIN registered = 1 .. n
          /\ \A k \in 1 .. n : Matches(k, name, hits) <=> k \in Named(registered, name)
      BY <3>1, TableIsHeld
    <3>3. kept = DOMAIN registered \ Named(registered, name)
      BY <3>2
    <3>4. PICK p : Named(registered, name) = {p}
      <4>1. IsFiniteSet(Named(registered, name))
        BY <2>3, <3>2, FS_Subset DEF Named
      <4> QED
        BY <3>1, <4>1, FS_Singleton
    <3>5. c = n - 1
      <4>1. p \in 1 .. n /\ kept = (1 .. n) \ {p}
        BY <3>2, <3>3, <3>4 DEF Named
      <4> QED
        BY <2>3, <4>1, FS_RemoveElement
    <3>6. left = [k \in 1 .. c |-> registered[Place(kept, k)]]
      BY <3>3 DEF left, Others
    <3> HIDE DEF kept, c
    <3> QED
      BY <1>1, <2>2, <3>2, <3>5, <3>6
  <2> HIDE DEF kept, c
  <2>8. ASSUME NEW k \in 1 .. (n - 1)
        PROVE  /\ commands'[k] \in Command \cup {Unset}
               /\ commands'[k] = Unset \/ \E i \in DOMAIN left : commands'[k] = left[i]
    <3>1. CASE k <= c
      <4>1. k \in 1 .. c
        BY <1>1, <2>4, <3>1
      <4>2. Place(kept, k) \in 1 .. n /\ (commands[Place(kept, k)] = Unset \/ commands[Place(kept, k)].name # name)
        BY <2>5, <2>6, <4>1
      <4>3. commands'[k] = commands[Place(kept, k)]
        BY <2>2, <3>1
      <4>4. commands[Place(kept, k)] # Unset => \E i \in DOMAIN left : commands[Place(kept, k)] = left[i]
        BY <1>1, <1>3, <4>2
      <4> QED
        BY <1>1, <4>2, <4>3, <4>4
    <3>2. CASE ~(k <= c)
      BY <2>2, <3>2
    <3> QED
      BY <3>1, <3>2
  <2>9. commands' \in Seq(Command \cup {Unset}) /\ Len(commands') = n - 1 /\ DOMAIN commands' = 1 .. (n - 1)
    <3>1. n - 1 \in Nat
      BY <1>1, <1>5
    <3>2. commands' \in [1 .. (n - 1) -> Command \cup {Unset}]
      BY <2>2, <2>8
    <3> QED
      BY <3>1, <3>2
  <2>10. ~misused' => ~misused
    BY <1>2
  <2> QED
    BY <1>2, <1>3, <2>2, <2>7, <2>8, <2>9, <2>10 DEF ConsoleInv, CommandsAreFound
<1> QED
  BY <1>4, <1>5

LEMMA ExecuteKeeps == ASSUME ConsoleInv, NEW name \in Names, execute(name) PROVE ConsoleInv'
<1>1. PICK hits \in SUBSET Unwritten :
        \E ran \in IF get_command(name, hits) = Unset THEN {Unset, Nothing} ELSE {get_command(name, hits)} :
          executed' = [ran |-> ran, meant |-> Meant(name), held |-> {registered[k] : k \in Named(registered, name)}]
  BY DEF execute
<1> DEFINE command == get_command(name, hits)
           found == {k \in 1 .. commands_count : Matches(k, name, hits)}
           c == CHOOSE k \in found : \A l \in found : k <= l
           held == {registered[k] : k \in Named(registered, name)}
<1>2. /\ executed'.ran = command \/ (command = Unset /\ executed'.ran = Nothing)
      /\ executed'.meant = Meant(name) /\ executed'.held = held
  BY <1>1
<1>3. UNCHANGED <<commands, commands_count, registered, misused>>
  BY DEF execute
<1>4. /\ commands_count = Len(commands) /\ commands \in Seq(Command \cup {Unset})
      /\ \A k \in DOMAIN commands : commands[k] = Unset \/ \E j \in DOMAIN registered : commands[k] = registered[j]
      /\ registered \in Seq(Command)
  BY DEF ConsoleInv, CommandsAreFound
<1>5. command = IF found = {} THEN Nothing ELSE commands[c]
  BY DEF get_command
<1>6. found # {} => c \in found
  <2>1. found \in SUBSET Nat
    BY <1>4
  <2>2. found # {} => \E k \in found : \A l \in found : k <= l
    BY <2>1, SmallestNat
  <2> QED
    BY <2>2
<1>7. command \in {Unset, Nothing} \cup held
  <2>1. CASE found = {}
    BY <1>5, <2>1
  <2>2. CASE found # {}
    <3>1. c \in 1 .. commands_count /\ Matches(c, name, hits) /\ command = commands[c]
      BY <1>5, <1>6, <2>2
    <3>2. CASE c \in Unwritten
      BY <3>1, <3>2 DEF Unwritten
    <3>3. CASE c \notin Unwritten
      <4>1. commands[c] # Unset /\ commands[c].name = name
        BY <3>1, <3>3 DEF Unwritten, Matches
      <4>2. PICK j \in DOMAIN registered : commands[c] = registered[j]
        <5>1. c \in DOMAIN commands
          BY <1>4, <3>1
        <5> QED
          BY <1>4, <4>1, <5>1
      <4>3. j \in Named(registered, name)
        BY <4>1, <4>2 DEF Named
      <4> QED
        BY <3>1, <4>2, <4>3
    <3> QED
      BY <3>2, <3>3
  <2> QED
    BY <2>1, <2>2
<1>8. ASSUME ~misused PROVE executed'.ran = Meant(name)
  <2>1. /\ commands = registered /\ DOMAIN registered = 1 .. commands_count
        /\ \A k \in 1 .. commands_count : Matches(k, name, hits) <=> k \in Named(registered, name)
    BY <1>8, TableIsHeld
  <2>2. found = Named(registered, name)
    BY <2>1 DEF Named
  <2>3. command = Meant(name)
    BY <1>5, <2>1, <2>2 DEF Meant
  <2>4. command # Unset
    <3>1. CASE found = {}
      BY <1>5, <3>1, NoCommands
    <3>2. CASE found # {}
      <4>1. c \in DOMAIN registered /\ registered[c] \in Command
        BY <1>4, <1>6, <2>1, <3>2
      <4> QED
        BY <1>5, <2>1, <3>2, <4>1, NoCommands
    <3> QED
      BY <3>1, <3>2
  <2> QED
    BY <1>2, <2>3, <2>4
<1> HIDE DEF command, found, c, held
<1>9. executed'.ran \in {Unset, Nothing} \cup executed'.held
  BY <1>2, <1>7
<1> QED
  BY <1>2, <1>3, <1>8, <1>9 DEF ConsoleInv, CommandsAreFound

LEMMA ConsoleStep == ASSUME ConsoleInv, [ConsoleNext]_console PROVE ConsoleInv'
<1>1. CASE Crash
  BY <1>1 DEF Crash, ConsoleInv, CommandsAreFound
<1>2. CASE UNCHANGED console
  BY <1>2 DEF console, ConsoleInv, CommandsAreFound
<1> QED
  BY <1>1, <1>2, RegisterKeeps, DeleteKeeps, ExecuteKeeps DEF ConsoleNext

\* Whatever is registered, deleted and executed in whatever order, twice or unknown as well: what the
\* table of commandmanager.c holds is held by the callers, execute runs nothing else, and until a delete
\* names what is not held exactly once the table is what they hold and execute runs the first of the name.
THEOREM RegisteredCommandsRun == ConsoleSpec => []CommandsAreFound
<1>1. ConsoleInv /\ [ConsoleNext]_console => ConsoleInv'
  BY ConsoleStep
<1>2. ConsoleInv => CommandsAreFound
  BY DEF ConsoleInv
<1> QED
  BY <1>1, <1>2, InitConsole, PTL DEF ConsoleSpec

-------------------------------------------------------------------------------
(* A login *)

\* What a token must be to be verified, and what is wrong with one that is not.
LEMMA Verified ==
  ASSUME NEW t \in AllTokens, NEW first \in Nat
  PROVE  LET stat == verifly_jwt_chain(t, first)
             other == t.x5u # None /\ HasOtherKey(t, first)
         IN /\ "done" \in stat <=>
                 /\ t.x5u # None /\ ~HasOtherKey(t, first) /\ t.signature \in {"bad", "good"}
                 /\ first = 4 \/ (t.identityPublicKey # None /\ t.in_time)
            /\ "no x5u" \in stat <=> t.x5u = None
            /\ "key" \in stat <=> other
            /\ "key size" \in stat => t.key_size = "wrong"
            /\ "signature size" \in stat => t.signature = "wrong size"
            /\ "no identityPublicKey" \in stat => t.identityPublicKey = None
            /\ "time" \in stat => ~t.in_time /\ t.identityPublicKey # None
            /\ "signature" \in stat => t.signature = "bad"
            /\ "time" \in stat /\ "signature" \notin stat => t.signature = "good"
            /\ stat # {}
            /\ \/ "done" \in stat \/ "time" \in stat \/ stat \cap Payload # {}
               \/ t.signature = "unverifiable" /\ "signature" \notin stat
<1> DEFINE stat == verifly_jwt_chain(t, first)
           head == If(t.x5u = MOJANG_ROOT_KEY, "mojang") \cup If(t.key_size # "ok", "key size")
           last == head \cup If(t.signature # "good", "signature")
<1>1. /\ t.key_size \in {"ok", "wrong"} /\ t.signature \in {"wrong size", "unverifiable", "bad", "good"}
      /\ t.in_time \in BOOLEAN
  BY DEF AllTokens
<1>2. /\ head \subseteq {"mojang", "key size"} /\ ("key size" \in head => t.key_size = "wrong")
      /\ last \subseteq {"mojang", "key size", "signature"} /\ ("key size" \in last => t.key_size = "wrong")
      /\ "signature" \in last <=> t.signature # "good"
  BY <1>1 DEF If
<1> HIDE DEF head, last
<1>3. CASE t.x5u = None
  <2>1. stat = {"no x5u"}
    BY <1>3 DEF verifly_jwt_chain
  <2> HIDE DEF stat
  <2> QED
    BY <1>3, <2>1 DEF stat, Payload
<1>4. CASE t.x5u # None /\ HasOtherKey(t, first)
  <2>1. stat = head \cup {"key"}
    BY <1>4 DEF verifly_jwt_chain, head
  <2> HIDE DEF stat
  <2> QED
    BY <1>2, <1>4, <2>1 DEF stat, Payload
<1>5. CASE t.x5u # None /\ ~HasOtherKey(t, first) /\ t.signature = "wrong size"
  <2>1. stat = head \cup {"signature size"}
    BY <1>5 DEF verifly_jwt_chain, head
  <2> HIDE DEF stat
  <2> QED
    BY <1>2, <1>5, <2>1 DEF stat, Payload
<1>6. CASE t.x5u # None /\ ~HasOtherKey(t, first) /\ t.signature = "unverifiable"
  <2>1. stat = head \cup {"error"}
    BY <1>6 DEF verifly_jwt_chain, head
  <2> HIDE DEF stat
  <2> QED
    BY <1>2, <1>6, <2>1 DEF stat, Payload
<1>7. CASE t.x5u # None /\ ~HasOtherKey(t, first) /\ t.signature \in {"bad", "good"}
  <2>1. stat = last \cup {IF first = 4 THEN "done" ELSE IF t.identityPublicKey = None THEN "no identityPublicKey"
                          ELSE IF ~t.in_time THEN "time" ELSE "done"}
    <3>1. CASE first = 4
      BY <1>7, <3>1 DEF verifly_jwt_chain, head, last
    <3>2. CASE first # 4
      BY <1>1, <1>7, <3>2 DEF verifly_jwt_chain, head, last
    <3> QED
      BY <3>1, <3>2
  <2> HIDE DEF stat
  <2> QED
    BY <1>1, <1>2, <1>7, <2>1 DEF stat, Payload
<1> QED
  BY <1>1, <1>3, <1>4, <1>5, <1>6, <1>7

\* What the kick says of the token.
LEMMA Kicked ==
  ASSUME NEW t \in AllTokens, NEW first \in Nat
  PROVE  LET kick == KickOf(verifly_jwt_chain(t, first))
             done == "done" \in verifly_jwt_chain(t, first)
         IN /\ kick \in KickMessages \cup {None}
            /\ kick = None <=> done
            /\ kick = "invalid login" => t.signature = "unverifiable"
            /\ kick = "invalid login timestamp" => t.signature = "good" /\ ~t.in_time /\ t.identityPublicKey # None
            /\ kick = "invalid login signature" => t.signature = "bad" /\ ~t.in_time /\ t.identityPublicKey # None
            /\ kick = "invalid login payload" =>
                 \/ None \in {t.x5u, t.identityPublicKey} \/ t.key_size = "wrong" \/ t.signature = "wrong size"
                 \/ HasOtherKey(t, first)
<1> DEFINE stat == verifly_jwt_chain(t, first)
           kick == KickOf(stat)
<1>1. /\ "done" \in stat <=>
           /\ t.x5u # None /\ ~HasOtherKey(t, first) /\ t.signature \in {"bad", "good"}
           /\ first = 4 \/ (t.identityPublicKey # None /\ t.in_time)
      /\ "no x5u" \in stat => t.x5u = None
      /\ "key" \in stat => HasOtherKey(t, first)
      /\ "key size" \in stat => t.key_size = "wrong"
      /\ "signature size" \in stat => t.signature = "wrong size"
      /\ "no identityPublicKey" \in stat => t.identityPublicKey = None
      /\ "time" \in stat => ~t.in_time /\ t.identityPublicKey # None
      /\ "signature" \in stat => t.signature = "bad"
      /\ "time" \in stat /\ "signature" \notin stat => t.signature = "good"
      /\ \/ "done" \in stat \/ "time" \in stat \/ stat \cap Payload # {}
         \/ t.signature = "unverifiable" /\ "signature" \notin stat
  BY Verified
<1> HIDE DEF stat
<1>2. None \notin KickMessages
  BY NoneIsNothing DEF Answers
<1>3. CASE "done" \in stat
  BY <1>2, <1>3 DEF KickOf, KickMessages, stat
<1>4. CASE "done" \notin stat /\ stat \cap Payload # {}
  <2>1. kick = "invalid login payload"
    BY <1>4 DEF KickOf
  <2>2. kick # None
    BY <1>2, <2>1 DEF KickMessages
  <2>3. \/ None \in {t.x5u, t.identityPublicKey} \/ t.key_size = "wrong" \/ t.signature = "wrong size"
        \/ HasOtherKey(t, first)
    BY <1>1, <1>4 DEF Payload
  <2> QED
    BY <1>4, <2>1, <2>2, <2>3 DEF KickMessages, stat
<1>5. CASE "done" \notin stat /\ stat \cap Payload = {} /\ "signature" \in stat
  <2>1. kick = "invalid login signature"
    BY <1>5 DEF KickOf
  <2>2. kick # None
    BY <1>2, <2>1 DEF KickMessages
  <2> QED
    BY <1>1, <1>5, <2>1, <2>2 DEF KickMessages, stat
<1>6. CASE "done" \notin stat /\ stat \cap Payload = {} /\ "signature" \notin stat /\ "time" \in stat
  <2>1. kick = "invalid login timestamp"
    BY <1>6 DEF KickOf
  <2>2. kick # None
    BY <1>2, <2>1 DEF KickMessages
  <2> QED
    BY <1>1, <1>6, <2>1, <2>2 DEF KickMessages, stat
<1>7. CASE "done" \notin stat /\ stat \cap Payload = {} /\ "signature" \notin stat /\ "time" \notin stat
  <2>1. kick = "invalid login"
    BY <1>7 DEF KickOf
  <2>2. kick # None
    BY <1>2, <2>1 DEF KickMessages
  <2> QED
    BY <1>1, <1>7, <2>1, <2>2 DEF KickMessages, stat
<1> QED
  BY <1>3, <1>4, <1>5, <1>6, <1>7

\* What the code compares is whether a token follows the one whose key is current.
LEMMA FollowsIs ==
  ASSUME NEW t \in AllTokens, NEW before \in AllTokens, NEW first \in Nat, first # 0,
         current_public_key = NextKey(before), t.x5u # None, ~ComparesNull(t)
  PROVE  ~HasOtherKey(t, first) <=> Follows(t, before)
<1>1. CASE current_public_key = None
  <2>1. before.identityPublicKey = None \/ Start[before.identityPublicKey] = None
    BY <1>1 DEF NextKey
  <2> QED
    BY <1>1, <2>1 DEF HasOtherKey, Follows
<1>2. CASE current_public_key # None
  <2>1. current_public_key = before.identityPublicKey /\ before.identityPublicKey # None
    BY <1>2 DEF NextKey
  <2>2. Start[t.x5u] # None
    BY <1>2 DEF ComparesNull
  <2> QED
    BY <1>2, <2>1, <2>2 DEF HasOtherKey, Follows
<1> QED
  BY <1>1, <1>2

\* The tokens read so far follow each other, and nothing but a signature may be wrong with them.
Linked(n) == \A m \in 2 .. n : Follows(read[m], read[Giver(m)])
Sound(n) == \A m \in 1 .. n : /\ read[m].signature \in {"good", "bad"}
                              /\ m = 5 \/ (read[m].identityPublicKey # None /\ read[m].in_time)

\* While the loop runs without anything wrong.
Undoubted ==
  answer = None /\ kicktype = None =>
    /\ Linked(turn) /\ Sound(turn)
    /\ is_mojang <=> \E m \in 1 .. turn : read[m].x5u = MOJANG_ROOT_KEY
    /\ IF turn < 3 THEN identity = None ELSE identity = read[3].identity /\ identity # None

Verifiable(n) == \A m \in 1 .. n : read[m].signature # "unverifiable"

\* While the loop runs, whether or not a token could not be verified.
Running ==
  answer = None =>
    /\ turn <= MaxChain
    /\ ~Leaves(kicktype) =>
         /\ Len(read) = turn
         /\ turn = 0 => current_public_key = None
         /\ turn > 0 /\ Verifiable(turn) => current_public_key = NextKey(read[Giver(turn + 1)])

LoginInv == /\ LoginTypeOK /\ Undoubted /\ Running
            /\ kicktype # None => Reason(kicktype)
            /\ ChainIsLinked /\ IdentityIsThird /\ ToldWhatStopped

LEMMA NoneIsNoKick == None \notin KickMessages /\ None # "play_success" /\ None # "invalid skin payload"
                      /\ None # "You need to authenticate to Xbox Live." /\ None # "crash"
  BY NoneIsNothing DEF Answers

LEMMA InitLogin == LoginInit => LoginInv
<1> SUFFICES ASSUME LoginInit PROVE LoginInv
  OBVIOUS
<1>1. /\ turn = 0 /\ current_public_key = None /\ kicktype = None /\ is_mojang = FALSE /\ identity = None
      /\ answer = None /\ read = <<>>
  BY DEF LoginInit
<1>2. LoginTypeOK
  <2>1. turn \in 0 .. MaxChain + 1
    BY <1>1, MaxChainIsNat
  <2>2. read \in Seq(AllTokens)
    BY <1>1
  <2> QED
    BY <1>1, <2>1, <2>2 DEF LoginTypeOK
<1>3. Undoubted /\ Running
  BY <1>1, MaxChainIsNat DEF Undoubted, Running, Linked, Sound
<1>4. ChainIsLinked /\ IdentityIsThird /\ ToldWhatStopped
  BY <1>1, NoneIsNoKick DEF ChainIsLinked, IdentityIsThird, Accepted, ToldWhatStopped
<1> QED
  BY <1>1, <1>2, <1>3, <1>4 DEF LoginInv

\* An answer that accepts nobody leaves only its reason to be shown.
LEMMA Refused ==
  ASSUME LoginInv, answer' \in Answers, answer' # "play_success", Reason(answer'),
         UNCHANGED <<turn, current_public_key, kicktype, is_mojang, identity, read>>
  PROVE  LoginInv'
<1>1. answer' # None
  BY NoneIsNothing
<1>2. LoginTypeOK'
  BY DEF LoginInv, LoginTypeOK
<1>3. Undoubted' /\ Running' /\ ChainIsLinked' /\ IdentityIsThird'
  BY <1>1 DEF Undoubted, Running, ChainIsLinked, IdentityIsThird, Accepted
<1>4. ASSUME NEW message PROVE Reason(message) <=> Reason(message)'
  BY DEF Reason, Chained, Excused
<1>5. ToldWhatStopped'
  BY <1>4 DEF ToldWhatStopped, Reason, Chained, Excused
<1>6. (kicktype # None => Reason(kicktype))'
  BY DEF LoginInv, Reason, Chained, Excused
<1> QED
  BY <1>2, <1>3, <1>5, <1>6 DEF LoginInv

LEMMA KickStep == ASSUME LoginInv, Kick PROVE LoginInv'
<1>1. /\ answer = None /\ UNCHANGED <<turn, current_public_key, kicktype, is_mojang, identity, read>>
      /\ answer' = IF kicktype # None THEN kicktype ELSE "You need to authenticate to Xbox Live."
      /\ kicktype # None \/ ~is_mojang
  BY DEF Kick
<1>2. answer' \in Answers /\ answer' # "play_success"
  BY <1>1 DEF LoginInv, LoginTypeOK, KickMessages, Answers
<1>3. CASE kicktype # None
  <2>1. Reason(answer')
    BY <1>1, <1>3 DEF LoginInv
  <2> QED
    BY <1>1, <1>2, <2>1, Refused
<1>4. CASE kicktype = None
  <2>1. Len(read) = turn
    BY <1>1, <1>4 DEF LoginInv, Running, Leaves
  <2>2. ~is_mojang /\ \A m \in 1 .. turn : read[m].x5u # MOJANG_ROOT_KEY
    BY <1>1, <1>4 DEF LoginInv, Undoubted
  <2>3. Reason("You need to authenticate to Xbox Live.")
    BY <2>1, <2>2 DEF Reason
  <2>4. answer' = "You need to authenticate to Xbox Live."
    BY <1>1, <1>4
  <2> QED
    BY <1>1, <1>2, <2>3, <2>4, Refused
<1> QED
  BY <1>3, <1>4

LEMMA FaultStep == ASSUME LoginInv, NEW t \in Tokens, Fault(t) PROVE LoginInv'
<1>1. answer' = "crash" /\ UNCHANGED <<turn, current_public_key, kicktype, is_mojang, identity, read>>
  BY DEF Fault
<1>2. "crash" \in Answers /\ "crash" # "play_success"
  BY DEF Answers
<1>3. Reason("crash")
  BY DEF Reason
<1> QED
  BY <1>1, <1>2, <1>3, Refused

\* Where the current key comes from while nothing is wrong.
LEMMA KeyOfGiver ==
  ASSUME LoginInv, answer = None, ~Leaves(kicktype), turn # 0, Verifiable(turn)
  PROVE  current_public_key = NextKey(read[Giver(turn + 1)])
<1>1. turn \in Nat
  BY MaxChainIsNat DEF LoginInv, LoginTypeOK
<1>2. turn > 0
  BY <1>1
<1> QED
  BY <1>2 DEF LoginInv, Running

LEMMA GiverIs == ASSUME NEW n \in Nat, n # 0 PROVE Giver(n + 1) \in 1 .. n
  BY DEF Giver

\* One more token is read, which may follow those before or not.
LEMMA OneMore ==
  ASSUME NEW t \in AllTokens, NEW n \in Nat, read \in Seq(AllTokens), Len(read) = n, read' = Append(read, t)
  PROVE  /\ read' \in Seq(AllTokens) /\ Len(read') = n + 1 /\ read'[n + 1] = t
         /\ \A m \in 1 .. n : read'[m] = read[m] /\ read[m] \in AllTokens
         /\ n # 0 => read'[Giver(n + 1)] = read[Giver(n + 1)] /\ read[Giver(n + 1)] \in AllTokens
<1>1. /\ Append(read, t) \in Seq(AllTokens) /\ Len(Append(read, t)) = Len(read) + 1
      /\ Append(read, t)[Len(read) + 1] = t
      /\ \A m \in 1 .. Len(read) : Append(read, t)[m] = read[m]
  BY AppendIs
<1>2. \A m \in 1 .. n : read[m] \in AllTokens
  OBVIOUS
<1> QED
  BY <1>1, <1>2, GiverIs

\* Links between tokens that were read stay, and the last follows its giver.
LEMMA LinkMore ==
  ASSUME NEW t \in AllTokens, NEW n \in Nat, read \in Seq(AllTokens), Len(read) = n, read' = Append(read, t),
         Linked(n), n # 0 => Follows(t, read[Giver(n + 1)])
  PROVE  \A m \in 2 .. n + 1 : Follows(read'[m], read'[Giver(m)])
<1> SUFFICES ASSUME NEW m \in 2 .. n + 1 PROVE Follows(read'[m], read'[Giver(m)])
  OBVIOUS
<1>1. CASE m = n + 1
  <2>1. n # 0
    BY <1>1
  <2> QED
    BY <1>1, <2>1, OneMore
<1>2. CASE m # n + 1
  <2>1. m \in 2 .. n /\ m \in 1 .. n
    BY <1>2
  <2>2. Giver(m) \in 1 .. n
    BY <2>1 DEF Giver
  <2>3. read'[m] = read[m] /\ read'[Giver(m)] = read[Giver(m)]
    BY <2>1, <2>2, OneMore
  <2>4. Follows(read[m], read[Giver(m)])
    BY <2>1 DEF Linked
  <2> QED
    BY <2>3, <2>4
<1> QED
  BY <1>1, <1>2

LEMMA ClientDataStep == ASSUME LoginInv, NEW t \in Tokens, VerifyClientData(t) PROVE LoginInv'
<1>n. PICK n \in Nat : n = turn
  BY MaxChainIsNat DEF LoginInv, LoginTypeOK
<1> DEFINE first == n + 1
<1>1. /\ answer = None /\ kicktype = None /\ is_mojang /\ turn' = first /\ ~ComparesNull(t)
      /\ current_public_key' = KeyAfter(t, first) /\ read' = Append(read, t)
      /\ answer' = IF "done" \in verifly_jwt_chain(t, first) THEN "play_success" ELSE "invalid skin payload"
      /\ UNCHANGED <<kicktype, is_mojang, identity>>
  BY <1>n DEF VerifyClientData, InLoop, ClientIndex
<1>a. ~Leaves(kicktype)
  BY <1>1 DEF Leaves
<1>2. /\ t \in AllTokens /\ n \in Nat /\ n <= MaxChain /\ first \in Nat /\ MaxChain \in Nat /\ read \in Seq(AllTokens)
      /\ Len(read) = n
  <2>1. n <= MaxChain /\ Len(read) = n
    BY <1>n, <1>1, <1>a DEF LoginInv, Running
  <2>2. read \in Seq(AllTokens)
    BY DEF LoginInv, LoginTypeOK
  <2> QED
    BY <2>1, <2>2, TokensAssumption, MaxChainIsNat
<1>3. /\ Linked(n) /\ Sound(n)
      /\ \E m \in 1 .. n : read[m].x5u = MOJANG_ROOT_KEY
      /\ IF n < 3 THEN identity = None ELSE identity = read[3].identity /\ identity # None
  BY <1>n, <1>1 DEF LoginInv, Undoubted
<1>4. n # 0 /\ Verifiable(n)
  <2>1. n # 0
    BY <1>2, <1>3
  <2>2. Verifiable(n)
    BY <1>3 DEF Sound, Verifiable
  <2> QED
    BY <2>1, <2>2
<1>5. current_public_key = NextKey(read[Giver(n + 1)])
  BY <1>n, <1>1, <1>a, <1>4, KeyOfGiver
<1>6. /\ read' \in Seq(AllTokens) /\ Len(read') = n + 1 /\ read'[n + 1] = t
      /\ \A m \in 1 .. n : read'[m] = read[m]
      /\ read'[Giver(n + 1)] = read[Giver(n + 1)] /\ read[Giver(n + 1)] \in AllTokens
  BY <1>1, <1>2, <1>4, OneMore
<1>7. /\ "done" \in verifly_jwt_chain(t, first) <=>
           /\ t.x5u # None /\ ~HasOtherKey(t, first) /\ t.signature \in {"bad", "good"}
           /\ first = 4 \/ (t.identityPublicKey # None /\ t.in_time)
  BY <1>2, Verified
<1>8. t.x5u # None => (~HasOtherKey(t, first) <=> Follows(t, read[Giver(n + 1)]))
  <2>1. first # 0
    BY <1>2
  <2> QED
    BY <1>1, <1>2, <1>5, <1>6, <2>1, FollowsIs
<1>9. current_public_key' \in Keys \cup {None}
  BY <1>1, <1>2 DEF KeyAfter, NextKey, AllTokens, LoginInv, LoginTypeOK
<1>10. answer' \in Answers /\ answer' # None
  BY <1>1, NoneIsNoKick DEF Answers
<1>11. LoginTypeOK'
  <2>1. turn' \in 0 .. MaxChain + 1
    <3>1. turn' = n + 1
      BY <1>1
    <3> QED
      BY <1>2, <3>1
  <2> QED
    BY <1>1, <1>6, <1>9, <1>10, <2>1 DEF LoginInv, LoginTypeOK
<1>12. Undoubted' /\ Running' /\ (kicktype # None => Reason(kicktype))'
  BY <1>1, <1>10 DEF Undoubted, Running
<1>13. Excused(n + 1)' <=> n + 1 = 4
  BY <1>6 DEF Excused
<1>14. CASE "done" \in verifly_jwt_chain(t, first)
  <2>1. answer' = "play_success" /\ Follows(t, read[Giver(n + 1)])
    BY <1>1, <1>7, <1>8, <1>14
  <2>2. \A m \in 2 .. n + 1 : Follows(read'[m], read'[Giver(m)])
    BY <1>1, <1>2, <1>3, <2>1, LinkMore
  <2>3. ASSUME NEW m \in 1 .. n + 1
        PROVE  /\ read'[m].signature \in {"good", "bad"}
               /\ Excused(m)' \/ (read'[m].identityPublicKey # None /\ read'[m].in_time)
    <3>1. CASE m = n + 1
      BY <1>6, <1>7, <1>13, <1>14, <3>1
    <3>2. CASE m # n + 1
      <4>1. m \in 1 .. n
        BY <1>2, <3>2
      <4>2. m = 5 => Excused(m)'
        BY <1>6, <3>2 DEF Excused
      <4> QED
        BY <1>3, <1>6, <4>1, <4>2 DEF Sound
    <3> QED
      BY <3>1, <3>2
  <2>4. \E m \in 1 .. n : read'[m].x5u = MOJANG_ROOT_KEY
    BY <1>3, <1>6
  <2>5. ChainIsLinked'
    <3>1. (n + 1) - 1 = n
      BY <1>2
    <3> QED
      BY <1>6, <2>2, <2>3, <2>4, <3>1 DEF ChainIsLinked
  <2>6. IdentityIsThird'
    <3>1. CASE n < 3
      <4>1. ~(n + 1 > 3)
        BY <1>2, <3>1
      <4> QED
        BY <1>1, <1>3, <1>6, <3>1, <4>1 DEF IdentityIsThird
    <3>2. CASE ~(n < 3)
      <4>1. n + 1 > 3 /\ 3 \in 1 .. n
        BY <1>2, <3>2
      <4> QED
        BY <1>1, <1>3, <1>6, <3>2, <4>1 DEF IdentityIsThird
    <3> QED
      BY <3>1, <3>2
  <2>7. ToldWhatStopped'
    BY <2>1 DEF ToldWhatStopped, Reason
  <2> QED
    BY <1>11, <1>12, <2>5, <2>6, <2>7 DEF LoginInv
<1>15. CASE "done" \notin verifly_jwt_chain(t, first)
  <2>1. answer' = "invalid skin payload"
    BY <1>1, <1>15
  <2>2. ChainIsLinked' /\ IdentityIsThird'
    BY <2>1 DEF ChainIsLinked, IdentityIsThird, Accepted
  <2>3. t.signature \in {"wrong size", "unverifiable", "bad", "good"} /\ t.in_time \in BOOLEAN
    BY <1>2 DEF AllTokens
  <2>4. \/ t.x5u = None \/ t.signature \in {"wrong size", "unverifiable"}
        \/ ~Follows(t, read[Giver(n + 1)])
        \/ first # 4 /\ (t.identityPublicKey = None \/ ~t.in_time)
    BY <1>7, <1>8, <1>15, <2>3
  <2>5. ~Follows(t, read[Giver(n + 1)]) => ~Chained(n + 1)'
    <3>1. n + 1 > 1
      BY <1>2, <1>4
    <3> QED
      BY <1>6, <3>1 DEF Chained
  <2>6. ToldWhatStopped'
    BY <1>6, <1>13, <2>1, <2>4, <2>5 DEF ToldWhatStopped, Reason
  <2> QED
    BY <1>11, <1>12, <2>2, <2>6 DEF LoginInv
<1> QED
  BY <1>14, <1>15

LEMMA TokenStep == ASSUME LoginInv, NEW t \in Tokens, VerifyToken(t) PROVE LoginInv'
<1> DEFINE stat == verifly_jwt_chain(t, turn)
           kick == KickOf(stat)
<1>0. PICK taken \in ReadIdentity(t) :
           /\ Leaves(kick) => kicktype' = kick /\ UNCHANGED <<turn, is_mojang, identity>>
           /\ ~Leaves(kick) =>
                /\ is_mojang' = (is_mojang \/ t.x5u = MOJANG_ROOT_KEY)
                /\ identity' = taken.identity
                /\ kicktype' = IF taken.kick # None THEN taken.kick ELSE IF kick # None THEN kick ELSE kicktype
                /\ turn' = IF taken.kick # None THEN turn ELSE turn + 1
  BY DEF VerifyToken
<1>1. /\ answer = None /\ ~Leaves(kicktype) /\ turn < MaxChain /\ answer' = answer /\ ~ComparesNull(t)
      /\ read' = Append(read, t) /\ current_public_key' = KeyAfter(t, turn)
  BY DEF VerifyToken, InLoop
<1>2. /\ t \in AllTokens /\ turn \in Nat /\ MaxChain \in Nat /\ read \in Seq(AllTokens) /\ Len(read) = turn
  <2>1. turn \in 0 .. MaxChain + 1 /\ read \in Seq(AllTokens)
    BY DEF LoginInv, LoginTypeOK
  <2>2. Len(read) = turn
    BY <1>1 DEF LoginInv, Running
  <2> QED
    BY <1>1, <2>1, <2>2, TokensAssumption, MaxChainIsNat
<1>3. /\ read' \in Seq(AllTokens) /\ Len(read') = turn + 1 /\ read'[turn + 1] = t
      /\ \A m \in 1 .. turn : read'[m] = read[m]
      /\ turn # 0 => read'[Giver(turn + 1)] = read[Giver(turn + 1)] /\ read[Giver(turn + 1)] \in AllTokens
  BY <1>1, <1>2, OneMore
<1>4. /\ kick \in KickMessages \cup {None}
      /\ kick = None <=> "done" \in stat
      /\ kick = "invalid login" => t.signature = "unverifiable"
      /\ kick = "invalid login timestamp" => t.signature = "good" /\ ~t.in_time /\ t.identityPublicKey # None
      /\ kick = "invalid login signature" => t.signature = "bad" /\ ~t.in_time /\ t.identityPublicKey # None
      /\ kick = "invalid login payload" =>
           \/ None \in {t.x5u, t.identityPublicKey} \/ t.key_size = "wrong" \/ t.signature = "wrong size"
           \/ HasOtherKey(t, turn)
  BY <1>2, Kicked
<1>5. "done" \in stat =>
        /\ t.x5u # None /\ ~HasOtherKey(t, turn) /\ t.signature \in {"bad", "good"}
        /\ turn = 4 \/ (t.identityPublicKey # None /\ t.in_time)
  BY <1>2, Verified
<1>6. current_public_key' = IF "done" \in stat /\ turn # 4 THEN NextKey(t) ELSE current_public_key
  BY <1>1, <1>2 DEF KeyAfter
<1> HIDE DEF stat, kick
<1>7. /\ taken.kick \in {None, "invalid login payload"} /\ taken.identity \in Identities \cup {None}
      /\ taken.kick # None => turn = 2 /\ (t.identity = None \/ t.signature = "unverifiable")
      /\ taken.kick = None /\ t.signature # "unverifiable" =>
           IF turn = 2 THEN taken.identity = t.identity /\ t.identity # None ELSE taken.identity = identity
  <2>1. identity \in Identities \cup {None} /\ t.identity \in Identities \cup {None}
    BY <1>2 DEF AllTokens, LoginInv, LoginTypeOK
  <2>2. CASE turn # 2
    <3>1. taken = [kick |-> None, identity |-> identity]
      BY <1>0, <2>2 DEF ReadIdentity
    <3> QED
      BY <2>1, <2>2, <3>1
  <2>3. CASE turn = 2 /\ t.signature = "unverifiable"
    <3>1. PICK value \in Identities \cup {None} : taken = ReadFrom(value)
      BY <1>0, <2>3 DEF ReadIdentity
    <3> QED
      BY <2>1, <2>3, <3>1, NoneIsNoKick DEF ReadFrom, KickMessages
  <2>4. CASE turn = 2 /\ t.signature # "unverifiable"
    <3>1. taken = ReadFrom(t.identity)
      BY <1>0, <2>4 DEF ReadIdentity
    <3> QED
      BY <2>1, <2>4, <3>1, NoneIsNoKick DEF ReadFrom, KickMessages
  <2> QED
    BY <2>2, <2>3, <2>4
<1>8. /\ kicktype \in KickMessages \cup {None} /\ is_mojang \in BOOLEAN /\ identity \in Identities \cup {None}
      /\ current_public_key \in Keys \cup {None}
      /\ turn = 0 => current_public_key = None
      /\ kicktype # None => Reason(kicktype)
  BY <1>1 DEF LoginInv, LoginTypeOK, Running
<1>b. turn # 0 /\ Verifiable(turn) => current_public_key = NextKey(read[Giver(turn + 1)])
  BY <1>1, KeyOfGiver
<1>9. LoginTypeOK' /\ ChainIsLinked' /\ IdentityIsThird' /\ ToldWhatStopped' /\ answer' = None
  <2>1. current_public_key' \in Keys \cup {None}
    BY <1>2, <1>6, <1>8 DEF AllTokens, NextKey
  <2>2. kicktype' \in KickMessages \cup {None} /\ is_mojang' \in BOOLEAN /\ identity' \in Identities \cup {None}
    BY <1>0, <1>4, <1>7, <1>8 DEF KickMessages
  <2>3. turn' \in 0 .. MaxChain + 1
    <3>1. turn' = turn \/ turn' = turn + 1
      BY <1>0
    <3> QED
      BY <1>1, <1>2, <3>1
  <2>4. answer' = None
    BY <1>1
  <2>5. LoginTypeOK'
    BY <1>3, <2>1, <2>2, <2>3, <2>4 DEF LoginTypeOK
  <2> QED
    BY <2>4, <2>5, NoneIsNoKick DEF ChainIsLinked, IdentityIsThird, ToldWhatStopped, Accepted
<1>n. PICK n \in Nat : n = turn
  BY <1>2
<1>c. ASSUME HasOtherKey(t, turn), t.x5u # None PROVE ~Chained(n + 1)'
  <2>1. turn # 0
    BY <1>8, <1>c DEF HasOtherKey
  <2>2. n + 1 > 1 /\ (n + 1) - 1 = n
    BY <1>n, <2>1
  <2>3. CASE ~Verifiable(turn)
    <3>1. PICK m \in 1 .. n : read[m].signature = "unverifiable"
      BY <1>n, <2>3 DEF Verifiable
    <3>2. read'[m].signature = "unverifiable"
      BY <1>n, <1>3, <3>1
    <3> QED
      BY <2>2, <3>2 DEF Chained
  <2>4. CASE Verifiable(turn)
    <3>1. ~Follows(t, read[Giver(turn + 1)])
      BY <1>1, <1>2, <1>3, <1>b, <1>c, <2>1, <2>4, FollowsIs
    <3> QED
      BY <1>n, <1>3, <2>1, <2>2, <3>1 DEF Chained
  <2> QED
    BY <2>3, <2>4
<1>10. CASE Leaves(kick)
  <2>1. kicktype' = kick /\ kick # None /\ turn' = turn /\ kick \in KickMessages /\ kick # "invalid login"
    BY <1>0, <1>4, <1>10 DEF Leaves
  <2>a. Leaves(kicktype)' /\ turn' <= MaxChain
    <3>1. turn < MaxChain /\ turn' = turn
      BY <1>1, <2>1
    <3>2. turn' <= MaxChain
      BY <1>2, <3>1
    <3>3. Leaves(kicktype)'
      BY <1>10, <2>1 DEF Leaves
    <3> QED
      BY <3>2, <3>3
  <2>2. Undoubted' /\ Running'
    BY <2>1, <2>a DEF Undoubted, Running
  <2>3. kick = "invalid login payload" /\ HasOtherKey(t, turn) /\ t.x5u # None => ~Chained(n + 1)'
    BY <1>c
  <2>4. Reason(kicktype)'
    BY <1>n, <1>3, <1>4, <2>1, <2>3 DEF Reason, KickMessages
  <2> QED
    BY <1>9, <2>2, <2>4 DEF LoginInv
<1>11. CASE ~Leaves(kick) /\ taken.kick # None
  <2>0. turn = 2
    BY <1>7, <1>11
  <2>1. kicktype' = "invalid login payload" /\ turn' = turn /\ (t.identity = None \/ t.signature = "unverifiable")
    BY <1>0, <1>7, <1>11
  <2>2. Leaves(kicktype)' /\ kicktype' # None
    BY <2>1, NoneIsNoKick DEF Leaves, KickMessages
  <2>a. turn' <= MaxChain
    <3>1. turn < MaxChain /\ turn' = turn
      BY <1>1, <2>1
    <3> QED
      BY <1>2, <3>1
  <2>3. Undoubted' /\ Running'
    BY <2>2, <2>a DEF Undoubted, Running
  <2>4. Reason(kicktype)'
    <3>1. turn + 1 = 3
      BY <2>0
    <3> QED
      BY <1>3, <2>1, <3>1 DEF Reason
  <2> QED
    BY <1>9, <2>3, <2>4 DEF LoginInv
<1>12. CASE ~Leaves(kick) /\ taken.kick = None
  <2>1. /\ kicktype' = IF kick # None THEN kick ELSE kicktype
        /\ turn' = turn + 1 /\ is_mojang' = (is_mojang \/ t.x5u = MOJANG_ROOT_KEY) /\ identity' = taken.identity
        /\ kick \in {None, "invalid login"} /\ kicktype \in {None, "invalid login"}
    BY <1>0, <1>1, <1>12 DEF Leaves
  <2>2. turn + 1 \in 1 .. turn + 1 /\ turn + 1 <= MaxChain /\ turn + 1 # 0
    BY <1>1, <1>2
  <2>3. Running'
    <3>1. ASSUME Verifiable(turn)'
          PROVE  current_public_key' = NextKey(read'[Giver((turn + 1) + 1)])
      <4>1. t.signature # "unverifiable" /\ Verifiable(turn)
        <5>1. \A m \in 1 .. turn + 1 : read'[m].signature # "unverifiable"
          BY <2>1, <3>1 DEF Verifiable
        <5>2. \A m \in 1 .. turn : m \in 1 .. turn + 1
          BY <1>2
        <5> QED
          BY <1>3, <2>2, <5>1, <5>2 DEF Verifiable
      <4>2. "done" \in stat
        BY <1>4, <2>1, <4>1
      <4>3. CASE turn = 4
        <5>1. Giver((turn + 1) + 1) = 4 /\ Giver(turn + 1) = 4 /\ 4 \in 1 .. turn
          BY <4>3 DEF Giver
        <5>2. read'[4] = read[4]
          BY <1>3, <5>1
        <5>3. current_public_key' = NextKey(read[4])
          BY <1>6, <1>b, <4>1, <4>3, <5>1
        <5> QED
          BY <5>1, <5>2, <5>3
      <4>4. CASE turn # 4
        <5>1. Giver((turn + 1) + 1) = turn + 1
          BY <1>2, <4>4 DEF Giver
        <5> QED
          BY <1>3, <1>6, <4>2, <4>4, <5>1
      <4> QED
        BY <4>3, <4>4
    <3> QED
      <4>1. Len(read') = turn' /\ turn' # 0 /\ turn' <= MaxChain
        BY <1>3, <2>1, <2>2
      <4>2. Verifiable(turn)' => current_public_key' = NextKey(read'[Giver(turn' + 1)])
        BY <2>1, <3>1
      <4> QED
        BY <4>1, <4>2 DEF Running
  <2>4. ASSUME kicktype' = None PROVE Undoubted'
    <3>1. kick = None /\ kicktype = None /\ "done" \in stat
      BY <1>4, <2>1, <2>4
    <3>2. /\ Linked(turn) /\ Sound(turn)
          /\ is_mojang <=> \E m \in 1 .. turn : read[m].x5u = MOJANG_ROOT_KEY
          /\ IF turn < 3 THEN identity = None ELSE identity = read[3].identity /\ identity # None
      BY <1>1, <3>1 DEF LoginInv, Undoubted
    <3>3. turn # 0 => Follows(t, read[Giver(turn + 1)])
      <4>1. Verifiable(turn)
        BY <3>2 DEF Sound, Verifiable
      <4> QED
        BY <1>1, <1>2, <1>3, <1>5, <1>b, <3>1, <4>1, FollowsIs
    <3>4. \A m \in 2 .. turn + 1 : Follows(read'[m], read'[Giver(m)])
      BY <1>1, <1>2, <3>2, <3>3, LinkMore
    <3>5. ASSUME NEW m \in 1 .. turn + 1
          PROVE  /\ read'[m].signature \in {"good", "bad"}
                 /\ m = 5 \/ (read'[m].identityPublicKey # None /\ read'[m].in_time)
      <4>1. CASE m = turn + 1
        <5>1. turn = 4 => m = 5
          BY <4>1
        <5> QED
          BY <1>3, <1>5, <3>1, <4>1, <5>1
      <4>2. CASE m # turn + 1
        <5>1. m \in 1 .. turn
          BY <1>2, <4>2
        <5> QED
          BY <1>3, <3>2, <5>1 DEF Sound
      <4> QED
        BY <4>1, <4>2
    <3>6. is_mojang' <=> \E m \in 1 .. turn + 1 : read'[m].x5u = MOJANG_ROOT_KEY
      <4>1. CASE is_mojang
        <5>1. PICK m \in 1 .. turn : read[m].x5u = MOJANG_ROOT_KEY
          BY <3>2, <4>1
        <5>2. m \in 1 .. turn + 1
          BY <1>2
        <5> QED
          BY <1>3, <2>1, <4>1, <5>1, <5>2
      <4>2. CASE ~is_mojang
        <5>1. \A m \in 1 .. turn : read'[m].x5u # MOJANG_ROOT_KEY
          BY <1>3, <3>2, <4>2
        <5>2. \A m \in 1 .. turn + 1 : m \in 1 .. turn \/ m = turn + 1
          BY <1>2
        <5> QED
          BY <1>3, <2>1, <2>2, <4>2, <5>1, <5>2
      <4> QED
        BY <1>8, <4>1, <4>2
    <3>7. IF turn + 1 < 3 THEN identity' = None ELSE identity' = read'[3].identity /\ identity' # None
      <4>0. IF turn = 2 THEN identity' = t.identity /\ t.identity # None ELSE identity' = identity
        BY <1>5, <1>7, <1>12, <2>1, <3>1
      <4>1. CASE turn = 2
        <5>1. turn + 1 = 3
          BY <4>1
        <5> QED
          BY <1>3, <4>0, <4>1, <5>1
      <4>2. CASE turn < 2
        <5>1. turn # 2 /\ turn < 3 /\ turn + 1 < 3
          BY <1>2, <4>2
        <5> QED
          BY <3>2, <4>0, <5>1
      <4>3. CASE turn > 2
        <5>1. 3 \in 1 .. turn /\ ~(turn < 3) /\ ~(turn + 1 < 3) /\ turn # 2
          BY <1>2, <4>3
        <5> QED
          BY <1>3, <3>2, <4>0, <5>1
      <4> QED
        BY <1>2, <4>1, <4>2, <4>3
    <3> QED
      BY <2>1, <2>2, <3>4, <3>5, <3>6, <3>7 DEF Undoubted, Linked, Sound
  <2>5. Undoubted'
    BY <2>4 DEF Undoubted
  <2>6. ASSUME kicktype' # None PROVE Reason(kicktype)'
    <3>1. kicktype' = "invalid login"
      BY <2>1, <2>6
    <3>2. \E m \in 1 .. turn + 1 : read'[m].signature = "unverifiable"
      <4>1. CASE kick # None
        BY <1>3, <1>4, <2>1, <2>2, <4>1
      <4>2. CASE kick = None
        <5>1. kicktype = "invalid login" /\ Reason(kicktype)
          BY <1>8, <2>1, <2>6, <4>2
        <5>2. PICK m \in 1 .. turn : read[m].signature = "unverifiable"
          BY <1>2, <5>1 DEF Reason
        <5>3. m \in 1 .. turn + 1
          BY <1>2
        <5> QED
          BY <1>3, <5>2, <5>3
      <4> QED
        BY <4>1, <4>2
    <3> QED
      BY <1>3, <3>1, <3>2 DEF Reason
  <2> QED
    BY <1>9, <2>3, <2>5, <2>6 DEF LoginInv
<1> QED
  BY <1>10, <1>11, <1>12

LEMMA LoginStep == ASSUME LoginInv, [LoginNext]_login PROVE LoginInv'
<1>1. CASE UNCHANGED login
  <2>1. UNCHANGED <<turn, current_public_key, kicktype, is_mojang, identity, answer, read>>
    BY <1>1 DEF login
  <2>2. LoginTypeOK'
    BY <2>1 DEF LoginInv, LoginTypeOK
  <2>3. Undoubted' /\ Running'
    BY <2>1 DEF LoginInv, Undoubted, Linked, Sound, Running, Verifiable
  <2>4. (kicktype # None => Reason(kicktype))' /\ ToldWhatStopped'
    BY <2>1 DEF LoginInv, ToldWhatStopped, Reason, Chained, Excused
  <2>5. ChainIsLinked' /\ IdentityIsThird'
    BY <2>1 DEF LoginInv, ChainIsLinked, IdentityIsThird, Accepted, Excused
  <2> QED
    BY <2>2, <2>3, <2>4, <2>5 DEF LoginInv
<1> QED
  BY <1>1, KickStep, TokenStep, ClientDataStep, FaultStep DEF LoginNext

\* Whatever the tokens and however long the chain, a login is accepted only when the keys of its
\* tokens follow each other as far as strcmp sees, one is Mojang's, each is in time and the player is
\* who the third token says; and whoever is refused, and told why, is told what is wrong with the
\* tokens read (handle_packet_login, verifly_jwt_chain).
THEOREM LoginsFollowChains == LoginSpec => []LoginFollowsChain
<1>1. LoginInv /\ [LoginNext]_login => LoginInv'
  BY LoginStep
<1>2. LoginInv => LoginFollowsChain
  BY DEF LoginInv, LoginFollowsChain
<1> QED
  BY <1>1, <1>2, InitLogin, PTL DEF LoginSpec
=============================================================================
