-------------------------------- MODULE NbtTree --------------------------------
(***************************************************************************)
(* The life of a tree of tags: put into a stream in one of the byte        *)
(* orders, got from it, which allocates it block by block, and destroyed.  *)
(* A block is named by its path in the tree.                               *)
(***************************************************************************)
EXTENDS Nbt

CONSTANTS Trees,   \* inputs: the named tags that are put
          Trailer  \* input: what stands behind the tag in the stream

VARIABLES tree, endianess, stream,
          reader,  \* where the getter stands
          read,    \* what was got
          heap,    \* the blocks malloc gave
          wild,    \* blocks passed to free that were not in the heap, or twice
          phase

vars == <<tree, endianess, stream, reader, read, heap, wild, phase>>

NoTree == [tag_id |-> END_TAG]

RECURSIVE Blocks(_, _, _), Destroyed(_, _, _)

\* What get_nbt_multi_tag allocates.
Blocks(tag, data, path) ==
  CASE tag \in ArrayTags -> {Append(path, "data")}
    [] tag = LIST_TAG ->
         {Append(path, "data")} \cup
         UNION {Blocks(data.tag_id, data.items[n], Append(path, n)) : n \in DOMAIN data.items}
    [] tag = COMPOUND_TAG ->
         {Append(path, b) : b \in {"tag_ids", "names", "data"}} \cup
         {path \o <<n, "name">> : n \in DOMAIN data} \cup
         UNION {Blocks(data[n].tag_id, data[n].data, Append(path, n)) : n \in DOMAIN data}
    [] OTHER -> {}

NamedBlocks(named) ==
  IF named.tag_id = END_TAG THEN {}
  ELSE {<<"name">>} \cup Blocks(named.tag_id, named.data, <<"root">>)

\* Mutant: the switch of destroy_nbt_list without its case for the long arrays.
MutDestroyed(tag, data, path) ==
  CASE tag \in ArrayTags \ {LONG_ARRAY_TAG} -> <<Append(path, "data")>>
    [] tag = LIST_TAG ->
         FlattenSeq([n \in DOMAIN data.items |-> Destroyed(data.tag_id, data.items[n], Append(path, n))])
           \o <<Append(path, "data")>>
    [] tag = COMPOUND_TAG ->
         FlattenSeq([n \in DOMAIN data |->
                       <<path \o <<n, "name">>>>
                         \o Destroyed(data[n].tag_id, data[n].data, Append(path, n))])
           \o [n \in 1 .. 3 |-> Append(path, <<"data", "names", "tag_ids">>[n])]
    [] OTHER -> <<>>

\* What the switches of the destroy functions free, in their order.
Destroyed(tag, data, path) ==
  CASE tag \in ArrayTags -> <<Append(path, "data")>>
    [] tag = LIST_TAG ->
         FlattenSeq([n \in DOMAIN data.items |-> Destroyed(data.tag_id, data.items[n], Append(path, n))])
           \o <<Append(path, "data")>>
    [] tag = COMPOUND_TAG ->
         FlattenSeq([n \in DOMAIN data |->
                       <<path \o <<n, "name">>>>
                         \o Destroyed(data[n].tag_id, data[n].data, Append(path, n))])
           \o [n \in 1 .. 3 |-> Append(path, <<"data", "names", "tag_ids">>[n])]
    [] OTHER -> <<>>

destroy_nbt_named(named) == <<<<"name">>>> \o Destroyed(named.tag_id, named.data, <<"root">>)
-------------------------------------------------------------------------------
Init ==
  /\ tree = NoTree /\ endianess = E_NETWORK_ENDIAN /\ stream = <<>>
  /\ reader = Reader(<<>>) /\ read = NoTree /\ heap = {} /\ wild = {} /\ phase = "idle"

PutTree ==
  /\ phase = "idle"
  /\ \E t \in Trees, e \in {E_BIG_ENDIAN, E_LITTLE_ENDIAN, E_NETWORK_ENDIAN} :
       /\ tree' = t
       /\ endianess' = e
       /\ stream' = put_nbt_named_tag(t, e) \o Trailer
  /\ phase' = "put"
  /\ UNCHANGED <<reader, read, heap, wild>>

GetTree ==
  /\ phase = "put"
  /\ LET got == get_nbt_named_tag(endianess, Reader(stream))
     IN /\ read' = got.value
        /\ reader' = got.reader
        /\ heap' = NamedBlocks(got.value)
  /\ phase' = "got"
  /\ UNCHANGED <<tree, endianess, stream, wild>>

\* No caller destroys an end tag: its name was never set.
Destroy ==
  /\ phase = "got"
  /\ read.tag_id # END_TAG
  /\ LET frees == destroy_nbt_named(read)
     IN /\ heap' = heap \ Range(frees)
        /\ wild' = {frees[n] : n \in {k \in DOMAIN frees :
                      frees[k] \notin heap \/ \E j \in 1 .. k - 1 : frees[j] = frees[k]}}
  /\ phase' = "destroyed"
  /\ UNCHANGED <<tree, endianess, stream, reader, read>>

Next == PutTree \/ GetTree \/ Destroy

Spec == Init /\ [][Next]_vars
-------------------------------------------------------------------------------
\* The tree that is got is the one that was put, in every byte order, and the reader stands
\* at what follows it: nothing of a nested tag is left, nothing behind it is taken.
ReadBack ==
  phase \in {"got", "destroyed"} =>
    /\ read = tree
    /\ reader.offset = Len(stream) - Len(Trailer)

\* Destroying a tree gives back all that getting it took, however the lists and the compounds
\* are nested.
NothingLeaks == phase = "destroyed" => heap = {}

\* And frees no block twice, and none it does not have.
FreedOnce == wild = {}
===============================================================================
