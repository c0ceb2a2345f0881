------------------------------- MODULE MCChunk -------------------------------
(***************************************************************************)
(* A chunk in memory, and how a storage of it is packed for the client:    *)
(* `part` says which of the two runs, the other stands still.              *)
(*                                                                         *)
(* The chunk has sub chunks of 2 x 2 x 2 cells, two of the three within    *)
(* reach of a height; the storage that is packed is a whole one, with      *)
(* palettes at and around each change of version.                          *)
(***************************************************************************)
EXTENDS Chunk, StorageEncoding

VARIABLE part

ChunkPartInit ==
  /\ Init /\ PackInit
  /\ part \in {"chunk", "storage"}
  /\ part = "chunk" => palette_size = 1

ChunkPartNext ==
  \/ part = "chunk" /\ Next /\ UNCHANGED <<part, storage>>
  \/ part = "storage" /\ PackNext /\ UNCHANGED <<part, vars>>
===============================================================================
