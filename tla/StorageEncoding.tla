--------------------------- MODULE StorageEncoding ---------------------------
(***************************************************************************)
(* put_misc_block_storage (podrum/network/minecraft/mcmisc.c): the indices *)
(* of a block storage, packed in words of 32 bits, a step per pass of the  *)
(* inner loop.  A word is the set of the cells shifted into it: that no    *)
(* two of them overlap is a property, not a shape.                         *)
(***************************************************************************)
EXTENDS Naturals, FiniteSets

CONSTANTS Cells,       \* BLOCK_STORAGE_BLOCKS_SIZE
          PaletteSizes \* values of palette_size

ASSUME CellsIsNat == Cells \in Nat

\* The widest version holds 16 bits.  A palette has an entry when it is made, and at most
\* one per runtime id.
ASSUME PalettesFit == \A n \in PaletteSizes : n \in Nat \ {0} /\ n <= 2 ^ 16

VARIABLES palette_size,
          loop,     \* "outer", "inner", "done"
          word_index, ii, position,
          word,     \* the cells in the word, each with its shift
          sent      \* cells in the words that were put

storage == <<palette_size, loop, word_index, ii, position, word, sent>>

\* BITARRAY_V1 ..: bits of an index, indices in a word, words.
Version(bits, per_word, words) == [bits |-> bits, per_word |-> per_word, words |-> words]
BITARRAY_V1 == Version(1, 32, 128)
BITARRAY_V2 == Version(2, 16, 256)
BITARRAY_V3 == Version(3, 10, 410)
BITARRAY_V4 == Version(4, 8, 512)
BITARRAY_V5 == Version(5, 6, 683)
BITARRAY_V6 == Version(6, 5, 820)
BITARRAY_V8 == Version(8, 4, 1024)
BITARRAY_V16 == Version(16, 2, 2048)

\* ceil(log2(palette_size))
bits_per_block(n) == CHOOSE k \in 0..16 : 2 ^ k >= n /\ \A m \in 0..(k - 1) : 2 ^ m < n

\* Mutant: the case of 7 bits is forgotten with that of 6.
MutVersionOf(n) ==
  CASE bits_per_block(n) \in {0, 1} -> BITARRAY_V1
    [] bits_per_block(n) = 2 -> BITARRAY_V2
    [] bits_per_block(n) = 3 -> BITARRAY_V3
    [] bits_per_block(n) = 4 -> BITARRAY_V4
    [] bits_per_block(n) = 5 -> BITARRAY_V5
    [] bits_per_block(n) \in {6, 7} -> BITARRAY_V6
    [] bits_per_block(n) = 8 -> BITARRAY_V8
    [] OTHER -> BITARRAY_V16

VersionOf(n) ==
  CASE bits_per_block(n) \in {0, 1} -> BITARRAY_V1
    [] bits_per_block(n) = 2 -> BITARRAY_V2
    [] bits_per_block(n) = 3 -> BITARRAY_V3
    [] bits_per_block(n) = 4 -> BITARRAY_V4
    [] bits_per_block(n) = 5 -> BITARRAY_V5
    [] bits_per_block(n) = 6 -> BITARRAY_V6
    [] bits_per_block(n) \in {7, 8} -> BITARRAY_V8
    [] OTHER -> BITARRAY_V16

version == VersionOf(palette_size)

PackInit ==
  /\ palette_size \in PaletteSizes
  /\ loop = "outer"
  /\ word_index = 0 /\ ii = 0 /\ position = 0
  /\ word = {} /\ sent = 0

\* The head of the loop over the words.
Word ==
  /\ loop = "outer" /\ word_index < version.words
  /\ word' = {} /\ ii' = 0
  /\ loop' = "inner"
  /\ UNCHANGED <<palette_size, word_index, position, sent>>

\* word |= state << (version[0] * ii)
Shift ==
  /\ loop = "inner" /\ ii < version.per_word /\ position < Cells
  /\ word' = word \cup {[cell |-> position, shift |-> version.bits * ii]}
  /\ position' = position + 1 /\ ii' = ii + 1
  /\ UNCHANGED <<palette_size, loop, word_index, sent>>

\* put_unsigned_int_le(word), after the loop or its break.
PutWord ==
  /\ loop = "inner" /\ (ii >= version.per_word \/ position >= Cells)
  /\ sent' = sent + Cardinality(word)
  /\ word_index' = word_index + 1
  /\ loop' = "outer"
  /\ UNCHANGED <<palette_size, ii, position, word>>

\* The palette follows.
Done ==
  /\ loop = "outer" /\ word_index >= version.words
  /\ loop' = "done"
  /\ UNCHANGED <<palette_size, word_index, ii, position, word, sent>>

PackNext == Word \/ Shift \/ PutWord \/ Done

PackSpec == PackInit /\ [][PackNext]_storage
------------------------------------------------------------------------------
PackTypeOK ==
  /\ palette_size \in PaletteSizes
  /\ loop \in {"outer", "inner", "done"}
  /\ word_index \in 0..version.words /\ ii \in 0..version.per_word /\ position \in 0..Cells
  /\ word \subseteq [cell : 0..(Cells - 1), shift : 0..31]
  /\ sent \in 0..Cells

\* The client is told version.bits and nothing else: it reads a cell in the word and
\* at the shift that this number gives.  Each cell must be there, in bits of its own,
\* wide enough for any index of the palette (mcmisc.c:624).
CellsInPlace ==
  /\ \A c \in word : /\ c.cell \div (32 \div version.bits)
                          = IF loop = "inner" THEN word_index ELSE word_index - 1
                     /\ c.shift = (c.cell % (32 \div version.bits)) * version.bits
                     /\ c.shift + version.bits <= 32
  /\ palette_size <= 2 ^ version.bits

\* When the loops end every cell has been put once, in as many words as the client
\* expects: it reads the palette right after them (mcmisc.c:630).
AllCellsSent ==
  loop = "done" => /\ sent = Cells
                   /\ word_index = (Cells + 32 \div version.bits - 1) \div (32 \div version.bits)

\* The client finds every cell of a storage in the word and at the shift where the width of
\* an index says it is, and the palette right after the last word (mcmisc.c:594).
ReadWhereWritten == PackTypeOK /\ CellsInPlace /\ AllCellsSent
==============================================================================
