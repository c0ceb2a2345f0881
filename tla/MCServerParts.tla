---------------------------- MODULE MCServerParts ----------------------------
(***************************************************************************)
(* Three sequential parts of the server in one run, `part` says which: the *)
(* resource tables that main loads before anything else, the table of the  *)
(* console's commands, and what handle_packet_login decides.               *)
(***************************************************************************)
EXTENDS Resources, CommandManager, Login

CONSTANT MaxBlocks  \* bound: entries of the file of block states

VARIABLE part

Entries == {[name |-> "a", metadata |-> m, block_name |-> b, block_metadata |-> k, nbt |-> t] :
              m \in {<<>>, <<1>>}, b \in {<<>>, <<"a">>, <<"b">>}, k \in {<<>>, <<0>>, <<1>>, <<2>>, <<3>>}, t \in BOOLEAN}
MCFiles ==
  {[items |-> items, blocks |-> blocks, creative |-> <<e, [e EXCEPT !.nbt = ~@, !.name = "b"]>>] :
     items \in {<<>>, <<[name |-> "a", runtime_id |-> 1]>>,
                <<[name |-> "b", runtime_id |-> -2], [name |-> "a", runtime_id |-> 1]>>},
     blocks \in UNION {[1 .. n -> {"a", "b", "c", "none"}] : n \in 0 .. MaxBlocks},
     e \in {x \in Entries : x.metadata = <<>> => x.nbt}}

\* Keys that strcmp tells from Mojang's and those it does not, and a text that is no key.
CONSTANTS root, twin, stranger, garbled, xuid
MCKeys == {root, twin, stranger, garbled}
MCStart == [k \in MCKeys |-> IF k = garbled THEN None ELSE IF k = stranger THEN "other bytes" ELSE "header"]

\* A token with nothing wrong, and those with one thing; the time too may be wrong where the signature is.
Good == [x5u |-> twin, key_size |-> "ok", signature |-> "good", identityPublicKey |-> twin, in_time |-> TRUE,
         identity |-> xuid]
MCTokens ==
  {Good}
    \cup {[Good EXCEPT !.x5u = key] : key \in {root, None, stranger}}
    \cup {[Good EXCEPT !.x5u = garbled, !.signature = sig] : sig \in {"wrong size", "unverifiable"}}
    \cup {[Good EXCEPT !.key_size = "wrong"]}
    \cup {[Good EXCEPT !.signature = wrong] : wrong \in {"wrong size", "unverifiable", "bad"}}
    \cup {[Good EXCEPT !.identityPublicKey = key] : key \in {None, stranger, garbled}}
    \cup {[Good EXCEPT !.identity = None], [Good EXCEPT !.in_time = FALSE],
          [Good EXCEPT !.in_time = FALSE, !.signature = "bad"]}

\* The other parts have no files.
NoFiles == INSTANCE Resources WITH Files <- {[items |-> <<>>, blocks |-> <<>>, creative |-> <<>>]}

PartsInit ==
  /\ part \in {"resources", "console", "login"}
  /\ ConsoleInit /\ LoginInit
  /\ IF part = "resources" THEN Init ELSE NoFiles!Init

PartsNext ==
  /\ UNCHANGED part
  /\ \/ part = "resources" /\ Next /\ UNCHANGED <<console, login>>
     \/ part = "console" /\ ConsoleNext /\ UNCHANGED <<vars, login>>
     \/ part = "login" /\ LoginNext /\ UNCHANGED <<vars, console>>
===============================================================================
