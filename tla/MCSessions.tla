------------------------------ MODULE MCSessions ------------------------------
(***************************************************************************)
(* The handlers of server.c in three parts of one run:                     *)
(*   "open"      two clients that say anything the handlers know, in any   *)
(*               order, leave and come back;                               *)
(*   "walk"      one player that walks over a grid of chunks;              *)
(*   "sessions"  one client of the protocol with the queue between it and  *)
(*               the worker, whose sessions follow each other.             *)
(***************************************************************************)
EXTENDS Sessions

VARIABLE part

allparts == <<all, part>>

Login(accepted) == [id |-> "login", accepted |-> accepted]
Response(status) == [id |-> "resource_pack_client_response", status |-> status]
Radius(r) == [id |-> "request_chunk_radius", radius |-> r]
Plain(id) == [id |-> id]

\* All that a client says up to its first words, in one batch, and what it says in others.
WholeLogin == <<Settings(TRUE), Login(TRUE), Response("none"), Response("completed"), Radius(2), Plain("interact"),
                Plain("container_close"), Plain("request_ability"), Plain("move_player"), Plain("text")>>
RefusedLogin == <<Settings(FALSE), Login(FALSE), Response("refused"), Plain("client_to_server_handshake")>>
OpenBatches == {WholeLogin, RefusedLogin, <<Settings(TRUE)>>, <<Radius(9), Plain("text")>>, <<Plain("text")>>,
                <<Plain("player_skin")>>}

Open == INSTANCE PlayerSession WITH
  Batches <- OpenBatches, Positions <- {<<0, 0>>}, MaxSent <- 5, MaxSaid <- 2

\* A walk over 3 x 4 chunks of 2 x 2 blocks.
Walk == INSTANCE PlayerSession WITH
  Batches <- {<<Settings(TRUE)>>, <<Radius(1)>>, <<Radius(2)>>, <<Radius(7)>>, <<Plain("move_player")>>},
  Positions <- {0, 1, 2, 4} \X {-1, 0, 2, 4}, MaxSent <- 8, MaxSaid <- 1

PartsInit ==
  /\ Init /\ main_to_threaded = <<>>
  /\ part \in {"open", "walk", "sessions"}
  /\ part # "open" => sender = 1
  /\ client = [a \in Addresses |-> IF part = "sessions" THEN "away" ELSE "free"]

\* rand gives one number to both loops that draw an id: they compare it with different fields.
OneDraw == \A k \in DOMAIN players' : players'[k].entity_unique_id = players'[k].entity_runtime_id

WorkerRuns == part = "sessions" /\ Worker /\ OneDraw /\ UNCHANGED part
ClientAnswers == part = "sessions" /\ Answer(1) /\ UNCHANGED part

PartsNext ==
  \/ WorkerRuns \/ ClientAnswers
  \/ part = "sessions" /\ Client(1) /\ UNCHANGED part
  \/ /\ \/ part = "open" /\ Open!Next
        \/ part = "walk" /\ Walk!Next /\ sender' = 1
     /\ OneDraw
     /\ UNCHANGED <<part, client, main_to_threaded>>

\* The worker's loop runs on, and a client that stays answers what it is asked.
PartsSpec == PartsInit /\ [][PartsNext]_allparts /\ WF_allparts(WorkerRuns) /\ WF_allparts(ClientAnswers)
-------------------------------------------------------------------------------
\* KeepsPromise (PlayerSession) of the parts whose clients leave what they are sent in `sent`: who
\* spawned hears all that is said, in one order, until it leaves (server.c:103).
PromiseIsKept ==
  /\ part # "sessions" => Kept!Init
  /\ [][part # "sessions" => Kept!Next]_(Kept!vars)

\* A client is told once that it spawns, after its radius and its chunks and before what others
\* say (mchandler.c:463).  A client of the protocol takes from what it is sent.
WorldIsToldFirst == part # "sessions" => WorldComesFirst
===============================================================================
