------------------------------- MODULE Sessions -------------------------------
(***************************************************************************)
(* PlayerSession together with its clients, which are not in this          *)
(* repository: the client of the protocol, as the handlers of the server   *)
(* expect it.  What a client says reaches the worker through               *)
(* main_to_threaded in the order in which it said it, its leaving behind   *)
(* that; a client that is back from the same port may be sent what its     *)
(* last session was owed.                                                  *)
(***************************************************************************)
EXTENDS PlayerSession

CONSTANT MaxQueue   \* bound: when the queue is longer nobody connects or talks; MaxSent bounds
                    \* what a client is still owed when it comes back

VARIABLES client,            \* what each client waits for
          main_to_threaded   \* what the worker has still to take

all == <<vars, client, main_to_threaded>>

Message(a, packets) == [address |-> a, packets |-> packets]
Gone(a) == Message(a, <<>>)

SessionsInit ==
  /\ Init
  /\ client = [a \in Addresses |-> "away"]
  /\ main_to_threaded = <<>>

Say(a, packet) == main_to_threaded' = Append(main_to_threaded, Message(a, <<packet>>))
Wait(a, for) == client' = [client EXCEPT ![a] = for]
Settings(current) == [id |-> "request_network_settings", current |-> current]
Ask == [id |-> "request_chunk_radius", radius |-> ServerRadius]

Connect(a) ==
  /\ client[a] = "away" /\ Len(main_to_threaded) < MaxQueue /\ Len(sent[a]) < MaxSent
  /\ \/ Wait(a, "network_setting") /\ Say(a, Settings(TRUE))
     \/ Wait(a, "old") /\ Say(a, Settings(FALSE))
  /\ UNCHANGED vars

\* What the client answers to the packet it waits for, and what it then waits for.
Answers ==
  [network_setting     |-> <<[id |-> "login", accepted |-> TRUE], "resource_packs_info">>,
   resource_packs_info |-> <<[id |-> "resource_pack_client_response", status |-> "have_all_packs"],
                             "resource_pack_stack">>,
   resource_pack_stack |-> <<[id |-> "resource_pack_client_response", status |-> "completed"], "start_game">>,
   start_game          |-> <<Ask, "player_spawn">>]

\* What a client that is not too old waits for.
Stages == DOMAIN Answers \cup {"player_spawn", "playing"}

Arrives(a) == /\ client[a] # "away" /\ sent[a] # <<>>
              /\ sent' = [sent EXCEPT ![a] = Tail(@)]
              /\ UNCHANGED <<players, batch, sender, said>>

Awaited(a) ==
  /\ Arrives(a) /\ Head(sent[a]).id = client[a]
  /\ Say(a, Answers[client[a]][1]) /\ Wait(a, Answers[client[a]][2])

Spawned(a) ==
  /\ Arrives(a) /\ IsSpawn(Head(sent[a])) /\ client[a] = "player_spawn"
  /\ Wait(a, "playing") /\ UNCHANGED main_to_threaded

\* A client that is too old is told and goes.
Outdated(a) ==
  /\ Arrives(a) /\ client[a] = "old"
  /\ Head(sent[a]) = [id |-> "play_status", status |-> "failed_client"]
  /\ Wait(a, "away") /\ main_to_threaded' = Append(main_to_threaded, Gone(a))

\* What it does not wait for changes nothing.
Ignored(a) ==
  /\ Arrives(a)
  /\ Head(sent[a]).id # client[a]
  /\ ~(IsSpawn(Head(sent[a])) /\ client[a] = "player_spawn")
  /\ ~(client[a] = "old" /\ Head(sent[a]) = [id |-> "play_status", status |-> "failed_client"])
  /\ UNCHANGED <<client, main_to_threaded>>

\* RakNet has no connection for what is sent to a client that is away.
Lost(a) ==
  /\ client[a] = "away" /\ sent[a] # <<>>
  /\ sent' = [sent EXCEPT ![a] = Tail(@)]
  /\ UNCHANGED <<players, batch, sender, said, client, main_to_threaded>>

Talk(a) ==
  /\ client[a] = "playing" /\ Len(main_to_threaded) < MaxQueue /\ said < MaxSaid
  /\ Say(a, [id |-> "text"])
  /\ UNCHANGED <<vars, client>>

Leave(a) ==
  /\ client[a] # "away"
  /\ Wait(a, "away") /\ main_to_threaded' = Append(main_to_threaded, Gone(a))
  /\ UNCHANGED vars

Client(a) == Connect(a) \/ Talk(a) \/ Leave(a) \/ Lost(a)
Answer(a) == Awaited(a) \/ Spawned(a) \/ Outdated(a) \/ Ignored(a)
-------------------------------------------------------------------------------
Take == batch = <<>> /\ main_to_threaded # <<>> /\ main_to_threaded' = Tail(main_to_threaded)

\* Mutant: the player stays.
MutTakeGone ==
  /\ Take /\ Head(main_to_threaded).packets = <<>>
  /\ UNCHANGED <<players, batch, sender, sent, said, client>>

TakeGone ==
  /\ Take /\ Head(main_to_threaded).packets = <<>>
  /\ remove_minecraft_player(Head(main_to_threaded).address)
  /\ UNCHANGED <<batch, sender, sent, said, client>>

\* A frame of an earlier session is handled for the connection of the next, and one of a
\* client that has just gone may find the connection still there.
TakeFrame ==
  /\ Take /\ Head(main_to_threaded).packets # <<>>
  /\ batch' = Head(main_to_threaded).packets /\ sender' = Head(main_to_threaded).address
  /\ UNCHANGED <<players, sent, said, client>>

\* The connection is not there any more: the frame is not handled.
TakeOfGone ==
  /\ Take /\ Head(main_to_threaded).packets # <<>>
  /\ client[Head(main_to_threaded).address] = "away"
  /\ UNCHANGED <<players, batch, sender, sent, said, client>>

Worker == TakeGone \/ TakeFrame \/ TakeOfGone \/ (on_f /\ UNCHANGED <<client, main_to_threaded>>)

SessionsNext == Worker \/ \E a \in Addresses : Client(a) \/ Answer(a)

\* The worker's loop runs on, and a client that stays answers what it is asked.
SessionsSpec ==
  /\ SessionsInit /\ [][SessionsNext]_all
  /\ WF_all(Worker)
  /\ \A a \in Addresses : WF_all(Answer(a))
-------------------------------------------------------------------------------
\* The worker has still to handle this packet of the client's session: no news that an
\* earlier one has gone is behind it.
IsToHandle(a, packet) ==
  \/ /\ batch = <<packet>> /\ sender = a
     /\ \A k \in DOMAIN main_to_threaded : main_to_threaded[k] # Gone(a)
  \/ \E n \in DOMAIN main_to_threaded :
       /\ main_to_threaded[n] = Message(a, <<packet>>)
       /\ \A k \in DOMAIN main_to_threaded : k > n => main_to_threaded[k] # Gone(a)

\* A client that believes to be playing is in the table and hears what is said, or will when what
\* it asked is handled, whatever its earlier sessions have left in the queue: on_dn of the last
\* session runs before the settings of the next.  It gets ahead of the worker when it takes what
\* was answered to five earlier sessions for answers of its own, one more of them each time.
PlayingIsKnown ==
  \A a \in Addresses : client[a] = "playing" => IsPlaying(a) \/ IsToHandle(a, Ask)

\* Nobody is in the table who has gone and whose leaving is not in the queue any more.
GoneIsForgotten ==
  \A a \in Addresses :
    has_minecraft_player_address(a) /\ client[a] = "away" =>
      \E n \in DOMAIN main_to_threaded : main_to_threaded[n] = Gone(a)

\* The table of players and what its clients believe agree, whoever leaves and comes back while
\* the worker is behind (server.c:93, mcplayermanager.c:16, 25).
TableFollowsClients == TypeOK /\ TableIsSound /\ PlayingIsKnown /\ GoneIsForgotten

\* A client that is not too old and stays is playing some day: no reply of the login, the
\* resource packs and the spawn is missing, and no old player stands in the way.
StaysThenPlays ==
  \A a \in Addresses :
    <>[](client[a] \in Stages) => <>[](client[a] = "playing")
===============================================================================
