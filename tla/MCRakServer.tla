----------------------------- MODULE MCRakServer -----------------------------
(* Two clients behind one IP, the one worker of server.c; a datagram holds   *)
(* one frame, or the first two of a session, or a notification before or     *)
(* after another frame.                                                      *)
EXTENDS RakServer

MCFrameSets ==
  {<<"new_incoming_connection", "network_settings">>, <<"play">>, <<"not_a_game">>,
   <<"network_settings", "disconnect_notification">>, <<"disconnect_notification", "network_settings">>}
==============================================================================
