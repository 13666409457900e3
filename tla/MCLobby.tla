------------------------------ MODULE MCLobby ------------------------------
(* Lobby.tla on small instances. *)
EXTENDS LobbyProperties, TLC

=============================================================================
