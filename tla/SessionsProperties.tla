------------------------- MODULE SessionsProperties -------------------------
(***************************************************************************)
(* What people in lobbies rely on, across screens, pumps and the registry.  *)
(***************************************************************************)
EXTENDS Sessions

(***************************************************************************)
(* A live lobby is found under its code, whoever closed which lobby before  *)
(* and however late Store.remove came (lobby.go:307-311); a code leads to   *)
(* a lobby that is gone only until the player who closed it has removed it. *)
(***************************************************************************)
RegistryAgrees ==
  /\ \A l \in Lobbies : Live(l) => code[l] # None /\ registry[code[l]] = l
  /\ \A k \in Codes : LET l == registry[k] IN
       l # None => code[l] = k /\ (Live(l) \/ \E p \in Players : removing[p] = l)

(***************************************************************************)
(* A broadcast never meets a closed channel (the send would panic) and no   *)
(* channel is closed twice: the open channels are the subscriptions of live *)
(* lobbies, each that of one player of one lobby.                           *)
(***************************************************************************)
ChannelsAgree ==
  /\ \A c \in Channels :
       pump[c] = "open" <=> \E l \in Lobbies, p \in Players : subs[l][p] = c
  /\ \A l, m \in Lobbies, p, q \in Players :
       subs[l][p] # None =>
         /\ Live(l) /\ reader[subs[l][p]] = p
         /\ subs[l][p] = subs[m][q] => l = m /\ p = q

(***************************************************************************)
(* A session is a player in the lobby its context names, and subscribed to  *)
(* it, and in no other (ui.go:66-69).                                       *)
(***************************************************************************)
KnowsItsLobby ==
  \A p \in Players, l \in Lobbies :
    /\ p \in Members(l) <=> ctxLobby[p] = l
    /\ subs[l][p] # None <=> ctxLobby[p] = l

(***************************************************************************)
(* Disconnect releases everything the session was holding (ui.go:129-132):  *)
(* nobody who is gone is a player in a lobby or subscribed to one.          *)
(***************************************************************************)
Released ==
  \A p \in Players, l \in Lobbies :
    session[p] = "gone" => p \notin Members(l) /\ subs[l][p] = None

(* The screen of a lobby in phase ph. *)
ScreenOf(ph) ==
  CASE ph \in {"Waiting", "Countdown"} -> "waiting"
    [] ph = "Racing" -> "race"
    [] ph = "Finished" -> "results"

ShowsItsLobby(p) ==
  screen[p] = IF ctxLobby[p] = None THEN Browser
              ELSE Screen(ScreenOf(phase[ctxLobby[p]]), ctxLobby[p])

(* Nothing is on its way to the session. *)
Quiet(p) ==
  /\ Running(p) /\ Settled(p)
  /\ \A c \in Channels : reader[c] = p => queue[c] = <<>> /\ held[c] = None

(***************************************************************************)
(* Screens follow the lobby by its events alone: a session that has handled *)
(* all it was sent shows its own lobby in the phase the lobby is in.        *)
(***************************************************************************)
InStep == \A p \in Players : Quiet(p) => ShowsItsLobby(p)

(***************************************************************************)
(* A session behind its lobby catches up, if its buffer had room: events    *)
(* through its pump, then navigations, take it to the screen of the phase   *)
(* however often the phase moves on meanwhile, or the lobby is left.        *)
(***************************************************************************)
CatchesUp ==
  \A p \in Players :
    (session[p] = "running" /\ ~ShowsItsLobby(p))
      ~> (session[p] # "running" \/ ShowsItsLobby(p))

(***************************************************************************)
(* Missing an event "is safe because the events that matter most", changes  *)
(* of phase, "are also reflected in the next snapshot a subscriber          *)
(* receives" (lobby.go:366-368): a session handed the snapshot of a lobby   *)
(* that is back to waiting comes to show what its lobby is at.              *)
(***************************************************************************)
SnapshotMakesUp ==
  \A p \in Players :
    (/\ ctxLobby[p] # None /\ phase[ctxLobby[p]] = "Waiting"
     /\ held[subs[ctxLobby[p]][p]] = "waiting")
      ~> (session[p] # "running" \/ ShowsItsLobby(p))

(***************************************************************************)
(* The pump of a channel that was closed ends (ui.go:93-96), so a session   *)
(* leaks no goroutine.                                                      *)
(***************************************************************************)
PumpsExit == \A c \in Channels : pump[c] = "closed" ~> pump[c] = "free"

=============================================================================
