--------------------------- MODULE RealtimeSocket ---------------------------
(***************************************************************************)
(* The connection that carries the server's events to one client: WSClient *)
(* with its reconnection, and the provider that makes an instance of it per*)
(* workspace. Recovery from missed events is what the module is about: the *)
(* client refetches when an instance authenticates again ("met" says it did*)
(* before) and when a later instance replaces the first.                   *)
(*                                                                         *)
(* The server acknowledges a client before it registers it with the hub    *)
(* (realtime/hub.go), so a client may be "up" and not yet receive events.  *)
(* Delays, jitter and their cap only say when a timer may fire. A frame is *)
(* the number of the commit it announces.                                  *)
(***************************************************************************)
EXTENDS Naturals, Sequences

VARIABLES
    socket,     \* the current WSClient instance
    frames      \* events sent and not yet handled, oldest first

socketVars == <<socket, frames>>

Phases == {"torn down", "opening", "up", "waiting"}
Socket == [phase: Phases, registered: BOOLEAN,
           met: BOOLEAN]    \* WSClient.hasConnectedBefore

SocketInit ==
    /\ socket = [phase |-> "opening", registered |-> FALSE, met |-> FALSE]
    /\ frames = <<>>

-----------------------------------------------------------------------------

\* onAuthenticated runs the reconnect callbacks unless this is the first time.
Authenticated == [socket EXCEPT !.phase = "up", !.met = TRUE]

\* mutated
NeverRecovers == FALSE

Recovers == socket.met

\* ws.onopen, and with a token the auth frame and its ack.
Opens ==
    /\ socket.phase = "opening"
    /\ socket' = Authenticated
    /\ UNCHANGED frames

\* hub.register <- client, after the upgrade and the ack.
ServerRegisters ==
    /\ socket.phase = "up" /\ ~socket.registered
    /\ socket' = [socket EXCEPT !.registered = TRUE]
    /\ UNCHANGED frames

\* ws.onclose schedules the next attempt; what was on the wire is lost.
Closes ==
    /\ socket.phase \in {"opening", "up"}
    /\ socket' = [socket EXCEPT !.phase = "waiting", !.registered = FALSE]
    /\ frames' = <<>>

ReconnectTimer ==
    /\ socket.phase = "waiting"
    /\ socket' = [socket EXCEPT !.phase = "opening"]
    /\ UNCHANGED frames

\* The provider's cleanup: another workspace, another user, or the page goes away.
Disconnects ==
    /\ socket.phase # "torn down"
    /\ socket' = [socket EXCEPT !.phase = "torn down", !.registered = FALSE, !.met = FALSE]
    /\ frames' = <<>>

\* The provider's effect makes an instance and connects it. The sync effect sees that
\* it is not the first one, which Init has.
NewInstance ==
    /\ socket.phase = "torn down"
    /\ socket' = [socket EXCEPT !.phase = "opening"]
    /\ UNCHANGED frames

\* The hub sends an event to registered clients only.
Publish(n) == frames' = IF socket.registered THEN Append(frames, n) ELSE frames

\* An event that no recovery yet to come will make up for.
Unrecovered ==
    /\ ~socket.registered
    /\ \/ socket.phase = "up"
       \/ socket.phase \in {"opening", "waiting"} /\ ~socket.met

=============================================================================
