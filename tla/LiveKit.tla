------------------------------ MODULE LiveKit ------------------------------
(***************************************************************************)
(* The LiveKit media server, as the backend uses it: one room for the      *)
(* meeting, the users connected to it, the join tokens users hold, and the *)
(* webhooks LiveKit has raised and the backend has not yet handled.        *)
(*                                                                         *)
(* Webhooks travel over HTTP and the backend keeps no record of those it   *)
(* has handled, so hooks is a set: an event may be lost when it is raised, *)
(* overtaken by later ones, and delivered more than once.                  *)
(***************************************************************************)
EXTENDS Naturals, FiniteSets

CONSTANTS
  Users,     \* identities a token may be issued to
  Nobody,    \* identity of a webhook about the room itself
  MaxHooks   \* bound: webhooks waiting for delivery at a time

ASSUME NobodyAssumption == Nobody \notin Users
ASSUME UsersAssumption == IsFiniteSet(Users)

VARIABLES
  room,      \* the meeting's room exists
  connected, \* users connected to the room
  tokens,    \* users holding an unexpired join token
  hooks      \* webhooks on their way to the backend

livekit == <<room, connected, tokens, hooks>>

RoomEvents == {"room_started", "room_finished"}
UserEvents == {"participant_joined", "participant_left"}

Hooks == [event : RoomEvents, identity : {Nobody}]
           \cup [event : UserEvents, identity : Users]

Hook(e, u) == [event |-> e, identity |-> u]

LiveKitTypeOK ==
  /\ room \in BOOLEAN
  /\ connected \subseteq Users
  /\ tokens \subseteq Users
  /\ hooks \subseteq Hooks

LiveKitInit ==
  /\ room = FALSE
  /\ connected = {}
  /\ tokens = {}
  /\ hooks = {}

\* Any part of the raised events reaches the wire; the rest is lost.
Raise(E) ==
  \E D \in SUBSET E :
    /\ Cardinality(hooks \cup D) <= MaxHooks
    /\ hooks' = hooks \cup D

-----------------------------------------------------------------------------
(* Calls of the backend. An existing room is left as it is.                *)

CreateRoom ==
  /\ room' = TRUE
  /\ Raise(IF room THEN {} ELSE {Hook("room_started", Nobody)})
  /\ UNCHANGED <<connected, tokens>>

RemoveParticipant(u) ==
  /\ connected' = connected \ {u}
  /\ Raise({Hook("participant_left", v) : v \in connected \cap {u}})
  /\ UNCHANGED <<room, tokens>>

DeleteRoom ==
  /\ room' = FALSE
  /\ connected' = {}
  /\ Raise({Hook("participant_left", v) : v \in connected}
             \cup (IF room THEN {Hook("room_finished", Nobody)} ELSE {}))
  /\ UNCHANGED tokens

-----------------------------------------------------------------------------
(* What clients and LiveKit do on their own.                               *)

\* LiveKit creates a missing room for whoever joins it with a valid token.
Connect(u) ==
  /\ u \in tokens \ connected
  /\ room' = TRUE
  /\ connected' = connected \cup {u}
  /\ Raise({Hook("participant_joined", u)}
             \cup (IF room THEN {} ELSE {Hook("room_started", Nobody)}))
  /\ UNCHANGED tokens

Disconnect(u) ==
  /\ u \in connected
  /\ RemoveParticipant(u)

\* emptyTimeout and departureTimeout of the room's configuration.
RoomTimesOut ==
  /\ room
  /\ connected = {}
  /\ DeleteRoom

TokenExpires(u) ==
  /\ u \in tokens
  /\ tokens' = tokens \ {u}
  /\ UNCHANGED <<room, connected, hooks>>

LiveKitNext ==
  \/ \E u \in Users : Connect(u) \/ Disconnect(u) \/ TokenExpires(u)
  \/ RoomTimesOut
=============================================================================
