------------------------------ MODULE RoomView ------------------------------
(***************************************************************************)
(* What watching a room promises: the room changes by itself, and a        *)
(* watcher's screen only ever moves forward to places that an object has   *)
(* really been in, or drops an object that has left the room.  It may skip *)
(* places and lag behind; it never goes back.                              *)
(***************************************************************************)
EXTENDS Naturals

CONSTANTS Objects,  \* names of objects
          Clients,  \* connections that may watch
          MaxPlace  \* places of an object are numbered as it moves, up to this

VARIABLES objects,  \* the objects in the room
          place,    \* where each object is, or was when it left
          watching, \* the clients that have been shown the room
          screen    \* where each client shows each object, 0 for nowhere

vars == <<objects, place, watching, screen>>

Init ==
    /\ objects \in SUBSET Objects
    /\ place \in [Objects -> 0 .. 1]
    /\ watching = {}
    /\ screen = [c \in Clients |-> [o \in Objects |-> 0]]

\* Objects enter, move on and leave.
RoomChanges ==
    /\ objects' \in SUBSET Objects
    /\ place' \in [Objects -> 0 .. MaxPlace]
    /\ \A o \in Objects : place'[o] >= place[o]
    /\ UNCHANGED <<watching, screen>>

\* A client begins or ends to watch: what it saw before does not count.
Turn(c) ==
    /\ screen' \in [Clients -> [Objects -> 0 .. MaxPlace]]
    /\ \A d \in Clients \ {c} : screen'[d] = screen[d]
    /\ watching' = IF c \in watching THEN watching \ {c} ELSE watching \cup {c}
    /\ UNCHANGED <<objects, place>>

\* The screen of a watching client catches up, perhaps not all the way.
ShowMore(c) ==
    /\ c \in watching
    /\ screen' \in [Clients -> [Objects -> 0 .. MaxPlace]]
    /\ \A d \in Clients \ {c} : screen'[d] = screen[d]
    /\ \A o \in Objects :
          \/ screen'[c][o] >= screen[c][o] /\ screen'[c][o] <= place[o]
          \/ screen'[c][o] = 0 /\ o \notin objects
    /\ UNCHANGED <<objects, place, watching>>

\* A client that does not watch yet may already receive something.
ShowEarly(c) ==
    /\ c \notin watching
    /\ screen' \in [Clients -> [Objects -> 0 .. MaxPlace]]
    /\ \A d \in Clients \ {c} : screen'[d] = screen[d]
    /\ UNCHANGED <<objects, place, watching>>

Next ==
    \/ RoomChanges
    \/ \E c \in Clients : Turn(c) \/ ShowMore(c) \/ ShowEarly(c)

Spec == Init /\ [][Next]_vars

=============================================================================
