---------------------------- MODULE ClientSession ----------------------------
(***************************************************************************)
(* How the web client enters and leaves rooms: the flows started by its    *)
(* dialogs (client lib.rs, ui.rs), the WebSockets they open one after      *)
(* another, what the client keeps of a room (game.rs), and the game        *)
(* server's end of these connections (socket.rs, room/management.rs,       *)
(* room/clients.rs).  Of what a room tells its clients two kinds matter    *)
(* here: what is sent once, on joining (the room's info; initial claims    *)
(* are alike), and the state, which is sent again and again.               *)
(***************************************************************************)
EXTENDS Naturals, FiniteSets, Sequences

CONSTANTS Flows,    \* calls of new_room and join_room that may overlap
          Sockets,  \* WebSockets, each is opened once
          Rooms,    \* rooms with one object each, which has a mesh
          NoSocket, \* WEBSOCKET is None
          NoRoom,   \* a flow that has not begun
          MaxDown   \* bound: messages on their way to the client on a WebSocket

ASSUME NothingAssumption == NoSocket \notin Sockets /\ NoRoom \notin Rooms
ASSUME BoundAssumption == MaxDown \in Nat

VARIABLES
    flow,      \* where each flow is, and the room it is for
    inRoom,    \* in_room
    websocket, \* WEBSOCKET
    sock,      \* ready_state of each WebSocket; "lost" if closed by a failure
    holds,     \* room_state and state: what came over which WebSocket of which room
    models,    \* rooms whose object has a mesh in models
    loading,   \* rooms whose mesh is being loaded
    up,        \* messages to the server on each WebSocket
    down,      \* messages to the client on each WebSocket
    conns,     \* CLIENTS of the game server
    joined     \* WebSockets in the sockets of each room

clientVars == <<flow, inRoom, websocket>>
gameVars == <<holds, models, loading>>
serverVars == <<conns, joined>>
vars == <<clientVars, sock, gameVars, up, down, serverVars>>

-----------------------------------------------------------------------------
(* Messages.                                                               *)

JoinRoom(r) == [kind |-> "join", room |-> r]
CloseFrame == [kind |-> "close", room |-> NoRoom]

RoomInfo(r) == [kind |-> "info", room |-> r]
Update(r) == [kind |-> "state", room |-> r]
Hibernating(r) == [kind |-> "hibernating", room |-> r]

Idle == [pc |-> "idle", room |-> NoRoom]

Unused == {s \in Sockets : sock[s] = "new"}
Asking == {f \in Flows : flow[f].pc = "asking"}

\* Game::cleanup: everything but the meshes that are being loaded.
Cleanup == holds' = {} /\ models' = {}

-----------------------------------------------------------------------------
(* The flows: new_room and join_room, with connect.                        *)

\* The API server is asked for a room.  Bound: there is a WebSocket left.
Ask(f, r) ==
    /\ flow[f] = Idle
    /\ Cardinality(Unused) > Cardinality(Asking)
    /\ flow' = [flow EXCEPT ![f] = [pc |-> "asking", room |-> r]]
    /\ UNCHANGED <<inRoom, websocket, sock, gameVars, up, down, serverVars>>

Refused(f) ==
    /\ flow[f].pc = "asking"
    /\ flow' = [flow EXCEPT ![f] = Idle]
    /\ UNCHANGED <<inRoom, websocket, sock, gameVars, up, down, serverVars>>

\* A WebSocket that is closed: a close frame follows what has been sent, if the
\* connection was there.
Closing(s) ==
    /\ sock[s] = "open" => up' = [up EXCEPT ![s] = Append(@, CloseFrame)]
    /\ sock[s] # "open" => UNCHANGED up

\* (Variant: a session is replaced, but its WebSocket not closed.)
ConnectLeavesOpen(f, s) ==
    /\ flow[f].pc = "asking"
    /\ s \in Unused
    /\ IF inRoom THEN Cleanup ELSE UNCHANGED <<holds, models>>
    /\ sock' = [sock EXCEPT ![s] = "connecting"]
    /\ websocket' = s
    /\ flow' = [flow EXCEPT ![f].pc = "connecting"]
    /\ UNCHANGED <<inRoom, loading, up, down, serverVars>>

\* (Variant: a session is replaced, but its data not cleaned up.)
ConnectKeepsData(f, s) ==
    /\ flow[f].pc = "asking"
    /\ s \in Unused
    /\ IF inRoom
       THEN /\ Closing(websocket)
            /\ sock' = [sock EXCEPT ![s] = "connecting",
                            ![websocket] = IF @ \in {"open", "connecting"} THEN "closing" ELSE @]
       ELSE /\ sock' = [sock EXCEPT ![s] = "connecting"]
            /\ UNCHANGED up
    /\ websocket' = s
    /\ flow' = [flow EXCEPT ![f].pc = "connecting"]
    /\ UNCHANGED <<inRoom, gameVars, down, serverVars>>

\* An answer comes: a session the client is in is ended, then a WebSocket is
\* opened, all before the browser runs anything else.
Connect(f, s) ==
    /\ flow[f].pc = "asking"
    /\ s \in Unused
    /\ IF inRoom
       THEN /\ Cleanup
            /\ Closing(websocket)
            /\ sock' = [sock EXCEPT ![s] = "connecting",
                            ![websocket] = IF @ \in {"open", "connecting"} THEN "closing" ELSE @]
       ELSE /\ sock' = [sock EXCEPT ![s] = "connecting"]
            /\ UNCHANGED <<holds, models, up>>
    /\ websocket' = s
    /\ flow' = [flow EXCEPT ![f].pc = "connecting"]
    /\ UNCHANGED <<inRoom, loading, down, serverVars>>

\* (Variant: the client waits until it is connected.)
EnterWhenOpen(f) ==
    /\ flow[f].pc = "connecting"
    /\ sock[websocket] = "open"
    /\ up' = [up EXCEPT ![websocket] = Append(@, JoinRoom(flow[f].room))]
    /\ inRoom' = TRUE
    /\ flow' = [flow EXCEPT ![f] = Idle]
    /\ UNCHANGED <<websocket, sock, gameVars, down, serverVars>>

\* The current WebSocket is no longer connecting: whatever became of it, JoinRoom
\* is sent, which the browser discards if it is closing or closed.
Enter(f) ==
    /\ flow[f].pc = "connecting"
    /\ sock[websocket] # "connecting"
    /\ up' = IF sock[websocket] = "open"
             THEN [up EXCEPT ![websocket] = Append(@, JoinRoom(flow[f].room))] ELSE up
    /\ inRoom' = TRUE
    /\ flow' = [flow EXCEPT ![f] = Idle]
    /\ UNCHANGED <<websocket, sock, gameVars, down, serverVars>>

-----------------------------------------------------------------------------
(* The WebSockets as the browser and the network treat them.               *)

\* The close handler cleans up the game, whichever WebSocket it belongs to.
OnClose(s, how) ==
    /\ sock' = [sock EXCEPT ![s] = how]
    /\ down' = [down EXCEPT ![s] = <<>>]
    /\ Cleanup
    /\ UNCHANGED loading

Accept(s) ==
    /\ sock[s] = "connecting"
    /\ sock' = [sock EXCEPT ![s] = "open"]
    /\ conns' = conns \cup {s}
    /\ UNCHANGED <<clientVars, gameVars, up, down, joined>>

\* The server closes its end when it has read the close frame; a WebSocket that
\* was closed while connecting just fails.
CloseDone(s) ==
    /\ sock[s] = "closing"
    /\ s \notin conns
    /\ OnClose(s, "closed")
    /\ UNCHANGED <<clientVars, up, serverVars>>

\* The connection cannot be made, or breaks, and what was sent may be lost.
Fails(s) ==
    /\ sock[s] \in {"connecting", "open", "closing"}
    /\ OnClose(s, "lost")
    /\ up' \in {up, [up EXCEPT ![s] = <<>>]}
    /\ UNCHANGED <<clientVars, serverVars>>

-----------------------------------------------------------------------------
(* What the client does with messages.                                     *)

\* (Variant: states are ignored until the info of the room is known.)
ReceiveAfterInfo(s) ==
    /\ sock[s] = "open"
    /\ down[s] # <<>>
    /\ LET m == Head(down[s])
           known == m.kind = "info" \/ \E h \in holds : h.what = "info"
       IN  IF m.kind = "hibernating" THEN Cleanup /\ UNCHANGED loading
           ELSE /\ holds' = IF known THEN holds \cup {[what |-> m.kind, over |-> s, room |-> m.room]}
                            ELSE holds
                /\ loading' = IF m.kind = "state" /\ known THEN loading \cup {m.room} ELSE loading
                /\ UNCHANGED models
    /\ down' = [down EXCEPT ![s] = Tail(@)]
    /\ UNCHANGED <<clientVars, sock, up, serverVars>>

\* Nothing is delivered from a WebSocket that is not open.  Room info replaces
\* the last, a state is added to what there is, Hibernating cleans up.
Receive(s) ==
    /\ sock[s] = "open"
    /\ down[s] # <<>>
    /\ LET m == Head(down[s])
           kept == IF m.kind = "info" THEN {h \in holds : h.what # "info"} ELSE holds
       IN  IF m.kind = "hibernating" THEN Cleanup /\ UNCHANGED loading
           ELSE /\ holds' = kept \cup {[what |-> m.kind, over |-> s, room |-> m.room]}
                /\ loading' = IF m.kind = "state" /\ m.room \notin models
                              THEN loading \cup {m.room} ELSE loading
                /\ UNCHANGED models
    /\ down' = [down EXCEPT ![s] = Tail(@)]
    /\ UNCHANGED <<clientVars, sock, up, serverVars>>

\* A mesh arrives, also when the room has been left since.  Full states that
\* came before it did have begun other loads of it, which may go on.
MeshArrives(r) ==
    /\ r \in loading
    /\ loading' \in {loading, loading \ {r}}
    /\ models' = models \cup {r}
    /\ UNCHANGED <<clientVars, sock, holds, up, down, serverVars>>

\* It could not be loaded: the next full state tries again.
MeshFails(r) ==
    /\ r \in loading
    /\ loading' = loading \ {r}
    /\ UNCHANGED <<clientVars, sock, holds, models, up, down, serverVars>>

-----------------------------------------------------------------------------
(* The game server's end.                                                  *)

\* ws_rx reads the next message of a client: it lets the client into the room,
\* and greets it, or refuses it; or it forgets the client.
Reads(s) ==
    /\ s \in conns
    /\ up[s] # <<>>
    /\ sock[s] = "open" => Len(down[s]) + 2 <= MaxDown
    /\ up' = [up EXCEPT ![s] = Tail(@)]
    /\ LET m == Head(up[s])
       IN  \/ /\ m.kind = "join"
              /\ joined' = [joined EXCEPT ![m.room] = @ \cup {s}]
              /\ down' = IF sock[s] = "open"
                         THEN [down EXCEPT ![s] = @ \o <<RoomInfo(m.room), Update(m.room)>>]
                         ELSE down
              /\ UNCHANGED conns
           \/ m.kind = "join" /\ UNCHANGED <<down, serverVars>>
           \/ m.kind = "close" /\ conns' = conns \ {s} /\ UNCHANGED <<down, joined>>
    /\ UNCHANGED <<clientVars, sock, gameVars>>

\* Messages to all clients of a room; those in CLIENTS get them, and those whose
\* WebSocket is open will see them.
Listeners(r) == {s \in joined[r] \cap conns : sock[s] = "open"}

Tell(r, m) ==
    /\ \A s \in Listeners(r) : Len(down[s]) < MaxDown
    /\ down' = [s \in Sockets |-> IF s \in Listeners(r) THEN Append(down[s], m) ELSE down[s]]

SendsState(r) ==
    /\ joined[r] # {}
    /\ Tell(r, Update(r))
    /\ UNCHANGED <<clientVars, sock, gameVars, up, serverVars>>

\* The room times out.
Kicks(r) ==
    /\ joined[r] # {}
    /\ Tell(r, Hibernating(r))
    /\ joined' = [joined EXCEPT ![r] = {}]
    /\ UNCHANGED <<clientVars, sock, gameVars, up, conns>>

\* (Variant: only a room whose clients have all gone notices.)
PrunesWhenAlone(r) ==
    /\ joined[r] # {}
    /\ joined[r] \cap conns = {}
    /\ joined' = [joined EXCEPT ![r] = @ \cap conns]
    /\ UNCHANGED <<clientVars, sock, gameVars, up, down, conns>>

\* The room forgets clients that are no longer in CLIENTS.
Prunes(r) ==
    /\ joined[r] \ conns # {}
    /\ joined' = [joined EXCEPT ![r] = @ \cap conns]
    /\ UNCHANGED <<clientVars, sock, gameVars, up, down, conns>>

-----------------------------------------------------------------------------

Init ==
    /\ flow = [f \in Flows |-> Idle]
    /\ inRoom = FALSE
    /\ websocket = NoSocket
    /\ sock = [s \in Sockets |-> "new"]
    /\ holds = {} /\ models = {} /\ loading = {}
    /\ up = [s \in Sockets |-> <<>>]
    /\ down = [s \in Sockets |-> <<>>]
    /\ conns = {}
    /\ joined = [r \in Rooms |-> {}]

Flowing(f) == Refused(f) \/ Enter(f) \/ \E s \in Sockets : Connect(f, s)

Next ==
    \/ \E f \in Flows : Flowing(f) \/ \E r \in Rooms : Ask(f, r)
    \/ \E s \in Sockets : Accept(s) \/ CloseDone(s) \/ Fails(s) \/ Receive(s) \/ Reads(s)
    \/ \E r \in Rooms : MeshArrives(r) \/ MeshFails(r) \/ SendsState(r) \/ Kicks(r) \/ Prunes(r)

Spec == Init /\ [][Next]_vars

\* Requests are answered, flows poll, WebSockets open, close or fail, the client
\* and ws_rx read, meshes arrive or fail, but not for ever those that are loaded again
\* and again, the room task sends states (a full one at least every minute,
\* whenever the queues let it) and prunes.  Nobody has to enter a room, and no
\* room has to time out.
Fairness ==
    /\ \A f \in Flows : WF_vars(Flowing(f))
    /\ \A s \in Sockets :
        /\ WF_vars(sock[s] = "connecting" /\ (Accept(s) \/ Fails(s))) /\ WF_vars(CloseDone(s))
        /\ WF_vars(Receive(s)) /\ WF_vars(Reads(s))
    /\ \A r \in Rooms :
        /\ WF_vars(MeshArrives(r) \/ MeshFails(r)) /\ SF_vars(MeshArrives(r))
        /\ SF_vars(SendsState(r)) /\ WF_vars(Prunes(r))

FairSpec == Spec /\ Fairness

-----------------------------------------------------------------------------
(* Properties.                                                             *)

\* The values the variables take; WEBSOCKET is set as soon as there is one, and
\* a flow that connects has set it.
TypeOK ==
    /\ flow \in [Flows -> [pc : {"idle", "asking", "connecting"}, room : Rooms \cup {NoRoom}]]
    /\ inRoom \in BOOLEAN
    /\ websocket \in IF Unused = Sockets THEN {NoSocket} ELSE Sockets \ Unused
    /\ sock \in [Sockets -> {"new", "connecting", "open", "closing", "closed", "lost"}]
    /\ holds \subseteq [what : {"info", "state"}, over : Sockets, room : Rooms]
    /\ models \subseteq Rooms /\ loading \subseteq Rooms
    /\ up \in [Sockets -> Seq({JoinRoom(r) : r \in Rooms} \cup {CloseFrame})]
    /\ down \in [Sockets -> Seq([kind : {"info", "state", "hibernating"}, room : Rooms])]
    /\ conns \subseteq Sockets \ Unused
    /\ joined \in [Rooms -> SUBSET (Sockets \ Unused)]

\* What the client keeps of rooms came over its current WebSocket, whichever
\* flows overlap and however late the old WebSocket closes.
HoldsOnlyCurrent == \A h \in holds : h.over = websocket

\* A flow that is under way knows its room, and has a WebSocket to wait for.
FlowsKnow ==
    /\ \A f \in Flows : flow[f].pc # "idle" => flow[f].room \in Rooms
    /\ inRoom \/ (\E f \in Flows : flow[f].pc = "connecting") => websocket # NoSocket

\* Overlapping flows may leave a WebSocket open that nobody will close, but no
\* room ever has it among its clients: JoinRoom goes over the current one, and
\* is sent in the same turn that notes that the client is in a room.
Joins(s) == \E n \in DOMAIN up[s] : up[s][n].kind = "join"

Silent(s) == ~Joins(s) /\ down[s] = <<>> /\ \A r \in Rooms : s \notin joined[r]

MustBeSilent(s) ==
    \/ ~inRoom
    \/ sock[s] \in {"new", "connecting"}
    \/ sock[s] = "open" /\ s # websocket

SilentUntilCurrent ==
    /\ ~inRoom => holds = {}
    /\ \A s \in Sockets : MustBeSilent(s) => Silent(s)

\* All of that, which no step breaks.
SessionInv == TypeOK /\ FlowsKnow /\ SilentUntilCurrent /\ HoldsOnlyCurrent

\* A client that stays in a room ends up showing it, whatever was cleaned up by
\* the late end of an earlier WebSocket or of another room.
Stays(s, r) == websocket = s /\ sock[s] = "open" /\ s \in conns \cap joined[r]
Shows(s, r) == [what |-> "state", over |-> s, room |-> r] \in holds /\ r \in models

ShowsRoom == \A s \in Sockets, r \in Rooms : <>[]Stays(s, r) => <>[]Shows(s, r)

\* A WebSocket that the client closes to enter another room leaves its rooms for
\* good, unless the connection breaks before the close frame is read.
SwitchingLeaves ==
    \A s \in Sockets :
        sock[s] = "closing" ~> (sock[s] = "lost" \/ [](\A r \in Rooms : s \notin joined[r]))

\* Every flow ends, also when the connection fails or another flow replaces it.
FlowsEnd == \A f \in Flows : flow[f].pc # "idle" ~> flow[f].pc = "idle"

=============================================================================
