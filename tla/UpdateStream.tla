---------------------------- MODULE UpdateStream ----------------------------
(***************************************************************************)
(* How the state of a room reaches the screens of its clients.             *)
(*                                                                         *)
(* The room task marks objects that moved as updated and sends incremental *)
(* or full states (room.rs, room/clients.rs); ws_rx sends a joining client *)
(* its first state (room/management.rs); ws_tx drains the queue of each    *)
(* client, keeping only the newest incremental state (socket.rs); the web  *)
(* client applies what arrives to its meshes and states (client lib.rs,    *)
(* game.rs).  Names are never used twice (see EntityWorld), and the places *)
(* of an object are numbered in the order it takes them.                   *)
(***************************************************************************)
EXTENDS Naturals, FiniteSets, SequencesExt

CONSTANTS Objects,   \* names of objects
          Clients,   \* connections, each joins the room at most once
          NoClient,  \* nobody is joining
          MaxPlace,  \* bound: the number of places of an object
          MaxQueue   \* bound: messages in the queue of a client

ASSUME BoundsAssumption == MaxPlace \in Nat \ {0} /\ MaxQueue \in Nat
ASSUME NoClientAssumption == NoClient \notin Clients

VARIABLES
    objects,      \* keys of room.objects
    named,        \* history: names that objects of this room have had
    look,         \* visual_info of each object: "shape", "mesh" or "none"
    place,        \* transform of each object
    updated,      \* objects whose updated flag is set
    fullDue,      \* the last full state is 60 s old, or was reset to 0
    hibernating,  \* metadata.hibernating
    kicking,      \* the room has told its clients to leave, sockets not yet cleared
    sockets,      \* clients in clients_manager.sockets
    joiner,       \* the client that ws_rx is letting in
    joinPC,       \* where that join is
    snapshot,     \* the state collected for it
    rx1,          \* queue of each client, read by ws_tx
    client,       \* each client's meshes, those being loaded and newest states
    told,         \* history: objects in the room when or after a client joined
    lossy         \* history: clients whose WebSocket has refused a message

roomVars == <<objects, named, look, place, updated, fullDue>>
joinVars == <<joiner, joinPC, snapshot>>
historyVars == <<told, lossy>>
vars == <<roomVars, hibernating, kicking, sockets, joinVars, rx1, client, historyVars>>

-----------------------------------------------------------------------------
(* Messages.                                                               *)

States == UNION {[S -> 1 .. MaxPlace] : S \in SUBSET Objects}
FullState(data) == [kind |-> "full", data |-> data]
FirstState(data) == [kind |-> "first", data |-> data]
Incremental(data) == [kind |-> "incremental", data |-> data]
RemoveObject(o) == [kind |-> "remove", object |-> o]
RemoveAllObjects == [kind |-> "removeAll"]
Hibernating == [kind |-> "hibernating"]

Messages ==
    [kind : {"full", "first", "incremental"}, data : States]
    \cup [kind : {"remove"}, object : Objects]
    \cup {RemoveAllObjects, Hibernating}

\* What a client has, and one that has nothing yet.
Screen == [models : SUBSET Objects, loading : SUBSET Objects,
           state : [Objects -> 0 .. MaxPlace], greeted : BOOLEAN, panicked : BOOLEAN]
NoScreen == [models |-> {}, loading |-> {}, state |-> [o \in Objects |-> 0],
             greeted |-> FALSE, panicked |-> FALSE]

\* What a full state holds.
WholeRoom == [o \in objects |-> place[o]]

Broadcast(m) == rx1' = [c \in Clients |-> IF c \in sockets THEN Append(rx1[c], m) ELSE rx1[c]]

\* Bound: nothing is sent while a queue is full.
RoomInQueues == \A c \in sockets : Len(rx1[c]) < MaxQueue

-----------------------------------------------------------------------------
(* The room task.                                                          *)

\* An entity is added, which asks for a full state.
AddObject(o) ==
    /\ o \notin named
    /\ objects' = objects \cup {o}
    /\ named' = named \cup {o}
    /\ place' = [place EXCEPT ![o] = 1]
    /\ updated' = updated \cup {o}
    /\ fullDue' = TRUE
    /\ UNCHANGED look
    /\ told' = [c \in Clients |-> IF c \in sockets /\ c # joiner THEN told[c] \cup {o} ELSE told[c]]
    /\ UNCHANGED <<hibernating, kicking, sockets, joinVars, rx1, client, lossy>>

RemoveEntity(o) ==
    /\ o \in objects
    /\ RoomInQueues
    /\ objects' = objects \ {o}
    /\ updated' = updated \ {o}
    /\ Broadcast(RemoveObject(o))
    /\ UNCHANGED <<named, look, place, fullDue, hibernating, kicking, sockets, joinVars, client, historyVars>>

RemoveAll ==
    /\ RoomInQueues
    /\ objects' = {}
    /\ updated' = {}
    /\ Broadcast(RemoveAllObjects)
    /\ UNCHANGED <<named, look, place, fullDue, hibernating, kicking, sockets, joinVars, client, historyVars>>

\* Objects that moved in this tick are marked.
Moves(moved) ==
    /\ \A o \in moved : place[o] < MaxPlace
    /\ place' = [o \in Objects |-> IF o \in moved THEN place[o] + 1 ELSE place[o]]

\* A state was sent to everybody; flags are cleared.
SentTo(m) ==
    /\ RoomInQueues
    /\ Broadcast(m)
    /\ updated' = {}

\* One update of an awake room: objects move, then a full state when it is
\* due, else an incremental one when the last is 120 ms old.
Tick(moved) ==
    /\ ~hibernating
    /\ Moves(moved)
    /\ \/ /\ fullDue
          /\ SentTo(FullState([o \in objects |-> place'[o]]))
          /\ fullDue' = FALSE
       \/ /\ ~fullDue
          /\ SentTo(Incremental([o \in objects \cap (updated \cup moved) |-> place'[o]]))
          /\ UNCHANGED fullDue
       \/ /\ ~fullDue
          /\ updated' = updated \cup moved
          /\ UNCHANGED <<rx1, fullDue>>
    /\ UNCHANGED <<objects, named, look, hibernating, kicking, sockets, joinVars, client, historyVars>>

MinutePasses ==
    /\ fullDue' = TRUE
    /\ UNCHANGED <<objects, named, look, place, updated, hibernating, kicking, sockets, joinVars, rx1, client, historyVars>>

\* The room times out and tells everybody to leave.
Kick ==
    /\ ~hibernating
    /\ RoomInQueues
    /\ hibernating' = TRUE
    /\ kicking' = TRUE
    /\ Broadcast(Hibernating)
    /\ UNCHANGED <<roomVars, sockets, joinVars, client, historyVars>>

\* It clears sockets, of those who came meanwhile too.
ClearSockets ==
    /\ kicking
    /\ kicking' = FALSE
    /\ sockets' = {}
    /\ UNCHANGED <<roomVars, hibernating, joinVars, rx1, client, historyVars>>

\* The end of a tick: the room sleeps when empty and wakes when not.
CheckHibernation ==
    /\ ~kicking
    /\ hibernating' = (sockets = {})
    /\ hibernating' # hibernating
    /\ UNCHANGED <<roomVars, kicking, sockets, joinVars, rx1, client, historyVars>>

-----------------------------------------------------------------------------
(* A join, run by ws_rx next to the room task.                             *)

Enter(c) ==
    /\ joinPC = "idle"
    /\ client[c] = NoScreen /\ rx1[c] = <<>> /\ told[c] = {}
    /\ c \notin sockets
    /\ joiner' = c
    /\ joinPC' = "collect"
    /\ sockets' = sockets \cup {c}
    /\ UNCHANGED <<roomVars, hibernating, kicking, snapshot, rx1, client, historyVars>>

Collect ==
    /\ joinPC = "collect"
    /\ snapshot' = WholeRoom
    /\ joinPC' = "send"
    /\ UNCHANGED <<roomVars, hibernating, kicking, sockets, joiner, rx1, client, historyVars>>

Greet ==
    /\ joinPC = "send"
    /\ Len(rx1[joiner]) < MaxQueue
    /\ rx1' = [rx1 EXCEPT ![joiner] = Append(@, FirstState(snapshot))]
    /\ told' = [told EXCEPT ![joiner] = objects]
    /\ joinPC' = "idle"
    /\ joiner' = NoClient
    /\ snapshot' = <<>>
    /\ UNCHANGED <<roomVars, hibernating, kicking, sockets, client, lossy>>

-----------------------------------------------------------------------------
(* The web client: what a message does to it.                              *)

IsIncremental(m) == m.kind = "incremental"
IsState(m) == m.kind \in {"full", "first", "incremental"}

\* Update: what has no mesh gets one when the state tells its looks.
TakeState(screen, m) ==
    LET new == IF IsIncremental(m) THEN {} ELSE DOMAIN m.data \ screen.models
    IN  [models |-> screen.models \cup {o \in new : look[o] = "shape"},
         loading |-> screen.loading \cup {o \in new : look[o] = "mesh"},
         state |-> [o \in Objects |-> IF o \in DOMAIN m.data THEN m.data[o] ELSE screen.state[o]],
         greeted |-> screen.greeted \/ m.kind = "first",
         panicked |-> screen.panicked]

\* RemoveObject, or RemoveAll, which forgets only what has a mesh.  The task that
\* loads a mesh borrows the game until it has it: a removal handled meanwhile
\* cannot borrow it mutably, and panics before anything is removed.
Forget(screen, gone) ==
    IF screen.loading # {} THEN [screen EXCEPT !.panicked = TRUE]
    ELSE [screen EXCEPT !.models = @ \ gone,
                        !.state = [o \in Objects |-> IF o \in gone THEN 0 ELSE @[o]]]

\* Hibernating clears everything, but not the meshes being loaded.
Cleanup(screen) == [NoScreen EXCEPT !.loading = screen.loading, !.panicked = screen.panicked]

Handle(screen, m) ==
    CASE m.kind = "remove" -> Forget(screen, {m.object})
      [] m.kind = "removeAll" -> Forget(screen, screen.models)
      [] m.kind = "hibernating" -> Cleanup(screen)
      [] OTHER -> TakeState(screen, m)

\* A mesh has been loaded, whatever happened to its object meanwhile.  Full
\* states that came before it was have each begun another load of it, which go
\* on.  (They are not counted: there may always be one more.)
MeshLoaded(c, o) ==
    /\ o \in client[c].loading
    /\ \E left \in {client[c].loading, client[c].loading \ {o}} :
          client' = [client EXCEPT ![c].loading = left, ![c].models = @ \cup {o}]
    /\ UNCHANGED <<roomVars, hibernating, kicking, sockets, joinVars, rx1, historyVars>>

\* The only load of it still under way has failed.
MeshFails(c, o) ==
    /\ o \in client[c].loading
    /\ client' = [client EXCEPT ![c].loading = @ \ {o}]
    /\ UNCHANGED <<roomVars, hibernating, kicking, sockets, joinVars, rx1, historyVars>>

-----------------------------------------------------------------------------
(* ws_tx, and the client handling what it is sent.                         *)

\* (Variant: ws_tx sends only the newest message of any kind.)
KeptNewest(queue) == {Len(queue)}

\* (Variant: any newer state takes the place of an older one, full or not.)
KeptNewestState(queue) ==
    {i \in DOMAIN queue :
        IsState(queue[i]) => \A j \in DOMAIN queue : j > i => ~IsState(queue[j])}

\* The positions of the messages that ws_tx keeps: an incremental state takes
\* the place of the one before it, so that only the newest is sent.
Kept(queue) ==
    {i \in DOMAIN queue :
        IsIncremental(queue[i]) => \A j \in DOMAIN queue : j > i => ~IsIncremental(queue[j])}

\* The screen after some messages of a queue were handled, one after the other.
HandleAll(screen, queue, positions) ==
    LET after[n \in 0 .. Len(queue)] ==
            IF n = 0 THEN screen
            ELSE IF n \in positions THEN Handle(after[n - 1], queue[n])
            ELSE after[n - 1]
    IN  after[Len(queue)]

\* (Variant: refused messages are tried again later.)
TransmitRetries(c, fed) ==
    /\ rx1[c] # <<>>
    /\ fed \subseteq Kept(rx1[c])
    /\ \E again \in {SetToSortSeq(Kept(rx1[c]) \ fed, <)} :
          rx1' = [rx1 EXCEPT ![c] = [n \in DOMAIN again |-> @[again[n]]]]
    /\ client' = [client EXCEPT ![c] = HandleAll(@, rx1[c], fed)]
    /\ UNCHANGED <<roomVars, hibernating, kicking, sockets, joinVars, historyVars>>

\* The whole queue is drained.  A message that the WebSocket is not ready for is
\* dropped: it takes those at the positions `fed`.  The client handles them in
\* their order; their delay on the network is that of the queue.
Transmit(c, fed) ==
    /\ rx1[c] # <<>>
    /\ fed \subseteq Kept(rx1[c])
    /\ rx1' = [rx1 EXCEPT ![c] = <<>>]
    /\ client' = [client EXCEPT ![c] = HandleAll(@, rx1[c], fed)]
    /\ lossy' = IF fed = Kept(rx1[c]) THEN lossy ELSE lossy \cup {c}
    /\ UNCHANGED <<roomVars, hibernating, kicking, sockets, joinVars, told>>

-----------------------------------------------------------------------------

Init ==
    /\ objects \in SUBSET Objects
    /\ named = objects
    /\ look \in [Objects -> {"shape", "mesh", "none"}]
    /\ place = [o \in Objects |-> IF o \in objects THEN 1 ELSE 0]
    /\ updated = objects
    /\ fullDue = TRUE
    /\ hibernating = FALSE /\ kicking = FALSE
    /\ sockets = {}
    /\ joiner = NoClient
    /\ joinPC = "idle"
    /\ snapshot = <<>>
    /\ rx1 = [c \in Clients |-> <<>>]
    /\ client = [c \in Clients |-> NoScreen]
    /\ told = [c \in Clients |-> {}]
    /\ lossy = {}

RoomStep ==
    \/ \E o \in Objects : AddObject(o) \/ RemoveEntity(o)
    \/ RemoveAll
    \/ \E moved \in SUBSET objects : Tick(moved)
    \/ Kick \/ ClearSockets
    \/ CheckHibernation

JoinStep == Collect \/ Greet

ClientStep(c) == \E o \in Objects : MeshLoaded(c, o) \/ MeshFails(c, o)

Next ==
    \/ RoomStep
    \/ MinutePasses
    \/ JoinStep
    \/ \E c \in Clients : Enter(c) \/ ClientStep(c)
    \/ \E c \in Clients : \E fed \in SUBSET (1 .. MaxQueue) : Transmit(c, fed)

Spec == Init /\ [][Next]_vars

\* The room task runs every 1/60 s, time passes, a join that has begun is
\* finished, browsers handle what arrives.  A WebSocket may refuse messages, but
\* not every full state for ever; a mesh that is loaded again and again arrives.
HasFull(q) == \E i \in DOMAIN q : q[i].kind \in {"full", "first"}

Fairness ==
    /\ WF_vars(\E moved \in SUBSET objects : Tick(moved))
    /\ WF_vars(ClearSockets) /\ WF_vars(CheckHibernation)
    /\ WF_vars(MinutePasses)
    /\ WF_vars(JoinStep)
    /\ \A c \in Clients :
        /\ WF_vars(\E fed \in SUBSET (1 .. MaxQueue) : Transmit(c, fed))
        /\ SF_vars(HasFull(rx1[c]) /\ \E fed \in {Kept(rx1[c])} : Transmit(c, fed))
        /\ \A o \in Objects : SF_vars(MeshLoaded(c, o)) /\ WF_vars(MeshLoaded(c, o) \/ MeshFails(c, o))

FairSpec == Spec /\ Fairness

-----------------------------------------------------------------------------
(* Properties.                                                             *)

\* The values the variables take.
TypeOK ==
    /\ objects \subseteq named /\ named \subseteq Objects
    /\ look \in [Objects -> {"shape", "mesh", "none"}]
    /\ place \in [Objects -> 0 .. MaxPlace]
    /\ updated \subseteq objects
    /\ fullDue \in BOOLEAN /\ hibernating \in BOOLEAN /\ kicking \in BOOLEAN
    /\ sockets \subseteq Clients
    /\ joinPC \in {"idle", "collect", "send"}
    /\ joiner \in IF joinPC = "idle" THEN {NoClient} ELSE Clients
    /\ snapshot \in States
    /\ rx1 \in [Clients -> Seq(Messages)]
    /\ client \in [Clients -> Screen]
    /\ lossy \subseteq Clients
    /\ told \in [Clients -> SUBSET Objects]

\* What a client knows of the room is of the past, but only moves forward:
\* neither the coalescing of ws_tx, nor a socket that refuses messages, nor full
\* and incremental states overtaking each other take an object back to a place
\* it has left, once the client has its first state.
Greeted == {c \in Clients : client[c].greeted}

View == INSTANCE RoomView WITH watching <- Greeted, screen <- [c \in Clients |-> client[c].state]

ShowsThePast == View!Spec

\* An object that a client was told of and that left the room has no mesh on
\* its screen, or its removal is still on the way, unless a message was refused
\* or the handler of one has panicked.  Meshes loaded from a file are excepted:
\* they may arrive after the removal.
Removes(m, o) == m.kind \in {"removeAll", "hibernating"} \/ (m.kind = "remove" /\ m.object = o)

RemovedLeaveScreen ==
    \A c \in sockets \ lossy : \A o \in told[c] \ objects :
        look[o] = "shape" /\ o \in client[c].models /\ ~client[c].panicked
            => \E i \in DOMAIN rx1[c] : Removes(rx1[c][i], o)

\* What a client draws once it has caught up with an object.
Drawn(c, o) ==
    /\ client[c].state[o] = place[o]
    /\ look[o] # "none" => o \in client[c].models

\* As long as a client is in the room and an object stays, the client ends up
\* drawing it, and where it is, whatever was coalesced or refused before.
ClientsCatchUp ==
    \A c \in Clients, o \in Objects :
        <>[](c \in sockets /\ o \in objects) => <>[]Drawn(c, o)

-----------------------------------------------------------------------------
(* What makes the safety properties inductive.                             *)

\* A state tells of an object.
Mentions(m, o) == IsState(m) /\ o \in DOMAIN m.data

\* Objects have a place once they have been in the room.
PlaceInv == \A o \in Objects : (o \notin named => place[o] = 0) /\ (o \in objects => place[o] >= 1)

\* What is sent, being sent or shown has been in the room, and been there; only
\* meshes are loaded.
PastOf(data) == \A o \in DOMAIN data : o \in named /\ data[o] <= place[o]

QueuePast(q) == \A i \in DOMAIN q : IsState(q[i]) => PastOf(q[i].data)

ScreenPast(scr) ==
    /\ scr.models \cup scr.loading \subseteq named
    /\ \A o \in scr.loading : look[o] = "mesh"
    /\ \A o \in Objects : scr.state[o] <= place[o]

PastInv ==
    /\ PastOf(snapshot)
    /\ \A c \in Clients : QueuePast(rx1[c]) /\ ScreenPast(client[c])

\* The first state is sent once, and only to a client that has none.
JoinInv ==
    \A c \in Clients :
        /\ client[c].greeted => joiner # c
        /\ client[c].greeted \/ joiner = c => \A i \in DOMAIN rx1[c] : rx1[c][i].kind # "first"

\* To a client that has its first state, nothing is sent that is older than what
\* it shows.
QueueAfter(q, state) ==
    \A i \in DOMAIN q : IsState(q[i]) => \A o \in DOMAIN q[i].data : state[o] <= q[i].data[o]

OrderInv == \A c \in Clients : client[c].greeted => QueueAfter(rx1[c], client[c].state)

\* What is removed is not in the room: what came to the room later is neither
\* shown nor sent before a RemoveAll.
QueueRemoves(q, scr) ==
    \A i \in DOMAIN q :
        /\ q[i].kind = "remove" => q[i].object \in named \ objects
        /\ q[i].kind = "removeAll" =>
             \A o \in objects : /\ o \notin scr.models \cup scr.loading
                                /\ \A j \in 1 .. i : ~Mentions(q[j], o)

RemovalInv == \A c \in Clients : QueueRemoves(rx1[c], client[c])

\* What waits for a client about an object is in the order of its places, from the
\* one it shows, if it has its first state, to the one it is in; only the first
\* state itself may be older than what is sent before it.  Handling the queue is
\* one step of the model; so not only its last screen, but each one on the way is
\* no older than the one before, whichever messages are left out.
SentInOrder ==
    \A c \in Clients : \A i \in DOMAIN rx1[c] : \A o \in Objects : Mentions(rx1[c][i], o) =>
        /\ client[c].greeted => client[c].state[o] <= rx1[c][i].data[o]
        /\ rx1[c][i].data[o] <= place[o]
        /\ \A j \in DOMAIN rx1[c] : j > i /\ Mentions(rx1[c][j], o) /\ rx1[c][j].kind # "first" =>
              rx1[c][i].data[o] <= rx1[c][j].data[o]

\* The invariant that the properties rest on.  What clients show and what waits
\* for them is of the past of the room (PastInv); the first state is sent once
\* (JoinInv); nothing waits that is older than what is shown, nor behind newer
\* places of the same object (OrderInv, SentInOrder); and a removal waits only
\* for what is gone (RemovalInv): whatever joins, removals and kicks meet states
\* that are sent, coalesced and refused.
StreamInv ==
    /\ TypeOK
    /\ PlaceInv /\ PastInv /\ JoinInv /\ OrderInv /\ RemovalInv /\ SentInOrder

=============================================================================
