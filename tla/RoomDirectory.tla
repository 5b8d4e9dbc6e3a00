--------------------------- MODULE RoomDirectory ---------------------------
(***************************************************************************)
(* The directory kept by roboscapesim-api: the game servers that announced *)
(* themselves (SERVERS), the rooms they reported (ROOMS), the choice of a  *)
(* server for a new room, and the task that forgets silent servers.        *)
(*                                                                         *)
(* Handlers of the API run concurrently on shared maps; announcements and  *)
(* room reports are HTTP requests that may be lost, delayed, reordered, or *)
(* handled after their sender gave up on them.  A game server may crash    *)
(* and restart under the same addresses, without its rooms.                *)
(***************************************************************************)
EXTENDS Naturals, FiniteSets

CONSTANTS
    Servers,   \* game servers (machines)
    RoomIds,   \* ids generate_room_id can return
    Requests,  \* callers of POST /rooms/create, each with one call at a time
    NoRoom,    \* no entry in ROOMS
    NoAddress, \* no server chosen
    MaxWire    \* bound on the requests on their way to the API

\* A server has two addresses: get_local_api_server, under which it
\* announces itself, and get_server, which its rooms report.
Http(s) == <<"http", s>>
Ws(s) == <<"ws", s>>
Address == {"http", "ws"} \X Servers

Listing == [server : Address, asleep : BOOLEAN]
Announcements == [type : {"announce"}, server : Servers, empty : BOOLEAN]
Reports == [type : {"room"}, id : RoomIds, info : Listing]

ASSUME ListingAssumption == NoRoom \notin Listing
ASSUME AddressAssumption == NoAddress \notin Address
ASSUME WireAssumption == MaxWire \in Nat

VARIABLES
    \* The game servers
    up,        \* the process runs
    greeted,   \* it has sent the announcement of its start
    hosted,    \* its rooms: Servers -> RoomIds -> "none" | "awake" | "asleep"
    wire,      \* announcements and room reports on their way to the API
    orders,    \* POST /rooms/create calls no server has answered yet
    \* The API
    servers,   \* SERVERS: Address -> "absent" | "fresh" | "stale" (> 360 s)
    listed,    \* ROOMS: RoomIds -> Listing or NoRoom
    call,      \* Requests -> [pc, counted, target] of post_create
    \* Its cleanup task
    cleanPC,   \* where it is
    suspects,  \* servers_to_remove not checked yet
    suspect    \* the server being removed

gameVars  == <<up, greeted, hosted, orders>>
cleanVars == <<cleanPC, suspects, suspect>>
vars == <<gameVars, wire, servers, listed, call, cleanVars>>

Calls == [pc : {"idle", "picking", "sent", "answered"},
          counted : SUBSET Address, target : Address \cup {NoAddress}]
Idle == [pc |-> "idle", counted |-> {}, target |-> NoAddress]

Init ==
    /\ up = [s \in Servers |-> FALSE]
    /\ greeted = [s \in Servers |-> FALSE]
    /\ hosted = [s \in Servers |-> [r \in RoomIds |-> "none"]]
    /\ wire = {} /\ orders = {}
    /\ servers = [a \in Address |-> "absent"]
    /\ listed = [r \in RoomIds |-> NoRoom]
    /\ call = [q \in Requests |-> Idle]
    /\ cleanPC = "sleep" /\ suspects = {} /\ suspect = NoAddress

Send(m) ==
    /\ Cardinality(wire \cup {m}) <= MaxWire
    /\ wire' = wire \cup {m}

-----------------------------------------------------------------------------
(* The game servers.                                                       *)

Start(s) ==
    /\ ~up[s]
    /\ up' = [up EXCEPT ![s] = TRUE]
    /\ UNCHANGED <<greeted, hosted, orders, wire, servers, listed, call, cleanVars>>

\* The process ends, and its rooms and connections with it.
Crash(s) ==
    /\ up[s]
    /\ up' = [up EXCEPT ![s] = FALSE]
    /\ greeted' = [greeted EXCEPT ![s] = FALSE]
    /\ hosted' = [hosted EXCEPT ![s] = [r \in RoomIds |-> "none"]]
    /\ orders' = {o \in orders : o[2] # s}
    /\ UNCHANGED <<wire, servers, listed, call, cleanVars>>

\* The announce loop goes on for ever.      (Variant: one announcement only.)
OnceOnly(s) == up[s] /\ ~greeted[s]
MayAnnounce(s) == up[s]

\* announce_api: the first announcement claims no rooms, the later ones, every
\* five minutes, count those in the server's ROOMS.
Announce(s) ==
    /\ MayAnnounce(s)
    /\ Send([type |-> "announce", server |-> s,
             empty |-> ~greeted[s] \/ \A r \in RoomIds : hosted[s][r] = "none"])
    /\ greeted' = [greeted EXCEPT ![s] = TRUE]
    /\ UNCHANGED <<up, hosted, orders, servers, listed, call, cleanVars>>

Report(s, r, asleep) ==
    [type |-> "room", id |-> r, info |-> [server |-> Ws(s), asleep |-> asleep]]

\* RoomData::announce is called on every tick, asleep or awake, and on every
\* join.      (Variant: a sleeping room does not.)
SleepersSilent(s, r) == hosted[s][r] = "awake"
MayReport(s, r) == hosted[s][r] # "none"

AnnounceRoom(s, r) ==
    /\ MayReport(s, r)
    /\ Send(Report(s, r, hosted[s][r] = "asleep"))
    /\ UNCHANGED <<gameVars, servers, listed, call, cleanVars>>

\* A room falls asleep or wakes.
Hibernate(s, r) ==
    /\ hosted[s][r] # "none"
    /\ hosted' = [hosted EXCEPT ![s][r] = IF @ = "awake" THEN "asleep" ELSE "awake"]
    /\ UNCHANGED <<up, greeted, orders, wire, servers, listed, call, cleanVars>>

\* cleanup_dead_rooms: nobody is told.
Expire(s, r) ==
    /\ hosted[s][r] # "none"
    /\ hosted' = [hosted EXCEPT ![s][r] = "none"]
    /\ UNCHANGED <<up, greeted, orders, wire, servers, listed, call, cleanVars>>

\* The server's post_create: a room under a random id, replacing one that has
\* it, and its forced announcement; the answer is in time or too late.
CreateRoom(s, q, r) ==
    /\ up[s] /\ <<q, s>> \in orders
    /\ orders' = orders \ {<<q, s>>}
    /\ hosted' = [hosted EXCEPT ![s][r] = "awake"]
    /\ Send(Report(s, r, FALSE))
    /\ call' = IF call[q].pc = "sent" /\ call[q].target = Http(s)
               THEN [call EXCEPT ![q].pc = "answered"] ELSE call
    /\ UNCHANGED <<up, greeted, servers, listed, cleanVars>>

-----------------------------------------------------------------------------
(* What the network does.                                                  *)

Lose(m) ==
    /\ m \in wire
    /\ wire' = wire \ {m}
    /\ UNCHANGED <<gameVars, servers, listed, call, cleanVars>>

LoseOrder(o) ==
    /\ o \in orders
    /\ orders' = orders \ {o}
    /\ UNCHANGED <<up, greeted, hosted, wire, servers, listed, call, cleanVars>>

-----------------------------------------------------------------------------
(* The handlers of the API.                                                *)

\* ROOMS.retain(|room| room.server != address)
Without(a) ==
    [r \in RoomIds |-> IF listed[r] # NoRoom /\ listed[r].server = a THEN NoRoom ELSE listed[r]]

\* The key of a server: the address sent beside its ServerStatus.
\* (Variant: the address in that status.)
StatusAddress(m) == Ws(m.server)
KeyOf(m) == Http(m.server)

\* A reset is believed only of a known server.
Reset(m) == m.empty /\ servers[KeyOf(m)] # "absent"

\* post_server_announce. (Its accesses to the two maps are one step: whatever
\* comes between them could as well come before or after, as long as Without
\* removes nothing.)
ReceiveAnnounce(m) ==
    /\ m \in wire /\ m.type = "announce"
    /\ wire' = wire \ {m}
    /\ listed' = IF Reset(m) THEN Without(KeyOf(m)) ELSE listed
    /\ servers' = [servers EXCEPT ![KeyOf(m)] = "fresh"]
    /\ UNCHANGED <<gameVars, call, cleanVars>>

\* put_server_rooms
ReceiveRoom(m) ==
    /\ m \in wire /\ m.type = "room"
    /\ wire' = wire \ {m}
    /\ listed' = [listed EXCEPT ![m.id] = m.info]
    /\ UNCHANGED <<gameVars, servers, call, cleanVars>>

\* get_active_rooms_per_server starts from the keys of SERVERS.
PickServers(q) ==
    /\ call[q].pc = "idle"
    /\ call' = [call EXCEPT ![q] =
                   [Idle EXCEPT !.pc = "picking", !.counted = {a \in Address : servers[a] # "absent"}]]
    /\ UNCHANGED <<gameVars, wire, servers, listed, cleanVars>>

ActiveRooms(a) == {r \in RoomIds : listed[r] # NoRoom /\ listed[r].server = a /\ ~listed[r].asleep}

\* It then counts the active rooms under the address they carry, which adds
\* the addresses that are no key yet; get_best_server takes any with the
\* fewest, and post_create sends the call there.
Candidates(q) == call[q].counted \cup {a \in Address : ActiveRooms(a) # {}}
Best(q) ==
    {a \in Candidates(q) :
        \A b \in Candidates(q) : Cardinality(ActiveRooms(a)) <= Cardinality(ActiveRooms(b))}

Forward(q, a) ==
    /\ call[q].pc = "picking" /\ a \in Best(q)
    /\ call' = [call EXCEPT ![q].pc = "sent", ![q].target = a]
    /\ orders' = orders \cup {<<q, s>> : s \in {t \in Servers : a = Http(t) /\ up[t]}}
    /\ UNCHANGED <<up, greeted, hosted, wire, servers, listed, cleanVars>>

\* SERVICE_UNAVAILABLE
Refuse(q) ==
    /\ call[q].pc = "picking" /\ Candidates(q) = {}
    /\ call' = [call EXCEPT ![q] = Idle]
    /\ UNCHANGED <<gameVars, wire, servers, listed, cleanVars>>

\* The room is reported to the caller.
Grant(q) ==
    /\ call[q].pc = "answered"
    /\ call' = [call EXCEPT ![q] = Idle]
    /\ UNCHANGED <<gameVars, wire, servers, listed, cleanVars>>

\* The call timed out or was refused (nothing answers at a ws address): the
\* server is removed, alive or not.
ForwardFails(q) ==
    /\ call[q].pc \in {"sent", "answered"}
    /\ servers' = [servers EXCEPT ![call[q].target] = "absent"]
    /\ call' = [call EXCEPT ![q] = Idle]
    /\ UNCHANGED <<gameVars, wire, listed, cleanVars>>

\* What was answered is no room: the caller is refused and the server stays.
AnswerUnreadable(q) ==
    /\ call[q].pc \in {"sent", "answered"}
    /\ call' = [call EXCEPT ![q] = Idle]
    /\ UNCHANGED <<gameVars, wire, servers, listed, cleanVars>>

-----------------------------------------------------------------------------
(* The cleanup task of the API.                                            *)

\* More than 360 s pass without an announcement.
Age(a) ==
    /\ servers[a] = "fresh"
    /\ servers' = [servers EXCEPT ![a] = "stale"]
    /\ UNCHANGED <<gameVars, wire, listed, call, cleanVars>>

CollectStale ==
    /\ cleanPC = "sleep"
    /\ suspects' = {a \in Address : servers[a] = "stale"}
    /\ cleanPC' = "check"
    /\ UNCHANGED <<gameVars, wire, servers, listed, call, suspect>>

\* GET /server/status is answered, or fails: the server is down, or slower
\* than two seconds.
Answers(a) == \E s \in Servers : a = Http(s) /\ up[s]

CheckAlive(a) ==
    /\ cleanPC = "check" /\ a \in suspects
    /\ suspects' = suspects \ {a}
    /\ \/ Answers(a) /\ UNCHANGED <<cleanPC, suspect>>
       \/ cleanPC' = "remove" /\ suspect' = a
    /\ UNCHANGED <<gameVars, wire, servers, listed, call>>

\* (Variant: the removal is forgotten.)
ForgetNothing == servers
ForgetSuspect == [servers EXCEPT ![suspect] = "absent"]

RemoveServer ==
    /\ cleanPC = "remove"
    /\ servers' = ForgetSuspect
    /\ cleanPC' = "purge"
    /\ UNCHANGED <<gameVars, wire, listed, call, suspects, suspect>>

RemoveRooms ==
    /\ cleanPC = "purge"
    /\ listed' = Without(suspect)
    /\ cleanPC' = "check" /\ suspect' = NoAddress
    /\ UNCHANGED <<gameVars, wire, servers, call, suspects>>

CleanupDone ==
    /\ cleanPC = "check" /\ suspects = {}
    /\ cleanPC' = "sleep"
    /\ UNCHANGED <<gameVars, wire, servers, listed, call, suspects, suspect>>

-----------------------------------------------------------------------------
GameStep ==
    \/ \E s \in Servers : Start(s) \/ Crash(s) \/ Announce(s)
    \/ \E s \in Servers, r \in RoomIds : AnnounceRoom(s, r) \/ Hibernate(s, r) \/ Expire(s, r)
    \/ \E s \in Servers, q \in Requests, r \in RoomIds : CreateRoom(s, q, r)

Network == (\E m \in wire : Lose(m)) \/ (\E o \in orders : LoseOrder(o))

ApiStep ==
    \/ \E m \in wire : ReceiveAnnounce(m) \/ ReceiveRoom(m)
    \/ \E q \in Requests :
        PickServers(q) \/ Refuse(q) \/ Grant(q) \/ ForwardFails(q) \/ AnswerUnreadable(q)
    \/ \E q \in Requests, a \in Address : Forward(q, a)

Cleanup ==
    \/ CollectStale \/ RemoveServer \/ RemoveRooms \/ CleanupDone
    \/ \E a \in Address : CheckAlive(a)

Next == GameStep \/ Network \/ ApiStep \/ Cleanup \/ \E a \in Address : Age(a)

Spec == Init /\ [][Next]_vars

\* The cleanup task never ends, time passes, and no request stays on the wire.
\* A server that is up announces itself and its rooms again and again, and the
\* network does not lose every one of these requests.
Fairness ==
    /\ WF_vars(Cleanup)
    /\ \A a \in Address : WF_vars(Age(a))
    /\ \A m \in Announcements \cup Reports : WF_vars(Lose(m) \/ ReceiveAnnounce(m) \/ ReceiveRoom(m))
    /\ \A s \in Servers :
        /\ WF_vars(Announce(s))
        /\ SF_vars(\E m \in wire : ReceiveAnnounce(m) /\ m.server = s)
    /\ \A s \in Servers, r \in RoomIds :
        /\ WF_vars(AnnounceRoom(s, r))
        /\ SF_vars(\E m \in wire : ReceiveRoom(m) /\ m.id = r /\ m.info.server = Ws(s))

FairSpec == Spec /\ Fairness

-----------------------------------------------------------------------------
(* Properties.                                                             *)

\* The values the variables take. Only servers announce themselves, and only
\* rooms, under the other address of their server, are listed.
TypeOK ==
    /\ up \in [Servers -> BOOLEAN]
    /\ greeted \in [Servers -> BOOLEAN]
    /\ hosted \in [Servers -> [RoomIds -> {"none", "awake", "asleep"}]]
    /\ \A s \in Servers : ~up[s] => ~greeted[s] /\ \A r \in RoomIds : hosted[s][r] = "none"
    /\ wire \subseteq Announcements \cup Reports
    /\ orders \subseteq Requests \X Servers
    /\ servers \in [Address -> {"absent", "fresh", "stale"}]
    /\ listed \in [RoomIds -> Listing \cup {NoRoom}]
    /\ call \in [Requests -> Calls]
    /\ \A q \in Requests : call[q].pc \in {"sent", "answered"} => call[q].target \in Address
    /\ cleanPC \in {"sleep", "check", "remove", "purge"}
    /\ suspects \subseteq Address
    /\ suspect \in Address \cup {NoAddress}
    /\ cleanPC \in {"remove", "purge"} => suspect \in Address

\* A server that stays up is known again and again, although failed calls and
\* slow health checks remove it.
LiveServerListed == \A s \in Servers : <>[]up[s] => []<>(servers[Http(s)] # "absent")

\* A server that stays down is forgotten for good, although requests it sent
\* before may still arrive.
DeadServerForgotten == \A s \in Servers : <>[]~up[s] => <>[](servers[Http(s)] = "absent")

\* When a room stays as it is and no other server has its id, the list ends
\* up saying so, although reports are lost and arrive out of order.
RoomsCatchUp ==
    \A s \in Servers, r \in RoomIds, state \in {"awake", "asleep"} :
        <>[](hosted[s][r] = state /\ \A t \in Servers \ {s} : hosted[t][r] = "none")
            => <>[](listed[r] = [server |-> Ws(s), asleep |-> state = "asleep"])

-----------------------------------------------------------------------------
(* What makes the safety properties inductive.                             *)

\* Rooms are reported and listed under the addresses for clients, and only
\* addresses for the API are ever known, asked and removed.
RoomsUnderWs ==
    /\ \A r \in RoomIds : listed[r] # NoRoom => \E s \in Servers : listed[r].server = Ws(s)
    /\ \A m \in wire : m.type = "room" => \E s \in Servers : m.info.server = Ws(s)
    /\ \A a \in Address : servers[a] # "absent" => \E s \in Servers : a = Http(s)
    /\ \A a \in suspects : \E s \in Servers : a = Http(s)
    /\ cleanPC \in {"remove", "purge"} => \E s \in Servers : suspect = Http(s)

DirectoryInv == TypeOK /\ RoomsUnderWs

-----------------------------------------------------------------------------
(* Stated by the code's own comments, and not kept.                        *)

\* main.rs:289 "Remove rooms that no longer exist on server", when a known
\* server announces that it has none.
ResetForgetsRooms ==
    [][\A m \in Announcements :
        ReceiveAnnounce(m) /\ Reset(m) =>
            \A r \in RoomIds : listed'[r] # NoRoom => listed'[r].server # Ws(m.server)]_vars

=============================================================================
