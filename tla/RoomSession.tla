---------------------------- MODULE RoomSession ----------------------------
(***************************************************************************)
(* One room of roboscapesim-server and the connections that use it.        *)
(*                                                                         *)
(* Two tasks share the room's `sockets` map (username -> set of peer ids): *)
(* the ws_rx task, which joins clients (management.rs join_room) and       *)
(* queues or closes what they send, and the room's own tick task (room.rs  *)
(* launch / update), which kicks idle rooms, prunes closed connections,    *)
(* handles the queued messages, expires claims and decides to hibernate.   *)
(* Every access to a shared map is a step of its own, in the code's order; *)
(* steps that touch only the acting task's locals are merged with them.    *)
(***************************************************************************)
EXTENDS Naturals, Sequences

CONSTANTS
    Users,      \* usernames
    Conns,      \* peer ids: one per WebSocket connection, never reused
    UserOf,     \* the user whose page opened the connection
    Robots,     \* robot ids of the room
    Claimable,  \* robots with claimable = true
    NoUser,     \* claimed_by = None
    NoConn,     \* no connection
    Timeout,    \* metadata.hibernate_timeout
    Inputs,     \* the messages clients send
    MaxRx       \* bound on a connection's queue, for model checking

ResetAll == [type |-> "ResetAll"]
RobotMessages ==
    [type : {"ResetRobot", "ClaimRobot", "UnclaimRobot", "EncryptRobot"}, robot : Robots]
Messages == RobotMessages \cup {ResetAll}

ASSUME UsersAssumption == NoUser \notin Users
ASSUME ConnsAssumption == NoConn \notin Conns /\ UserOf \in [Conns -> Users]
ASSUME RobotsAssumption == Claimable \subseteq Robots
ASSUME BoundsAssumption == Inputs \subseteq Messages /\ Timeout \in Nat /\ MaxRx \in Nat

VARIABLES
    conn,        \* Conns -> "new" | "open" (it is in CLIENTS) | "closed"
    users,       \* the keys of clients_manager.sockets
    peers,       \* the ids under each key of sockets ({} without a key)
    claimedBy,   \* RobotData.claimed_by of each robot
    hibernating, \* metadata.hibernating
    idle,        \* now - last_interaction_time, saturated at Timeout + 1
    rx,          \* Conns -> the client messages queued by ws_rx (tx1 / rx)
    \* The ws_rx task
    wsPC,        \* where it is in join_room, or "dead" after a panic
    joining,     \* the connection join_room was called for
    toSend,      \* robots join_room has not yet reported to it
    \* The room's tick task
    roomPC,      \* where it is in a tick, or "dead" after a panic
    toNotify,    \* users send_to_all_clients has not reached yet
    gone,        \* `disconnected` of remove_disconnected_clients
    victim,      \* the user whose empty entry is about to be removed
    inbox,       \* `msgs` returned by get_messages, per connection
    turn,        \* the connection whose messages are being handled
    needsReset,  \* needs_reset, or robot_resets is not empty
    toUpdate,    \* robots update_robots has not visited yet
    \* What the messages queued for each client (tx) tell it so far
    session,     \* last of RoomInfo ("in") and Hibernating, or "none"
    view         \* Conns -> robot -> claimant, by the RobotClaimed messages

sockVars == <<users, peers>>
wsVars   == <<wsPC, joining, toSend>>
roomVars == <<roomPC, toNotify, gone, victim, inbox, turn, needsReset, toUpdate>>
outVars  == <<session, view>>
vars == <<conn, sockVars, claimedBy, hibernating, idle, rx, wsVars, roomVars, outVars>>

-----------------------------------------------------------------------------
\* Connections that sockets lists under their user.
Attached == {c \in Conns : c \in peers[UserOf[c]]}

\* Clients a broadcast over sockets reaches: the others are only logged.
Reachable == {c \in Attached : conn[c] = "open"}

\* RobotClaimed(r, u) queued for everybody in sockets.
BroadcastClaim(r, u) ==
    view' = [c \in Conns |-> IF c \in Reachable THEN [view[c] EXCEPT ![r] = u]
                                                ELSE view[c]]

NoClaims == [r \in Robots |-> NoUser]

Init ==
    /\ conn = [c \in Conns |-> "new"]
    /\ users = {}
    /\ peers = [u \in Users |-> {}]
    /\ claimedBy = NoClaims
    /\ hibernating = FALSE
    /\ idle = 0
    /\ rx = [c \in Conns |-> <<>>]
    /\ wsPC = "idle" /\ joining = NoConn /\ toSend = {}
    /\ roomPC = "sleep" /\ toNotify = {} /\ gone = {} /\ victim = NoUser
    /\ inbox = [c \in Conns |-> <<>>] /\ turn = NoConn
    /\ needsReset = FALSE /\ toUpdate = {}
    /\ session = [c \in Conns |-> "none"]
    /\ view = [c \in Conns |-> NoClaims]

-----------------------------------------------------------------------------
(* Connections and time.                                                   *)

\* accept_connection: the new peer is put in CLIENTS.
Accept(c) ==
    /\ conn[c] = "new"
    /\ conn' = [conn EXCEPT ![c] = "open"]
    /\ UNCHANGED <<sockVars, claimedBy, hibernating, idle, rx, wsVars, roomVars, outVars>>

\* ws_rx reads a Close frame; the peer leaves CLIENTS at the end of the pass.
Close(c) ==
    /\ wsPC = "idle" /\ conn[c] = "open"
    /\ conn' = [conn EXCEPT ![c] = "closed"]
    /\ UNCHANGED <<sockVars, claimedBy, hibernating, idle, rx, wsVars, roomVars, outVars>>

\* ws_rx queues any message that is not JoinRoom for the room.
Receive(c, m) ==
    /\ wsPC = "idle" /\ conn[c] = "open"
    /\ session[c] \in {"in", "hibernated"}
    /\ Len(rx[c]) < MaxRx
    /\ rx' = [rx EXCEPT ![c] = Append(@, m)]
    /\ UNCHANGED <<conn, sockVars, claimedBy, hibernating, idle, wsVars, roomVars, outVars>>

Clock ==
    /\ idle <= Timeout
    /\ idle' = idle + 1
    /\ UNCHANGED <<conn, sockVars, claimedBy, hibernating, rx, wsVars, roomVars, outVars>>

-----------------------------------------------------------------------------
(* join_room, run by ws_rx.                                                *)

\* (A wrong password only sends FatalError to the client: a refused client is
\* one that has not joined.)

\* An empty set is put under the user's key when it has none. ws_rx is the
\* only task that inserts keys, so the test and the insertion are one step.
JoinEntry(c) ==
    /\ wsPC = "idle" /\ conn[c] = "open" /\ session[c] = "none"
    /\ users' = users \cup {UserOf[c]}
    /\ joining' = c
    /\ wsPC' = "attach"
    /\ UNCHANGED <<conn, peers, claimedBy, hibernating, idle, rx, toSend, roomVars, outVars>>

\* get_mut finds the user's key.
EntryThere == UserOf[joining] \in users

\* sockets.get_mut(username).unwrap().insert(peer_id): without the key the
\* unwrap panics and the one ws_rx task of the server is gone.
JoinAttach ==
    /\ wsPC = "attach"
    /\ \/ /\ EntryThere
          /\ peers' = [peers EXCEPT ![UserOf[joining]] = @ \cup {joining}]
          /\ wsPC' = "touch"
       \/ /\ ~EntryThere
          /\ wsPC' = "dead"
          /\ UNCHANGED peers
    /\ UNCHANGED <<conn, users, claimedBy, hibernating, idle, rx, joining, toSend, roomVars, outVars>>

\* last_interaction_time.store(now)
JoinTouch ==
    /\ wsPC = "touch"
    /\ idle' = 0
    /\ wsPC' = "info"
    /\ UNCHANGED <<conn, sockVars, claimedBy, hibernating, rx, joining, toSend, roomVars, outVars>>

\* Robots whose claims the join reports.      (Variant: none.)
NoRobotReported == {}
ReportedRobots == Robots

\* RoomInfo and the full Update; the robots are then reported one by one.
JoinInfo ==
    /\ wsPC = "info"
    /\ session' = [session EXCEPT ![joining] = "in"]
    /\ toSend' = ReportedRobots
    /\ wsPC' = "claims"
    /\ UNCHANGED <<conn, sockVars, claimedBy, hibernating, idle, rx, joining, roomVars, view>>

\* RobotClaimed for one robot, under its lock; a free robot is not reported.
JoinClaim(r) ==
    /\ wsPC = "claims" /\ r \in toSend
    /\ toSend' = toSend \ {r}
    /\ view' = IF claimedBy[r] = NoUser THEN view
                                        ELSE [view EXCEPT ![joining][r] = claimedBy[r]]
    /\ UNCHANGED <<conn, sockVars, claimedBy, hibernating, idle, rx, wsPC, joining, roomVars, session>>

JoinDone ==
    /\ wsPC = "claims" /\ toSend = {}
    /\ wsPC' = "idle" /\ joining' = NoConn
    /\ UNCHANGED <<conn, sockVars, claimedBy, hibernating, idle, rx, toSend, roomVars, outVars>>

-----------------------------------------------------------------------------
(* The tick of the room task.                                              *)

TickBegin ==
    /\ roomPC = "sleep"
    /\ \/ /\ ~hibernating /\ idle > Timeout
          /\ hibernating' = TRUE
          /\ roomPC' = "notify"
          /\ toNotify' = Users
       \/ /\ ~hibernating /\ idle <= Timeout
          /\ roomPC' = "collect"
          /\ UNCHANGED <<hibernating, toNotify>>
       \/ /\ hibernating
          /\ roomPC' = "check"
          /\ UNCHANGED <<hibernating, toNotify>>
    /\ UNCHANGED <<conn, sockVars, claimedBy, idle, rx, wsVars, gone, victim, inbox, turn,
                   needsReset, toUpdate, outVars>>

\* send_to_all_clients(Hibernating) reaches one key of sockets; the client
\* drops what it knew of the room.
NotifyHibernating(u) ==
    /\ roomPC = "notify" /\ u \in toNotify
    /\ toNotify' = toNotify \ {u}
    /\ LET told == {c \in Reachable : UserOf[c] = u}
       IN /\ session' = [c \in Conns |-> IF c \in told THEN "hibernated" ELSE session[c]]
          /\ view' = [c \in Conns |-> IF c \in told THEN NoClaims ELSE view[c]]
    /\ UNCHANGED <<conn, sockVars, claimedBy, hibernating, idle, rx, wsVars, roomPC, gone, victim,
                   inbox, turn, needsReset, toUpdate>>

\* sockets.clear()
ClearSockets ==
    /\ roomPC = "notify" /\ toNotify = {}
    /\ users' = {}
    /\ peers' = [u \in Users |-> {}]
    /\ roomPC' = "check"
    /\ UNCHANGED <<conn, claimedBy, hibernating, idle, rx, wsVars, toNotify, gone, victim, inbox,
                   turn, needsReset, toUpdate, outVars>>

\* remove_disconnected_clients: the ids of sockets that are not in CLIENTS.
CollectGone ==
    /\ roomPC = "collect"
    /\ gone' = Attached \ Reachable
    /\ roomPC' = "prune"
    /\ UNCHANGED <<conn, sockVars, claimedBy, hibernating, idle, rx, wsVars, toNotify, victim,
                   inbox, turn, needsReset, toUpdate, outVars>>

\* The key of a user with these peers left is removed when there are none.
\* (Variants: it never is, it always is.)
KeyStays(rest) == FALSE
KeyGoesAnyway(rest) == TRUE
KeyGoes(rest) == rest = {}

\* One id is removed; the key goes too when is_empty() then says so.
PruneConn(c) ==
    /\ roomPC = "prune" /\ c \in gone
    /\ LET rest == peers[UserOf[c]] \ {c}
       IN /\ peers' = [peers EXCEPT ![UserOf[c]] = rest]
          /\ IF KeyGoes(rest) THEN roomPC' = "drop" /\ victim' = UserOf[c]
                              ELSE UNCHANGED <<roomPC, victim>>
    /\ gone' = gone \ {c}
    /\ UNCHANGED <<conn, users, claimedBy, hibernating, idle, rx, wsVars, toNotify, inbox, turn,
                   needsReset, toUpdate, outVars>>

\* sockets.remove(&username), whatever the set holds by now.
DropUser ==
    /\ roomPC = "drop"
    /\ users' = users \ {victim}
    /\ peers' = [peers EXCEPT ![victim] = {}]
    /\ roomPC' = "prune" /\ victim' = NoUser
    /\ UNCHANGED <<conn, claimedBy, hibernating, idle, rx, wsVars, toNotify, gone, inbox, turn,
                   needsReset, toUpdate, outVars>>

\* Clients get_messages reads.      (Variant: always the same one of them.)
FirstReader == {CHOOSE c \in Conns : Reachable # {} => c \in Reachable} \cap Reachable
Readers == Reachable

\* get_messages empties the queue of every reachable client in sockets.
GetMessages ==
    /\ roomPC = "prune" /\ gone = {}
    /\ inbox' = [c \in Conns |-> IF c \in Readers THEN rx[c] ELSE <<>>]
    /\ rx' = [c \in Conns |-> IF c \in Readers THEN <<>> ELSE rx[c]]
    /\ roomPC' = "handle" 
    /\ UNCHANGED <<conn, sockVars, claimedBy, hibernating, idle, wsVars, toNotify, gone, victim,
                   turn, needsReset, toUpdate, outVars>>

\* is_authorized(client, robot_id), for a robot that exists.
\* (Variant: claimable or not.)
AuthorizedForAny(c, r) == claimedBy[r] # NoUser /\ c \in Attached => claimedBy[r] = UserOf[c]
Authorized(c, r) ==
    /\ r \in Claimable
    /\ claimedBy[r] # NoUser /\ c \in Attached => claimedBy[r] = UserOf[c]

ClaimRobot(c, r) ==
    IF Authorized(c, r) /\ claimedBy[r] = NoUser
    THEN /\ claimedBy' = [claimedBy EXCEPT ![r] = UserOf[c]]
         /\ BroadcastClaim(r, UserOf[c])
    ELSE UNCHANGED <<claimedBy, view>>

UnclaimRobot(c, r) ==
    IF Authorized(c, r) /\ claimedBy[r] = UserOf[c]
    THEN /\ claimedBy' = [claimedBy EXCEPT ![r] = NoUser]
         /\ BroadcastClaim(r, NoUser)
    ELSE UNCHANGED <<claimedBy, view>>

\* handle_client_message for one open client. EncryptRobot only sends bytes
\* to the robot: it changes nothing here, unless it panics.
HandleMessage(c, m) ==
    \/ /\ m = ResetAll
       /\ needsReset' = TRUE
       /\ UNCHANGED <<claimedBy, view>>
    \/ /\ m.type = "ResetRobot"
       /\ needsReset' = (needsReset \/ Authorized(c, m.robot))
       /\ UNCHANGED <<claimedBy, view>>
    \/ m.type = "ClaimRobot" /\ ClaimRobot(c, m.robot) /\ UNCHANGED needsReset
    \/ m.type = "UnclaimRobot" /\ UnclaimRobot(c, m.robot) /\ UNCHANGED needsReset
    \/ m.type = "EncryptRobot" /\ UNCHANGED <<claimedBy, view, needsReset>>

\* The next message: all those of one client come before the next client's;
\* one whose client has left CLIENTS meanwhile is ignored.
Handle(c) ==
    /\ roomPC = "handle" /\ turn \in {c, NoConn} /\ inbox[c] # <<>>
    /\ inbox' = [inbox EXCEPT ![c] = Tail(@)]
    /\ turn' = IF Len(inbox[c]) = 1 THEN NoConn ELSE c
    /\ IF conn[c] = "open" THEN HandleMessage(c, Head(inbox[c]))
                           ELSE UNCHANGED <<claimedBy, view, needsReset>>
    /\ UNCHANGED <<conn, sockVars, hibernating, idle, rx, wsVars, roomPC, toNotify, gone, victim,
                   toUpdate, session>>

\* EncryptRobot unwraps what it sends over the robot's UDP socket: without a
\* socket, or when the send fails, the room task ends in the middle of a tick.
EncryptPanics(c) ==
    /\ roomPC = "handle" /\ turn \in {c, NoConn} /\ inbox[c] # <<>>
    /\ conn[c] = "open"
    /\ Head(inbox[c]).type = "EncryptRobot" /\ Authorized(c, Head(inbox[c]).robot)
    /\ roomPC' = "dead"
    /\ UNCHANGED <<conn, sockVars, claimedBy, hibernating, idle, rx, wsVars, toNotify, gone, victim,
                   inbox, turn, needsReset, toUpdate, outVars>>

\* reset() or reset_robot() for each: both store last_interaction_time.
ApplyResets ==
    /\ roomPC = "handle" /\ \A c \in Conns : inbox[c] = <<>>
    /\ idle' = IF needsReset THEN 0 ELSE idle
    /\ toUpdate' = Robots
    /\ roomPC' = "robots" /\ needsReset' = FALSE
    /\ UNCHANGED <<conn, sockVars, claimedBy, hibernating, rx, wsVars, toNotify, gone, victim,
                   inbox, turn, outVars>>

\* The claimant has no key in sockets.      (Variants: nobody asks; its open
\* connections are counted instead of its key.)
NeverAbandoned(r) == FALSE
AbandonedByConnection(r) ==
    claimedBy[r] # NoUser /\ \A c \in Reachable : UserOf[c] # claimedBy[r]
Abandoned(r) == claimedBy[r] # NoUser /\ claimedBy[r] \notin users

\* update_robots: a claim whose user has no key in sockets is given up.
UpdateRobot(r) ==
    /\ roomPC = "robots" /\ r \in toUpdate
    /\ toUpdate' = toUpdate \ {r}
    /\ IF Abandoned(r)
       THEN /\ claimedBy' = [claimedBy EXCEPT ![r] = NoUser]
            /\ BroadcastClaim(r, NoUser)
       ELSE UNCHANGED <<claimedBy, view>>
    /\ UNCHANGED <<conn, sockVars, hibernating, idle, rx, wsVars, roomPC, toNotify, gone, victim,
                   inbox, turn, needsReset, session>>

\* A robot that got a RoboScape message counts as an interaction.
RobotsDone ==
    /\ roomPC = "robots" /\ toUpdate = {}
    /\ \/ UNCHANGED idle
       \/ Robots # {} /\ idle' = 0
    /\ roomPC' = "check"
    /\ UNCHANGED <<conn, sockVars, claimedBy, hibernating, rx, wsVars, toNotify, gone, victim,
                   inbox, turn, needsReset, toUpdate, outVars>>

\* The room is to sleep.      (Variant: it is never woken.)
StayAsleep == hibernating \/ users = {}
MustSleep == users = {}

\* check_hibernation_state: asleep when sockets is empty, else awake.
CheckHibernation ==
    /\ roomPC = "check"
    /\ hibernating' = MustSleep
    /\ roomPC' = "sleep"
    /\ UNCHANGED <<conn, sockVars, claimedBy, idle, rx, wsVars, toNotify, gone, victim, inbox,
                   turn, needsReset, toUpdate, outVars>>

-----------------------------------------------------------------------------
Environment ==
    \/ \E c \in Conns : Accept(c) \/ Close(c) \/ JoinEntry(c)
    \/ \E c \in Conns, m \in Inputs : Receive(c, m)
    \/ Clock

JoinStep ==
    \/ JoinAttach \/ JoinTouch \/ JoinInfo \/ JoinDone
    \/ \E r \in Robots : JoinClaim(r)

RoomStep ==
    \/ TickBegin \/ ClearSockets \/ CollectGone \/ DropUser \/ GetMessages
    \/ ApplyResets \/ RobotsDone \/ CheckHibernation
    \/ \E u \in Users : NotifyHibernating(u)
    \/ \E c \in Conns : PruneConn(c) \/ Handle(c) \/ EncryptPanics(c)
    \/ \E r \in Robots : UpdateRobot(r)

Next == Environment \/ JoinStep \/ RoomStep

Spec == Init /\ [][Next]_vars

\* Both tasks are always ready to run and never block for good: the tick is
\* a timer loop of its own tokio task, a started join runs to its end. (A task
\* that panics is over: what must happen is checked of rooms that do not.)
FairSpec == Spec /\ WF_vars(RoomStep) /\ WF_vars(JoinStep)

-----------------------------------------------------------------------------
(* Properties.                                                             *)

\* The values the variables take; a user without a key has no peers.
TypeOK ==
    /\ conn \in [Conns -> {"new", "open", "closed"}]
    /\ users \subseteq Users
    /\ peers \in [Users -> SUBSET Conns]
    /\ \A u \in Users \ users : peers[u] = {}
    /\ claimedBy \in [Robots -> Users \cup {NoUser}]
    /\ hibernating \in BOOLEAN
    /\ idle \in 0 .. Timeout + 1
    /\ rx \in [Conns -> Seq(Messages)]
    /\ wsPC \in {"idle", "attach", "touch", "info", "claims", "dead"}
    /\ joining \in Conns \cup {NoConn}
    /\ wsPC \in {"attach", "touch", "info", "claims"} => joining \in Conns
    /\ toSend \subseteq Robots
    /\ roomPC \in {"sleep", "notify", "collect", "prune", "drop", "handle", "robots", "check",
                  "dead"}
    /\ toNotify \subseteq Users
    /\ gone \subseteq Conns
    /\ victim \in Users \cup {NoUser}
    /\ roomPC = "drop" => victim \in Users
    /\ inbox \in [Conns -> Seq(Messages)]
    /\ turn \in Conns \cup {NoConn}
    /\ needsReset \in BOOLEAN
    /\ toUpdate \subseteq Robots
    /\ session \in [Conns -> {"none", "in", "hibernated"}]
    /\ view \in [Conns -> [Robots -> Users \cup {NoUser}]]

\* What a client has been told of the claims is what the room holds: claims
\* made, given up or expired while the client was joining included. (A room
\* being put to sleep is between telling a client and dropping it.)
ViewsAgree ==
    roomPC # "notify" =>
        \A c \in Reachable, r \in Robots :
            view[c][r] # claimedBy[r] => joining = c /\ (wsPC # "claims" \/ r \in toSend)

\* After update_robots no robot of an awake room is held by a user who has
\* left it, whatever joined, left or was claimed during the tick.
ClaimantsPresent ==
    (roomPC = "check" /\ ~hibernating) => \A r \in Robots : claimedBy[r] \in users \cup {NoUser}

\* A key of sockets without peers would keep the room awake and its claims
\* alive: it exists only within a join or while the room removes it.
NoGhostUser ==
    \A u \in users :
        peers[u] = {} => \/ wsPC = "attach" /\ UserOf[joining] = u
                         \/ roomPC = "drop" /\ victim = u

\* clients.rs:156: the unwrap in remove_disconnected_clients finds its key,
\* whatever was pruned before it and joined meanwhile.
PruneFindsEntry ==
    roomPC \in {"prune", "drop"} =>
        \A c \in gone : UserOf[c] \in users /\ c \in peers[UserOf[c]]

\* The room keeps the promises of RobotOwnership: a robot is taken and given
\* up only on a message of a connection of that very user, who has not left,
\* and is taken away only from a user who has.
Ownership == INSTANCE RobotOwnership WITH owner <- claimedBy, present <- users, asked <- inbox
ImplementsOwnership == Ownership!Spec

\* A closed connection is eventually out of sockets, asleep or awake.
ClosedIsPruned ==
    \A c \in Conns : [](conn[c] = "closed" => <>(c \notin Attached))

\* When every connection is closed the room falls asleep for good.
EmptyRoomSleeps ==
    (\A c \in Conns : conn[c] = "closed") ~> []hibernating

\* A hibernating room somebody joined is awake again, or empty.
JoinWakesRoom ==
    \A c \in Conns : (hibernating /\ c \in Attached) ~> (~hibernating \/ c \notin Attached)

\* The claim of a user who stays away is given up, unless the room sleeps.
AbsentClaimExpires ==
    \A r \in Robots, u \in Users :
        (claimedBy[r] = u /\ u \notin users) ~> (claimedBy[r] # u \/ u \in users \/ hibernating)

\* A message queued by a client in the room is taken from its queue, unless
\* the client leaves or is sent away first.
MessagesServed ==
    \A c \in Conns :
        (rx[c] # <<>> /\ c \in Reachable) ~> (rx[c] = <<>> \/ c \notin Reachable)

-----------------------------------------------------------------------------
(* What makes the safety properties inductive.                             *)

\* The robots update_robots has already visited are held by users present.
VisitedRobots ==
    roomPC = "robots" => \A r \in Robots \ toUpdate : claimedBy[r] \in users \cup {NoUser}

\* A room tells its clients to leave only while it is going to sleep.
NotifyAsleep == roomPC = "notify" => hibernating

\* The messages being handled are from users still in the room.
HandledPresent ==
    roomPC = "handle" => \A c \in Conns : inbox[c] # <<>> => UserOf[c] \in users

\* The user whose key goes has one, and no other id of its own to prune.
VictimPresent ==
    roomPC = "drop" => victim \in users /\ \A c \in gone : UserOf[c] # victim

\* A join is of an open connection, told RoomInfo before the claims; one not
\* accepted yet is told nothing.
JoinerOpen ==
    /\ wsPC = "idle" => joining = NoConn
    /\ wsPC \in {"attach", "touch", "info", "claims"} => conn[joining] = "open"
    /\ wsPC = "attach" => session[joining] = "none"
    /\ wsPC = "claims" => session[joining] # "none"
    /\ \A c \in Conns : conn[c] = "new" => session[c] = "none" /\ joining # c

\* A connection that has not joined is in no set and knows of no claim.
FreshKnowsNothing ==
    \A c \in Conns :
        session[c] = "none" /\ (joining = c => wsPC = "attach")
            => c \notin Attached /\ view[c] = NoClaims

\* While it joins, a client knows of a robot nothing or what is the case.
JoinerNotMisled ==
    wsPC \in {"touch", "info", "claims"} /\ joining \in Attached =>
        \A r \in Robots : view[joining][r] \in {NoUser, claimedBy[r]}

RoomInv ==
    /\ TypeOK
    /\ VisitedRobots /\ ClaimantsPresent /\ NotifyAsleep /\ HandledPresent
    /\ PruneFindsEntry /\ VictimPresent /\ NoGhostUser
    /\ JoinerOpen /\ FreshKnowsNothing /\ JoinerNotMisled /\ ViewsAgree

-----------------------------------------------------------------------------
(* Stated by the code's own assertion, and not kept.                       *)

\* management.rs:40: the unwrap asserts that the key inserted just before is
\* still there.
JoinFindsItsEntry == wsPC # "dead"

=============================================================================
