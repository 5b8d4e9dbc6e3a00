--------------------------- MODULE RoomLifecycle ---------------------------
(***************************************************************************)
(* The life of the rooms of one game server: creation, the tasks of a room *)
(* (update loop, networking, VM thread or forwarder), sleep, expiry after  *)
(* nine hours and removal by the cleanup loop, against joins run by ws_rx; *)
(* and the throttled announcements of a room to the API server             *)
(* (room.rs, room/management.rs, room/vm.rs, main.rs, api.rs).             *)
(* What a join does to clients and claims is in RoomSession; what becomes  *)
(* of an announcement on the network is in RoomDirectory.                  *)
(***************************************************************************)
EXTENDS Naturals, FiniteSets

CONSTANTS Rooms,    \* rooms that may be created, each with its own id
          Users,    \* users, with one connection each
          Nobody,   \* ws_rx has no join at hand
          Interval, \* time between announcements that are not forced
          MaxTime   \* bound: the clock stops here

ASSUME TimeAssumption == Interval \in Nat /\ MaxTime \in Nat
ASSUME NobodyAssumption == Nobody \notin Users \cup Rooms

\* Who announces room i: a join, the update loop and the request that made it.
Announcers == {"join", "tick", "create"} \X Rooms
About(p) == p[2]

VARIABLES
    edit,        \* rooms in edit mode: no VM thread, but a forwarder
    stage,       \* how far the creation of a room has come
    listed,      \* ROOMS
    alive,       \* is_alive
    expired,     \* last_interaction_time is further back than full_timeout
    hibernating, \* metadata.hibernating
    sockets,     \* users in clients_manager.sockets
    visitors,    \* metadata.visitors
    tick,        \* where the update loop is
    net,         \* where the networking task is
    vm,          \* where the VM thread is
    dropped,     \* RoomData: "no", "waiting" for the VM thread, or "done"
    dropper,     \* who waits for the VM thread: "nobody", "tick" or "cleanup"
    inbox,       \* users whose userJoined event is in netsblox_msg_rx
    heard,       \* history: users whose userJoined event reached the program
    wsPC,        \* where the join run by ws_rx is, "dead" after a panic
    wsUser, wsRoom,
    cleanPC,     \* where the cleanup loop is, "dead" after a panic
    toCheck,     \* rooms that this round of the cleanup has still to look at
    condemned,   \* the room it has found expired and is about to stop
    doomed,      \* dead_rooms
    settled,     \* history: who was in that room when the cleanup looked, and
                 \* had counted as an interaction
    now,         \* the clock
    lastAnnounce,\* metadata.last_announce_time
    announcing,  \* where each announcement is
    reported     \* history: the visitors that announcements of a room told

roomVars == <<edit, stage, alive, expired, hibernating, sockets, visitors>>
taskVars == <<tick, net, vm, dropped, dropper>>
eventVars == <<inbox, heard>>
wsVars == <<wsPC, wsUser, wsRoom>>
cleanVars == <<listed, cleanPC, toCheck, condemned, doomed, settled>>
announceVars == <<now, lastAnnounce, announcing, reported>>
vars == <<roomVars, taskVars, eventVars, wsVars, cleanVars, announceVars>>

-----------------------------------------------------------------------------
(* Announcements.                                                          *)

Quiet == [step |-> "idle", time |-> 0, saved |-> 0]
IsQuiet(p) == announcing[p] = Quiet

\* (Variant: joins and creations are throttled like ticks.)
BeginAnnounceThrottled(p, force) ==
    announcing' = [announcing EXCEPT ![p] =
        IF now >= lastAnnounce[About(p)] + Interval
        THEN [step |-> "exchange", time |-> now, saved |-> lastAnnounce[About(p)]]
        ELSE Quiet]

\* The times are read: nothing is announced if the last one is too recent.
BeginAnnounce(p, force) ==
    announcing' = [announcing EXCEPT ![p] =
        IF force \/ now >= lastAnnounce[About(p)] + Interval
        THEN [step |-> "exchange", time |-> now, saved |-> lastAnnounce[About(p)]]
        ELSE Quiet]

\* Only who still finds the time it has read goes on.
Exchange(p) ==
    /\ announcing[p].step = "exchange"
    /\ \/ /\ lastAnnounce[About(p)] = announcing[p].saved
          /\ lastAnnounce' = [lastAnnounce EXCEPT ![About(p)] = announcing[p].time]
          /\ announcing' = [announcing EXCEPT ![p].step = "report"]
       \/ /\ lastAnnounce[About(p)] # announcing[p].saved
          /\ announcing' = [announcing EXCEPT ![p] = Quiet]
          /\ UNCHANGED lastAnnounce
    /\ UNCHANGED <<roomVars, taskVars, eventVars, wsVars, cleanVars, now, reported>>

\* The state of the room is collected and a request is spawned with it.
Report(p) ==
    /\ announcing[p].step = "report"
    /\ reported' = [reported EXCEPT ![About(p)] = visitors[About(p)]]
    /\ announcing' = [announcing EXCEPT ![p] = Quiet]
    /\ UNCHANGED <<roomVars, taskVars, eventVars, wsVars, cleanVars, now, lastAnnounce>>

TimePasses ==
    /\ now < MaxTime
    /\ now' = now + 1
    /\ UNCHANGED <<roomVars, taskVars, eventVars, wsVars, cleanVars, lastAnnounce, announcing, reported>>

-----------------------------------------------------------------------------
(* Creation.                                                               *)

\* The room is built; its networking task and its program start.
Create(i) ==
    /\ stage[i] = "none"
    /\ stage' = [stage EXCEPT ![i] = "built"]
    /\ alive' = [alive EXCEPT ![i] = TRUE]
    /\ net' = [net EXCEPT ![i] = "running"]
    /\ vm' = IF i \in edit THEN vm ELSE [vm EXCEPT ![i] = "loading"]
    /\ UNCHANGED <<edit, expired, hibernating, sockets, visitors, tick, dropped, dropper>>
    /\ UNCHANGED <<eventVars, wsVars, cleanVars, announceVars>>

\* It is listed, and its update loop launched.
List(i) ==
    /\ stage[i] = "built"
    /\ stage' = [stage EXCEPT ![i] = "listed"]
    /\ listed' = listed \cup {i}
    /\ UNCHANGED <<edit, alive, expired, hibernating, sockets, visitors, cleanPC, toCheck>>
    /\ UNCHANGED <<condemned, doomed, settled, taskVars, eventVars, wsVars, announceVars>>

Launch(i) ==
    /\ stage[i] = "listed"
    /\ stage' = [stage EXCEPT ![i] = "launched"]
    /\ tick' = [tick EXCEPT ![i] = "loop"]
    /\ UNCHANGED <<edit, alive, expired, hibernating, sockets, visitors, net, vm, dropped, dropper>>
    /\ UNCHANGED <<eventVars, wsVars, cleanVars, announceVars>>

\* The request that asked for the room announces it before it is answered.
AnnounceCreated(i) ==
    /\ stage[i] = "launched"
    /\ stage' = [stage EXCEPT ![i] = "created"]
    /\ BeginAnnounce(<<"create", i>>, TRUE)
    /\ UNCHANGED <<edit, alive, expired, hibernating, sockets, visitors>>
    /\ UNCHANGED <<taskVars, eventVars, wsVars, cleanVars, now, lastAnnounce, reported>>

-----------------------------------------------------------------------------
(* The update loop of a room.                                              *)

\* RoomData is dropped by whoever gives up the last reference to it; a VM
\* thread, if there is one, is waited for.
DropBy(i, who) ==
    /\ dropped' = [dropped EXCEPT ![i] = IF i \in edit THEN "done" ELSE "waiting"]
    /\ dropper' = IF i \in edit THEN dropper ELSE [dropper EXCEPT ![i] = who]

TickChecks(i) ==
    /\ tick[i] = "loop" /\ alive[i]
    /\ IsQuiet(<<"tick", i>>)
    /\ tick' = [tick EXCEPT ![i] = "turn"]
    /\ UNCHANGED <<roomVars, net, vm, dropped, dropper, eventVars, wsVars, cleanVars, announceVars>>

\* (Variant: something else in the room keeps a reference to it.)
TickEndsLeaking(i) ==
    /\ tick[i] = "loop" /\ ~alive[i]
    /\ IsQuiet(<<"tick", i>>)
    /\ tick' = [tick EXCEPT ![i] = "ended"]
    /\ UNCHANGED <<roomVars, net, vm, dropped, dropper, eventVars, wsVars, cleanVars, announceVars>>

TickEnds(i) ==
    /\ tick[i] = "loop" /\ ~alive[i]
    /\ IsQuiet(<<"tick", i>>)
    /\ tick' = [tick EXCEPT ![i] = "ended"]
    /\ IF i \in listed THEN UNCHANGED <<dropped, dropper>> ELSE DropBy(i, "tick")
    /\ UNCHANGED <<roomVars, net, vm, eventVars, wsVars, cleanVars, announceVars>>

\* An awake room sends everybody away when nobody has done anything for long,
\* or forgets those that have left.  Robots that move and resets, which a sleeping
\* room takes from the network, are interactions.  Then the room falls asleep if
\* it is empty, wakes if it is not, and announces itself if it is time.
TickTurn(i, away) ==
    /\ tick[i] = "turn"
    /\ tick' = [tick EXCEPT ![i] = "loop"]
    /\ away # {} => ~hibernating[i]
    /\ sockets' = [sockets EXCEPT ![i] = @ \ away]
    /\ expired' \in {expired, [expired EXCEPT ![i] = FALSE]}
    /\ hibernating' = [hibernating EXCEPT ![i] = (sockets[i] \subseteq away)]
    /\ BeginAnnounce(<<"tick", i>>, FALSE)
    /\ UNCHANGED <<edit, stage, alive, visitors, net, vm, dropped, dropper>>
    /\ UNCHANGED <<eventVars, wsVars, cleanVars, now, lastAnnounce, reported>>

\* The update panics, over an entity or a request: the loop is gone, though the
\* room is not stopped, and nobody is sent away from it or pruned any more.
TickPanics(i, away) ==
    /\ tick[i] = "turn"
    /\ tick' = [tick EXCEPT ![i] = "panicked"]
    /\ away # {} => ~hibernating[i]
    /\ sockets' = [sockets EXCEPT ![i] = @ \ away]
    /\ \/ UNCHANGED hibernating
       \/ away = sockets[i] /\ hibernating' = [hibernating EXCEPT ![i] = TRUE]
    /\ IF i \in listed THEN UNCHANGED <<dropped, dropper>> ELSE DropBy(i, "tick")
    /\ UNCHANGED <<edit, stage, alive, expired, visitors, net, vm>>
    /\ UNCHANGED <<eventVars, wsVars, cleanVars, announceVars>>

\* Who has entered sockets in a join whose time is not stored yet.
Attaching(i) == IF wsPC = "attached" /\ wsRoom = i THEN {wsUser} ELSE {}

\* Nine hours pass since the last interaction: by then the room has sent everybody
\* away and sleeps, or a join is just waking it; or its update loop has panicked.
Expire(i) ==
    /\ stage[i] = "created" /\ IsQuiet(<<"create", i>>)
    /\ ~(wsPC = "telling" /\ wsRoom = i)
    /\ \/ tick[i] = "panicked"
       \/ sockets[i] \subseteq Attaching(i) /\ (hibernating[i] \/ Attaching(i) # {})
    /\ expired' = [expired EXCEPT ![i] = TRUE]
    /\ UNCHANGED <<edit, stage, alive, hibernating, sockets, visitors>>
    /\ UNCHANGED <<taskVars, eventVars, wsVars, cleanVars, announceVars>>

-----------------------------------------------------------------------------
(* The other tasks of a room.                                              *)

\* A project that cannot be downloaded, twice, is replaced by the default one;
\* one that was downloaded but cannot be parsed or compiled ends the thread.
LoadProject(i) ==
    /\ vm[i] = "loading"
    /\ \/ vm' = [vm EXCEPT ![i] = "running"]
       \/ vm' = [vm EXCEPT ![i] = "panicked"]
    /\ UNCHANGED <<roomVars, tick, net, dropped, dropper, eventVars, wsVars, cleanVars, announceVars>>

\* (Variant: the thread looks at is_alive only when the room is awake.)
VMEndsAwake(i) ==
    /\ vm[i] = "running" /\ ~alive[i] /\ ~hibernating[i]
    /\ vm' = [vm EXCEPT ![i] = "ended"]
    /\ UNCHANGED <<roomVars, tick, net, dropped, dropper, eventVars, wsVars, cleanVars, announceVars>>

\* The thread ends with the room and waits while it sleeps; else it takes a
\* message, if there is one, and runs some steps of the program.
VMEnds(i) ==
    /\ vm[i] = "running" /\ ~alive[i]
    /\ vm' = [vm EXCEPT ![i] = "ended"]
    /\ UNCHANGED <<roomVars, tick, net, dropped, dropper, eventVars, wsVars, cleanVars, announceVars>>

\* (Variant: the messages of a sleeping room are taken and dropped.)
VMListensAsleep(i) ==
    /\ vm[i] = "running" /\ alive[i]
    /\ vm' = IF hibernating[i] THEN vm ELSE [vm EXCEPT ![i] = "stepping"]
    /\ \/ /\ inbox[i] = {} /\ UNCHANGED eventVars
       \/ \E u \in inbox[i] :
             /\ inbox' = [inbox EXCEPT ![i] = @ \ {u}]
             /\ heard' = IF hibernating[i] THEN heard ELSE [heard EXCEPT ![i] = @ \cup {u}]
    /\ UNCHANGED <<roomVars, tick, net, dropped, dropper, wsVars, cleanVars, announceVars>>

VMListens(i) ==
    /\ vm[i] = "running" /\ alive[i] /\ ~hibernating[i]
    /\ vm' = [vm EXCEPT ![i] = "stepping"]
    /\ \/ /\ inbox[i] = {} /\ UNCHANGED eventVars
       \/ \E u \in inbox[i] :
             /\ inbox' = [inbox EXCEPT ![i] = @ \ {u}]
             /\ heard' = [heard EXCEPT ![i] = @ \cup {u}]
    /\ UNCHANGED <<roomVars, tick, net, dropped, dropper, wsVars, cleanVars, announceVars>>

\* A step may send a request to the room, which panics if nobody can get it.
VMSteps(i) ==
    /\ vm[i] = "stepping"
    /\ \/ vm' = [vm EXCEPT ![i] = "running"]
       \/ dropped[i] # "no" /\ vm' = [vm EXCEPT ![i] = "panicked"]
    /\ UNCHANGED <<roomVars, tick, net, dropped, dropper, eventVars, wsVars, cleanVars, announceVars>>

\* The networking task, which forwards requests in the same way.
NetEnds(i) ==
    /\ net[i] = "running" /\ ~alive[i]
    /\ net' = [net EXCEPT ![i] = "ended"]
    /\ UNCHANGED <<roomVars, tick, vm, dropped, dropper, eventVars, wsVars, cleanVars, announceVars>>

NetPolls(i) ==
    /\ net[i] = "running" /\ alive[i] /\ ~hibernating[i]
    /\ net' = [net EXCEPT ![i] = "polling"]
    /\ UNCHANGED <<roomVars, tick, vm, dropped, dropper, eventVars, wsVars, cleanVars, announceVars>>

NetForwards(i) ==
    /\ net[i] = "polling"
    /\ \/ net' = [net EXCEPT ![i] = "running"]
       \/ dropped[i] # "no" /\ net' = [net EXCEPT ![i] = "panicked"]
    /\ UNCHANGED <<roomVars, tick, vm, dropped, dropper, eventVars, wsVars, cleanVars, announceVars>>

\* The forwarder of a room in edit mode: it never ends, and takes the messages
\* of a sleeping room only to drop them.
Forward(i) ==
    /\ i \in edit
    /\ \E u \in inbox[i] :
          /\ inbox' = [inbox EXCEPT ![i] = @ \ {u}]
          /\ heard' = IF hibernating[i] THEN heard ELSE [heard EXCEPT ![i] = @ \cup {u}]
    /\ UNCHANGED <<roomVars, taskVars, wsVars, cleanVars, announceVars>>

-----------------------------------------------------------------------------
(* A join, run by ws_rx.                                                   *)

\* The reference that a join holds into ROOMS keeps the room from being removed.
HoldsRoom(i) == wsRoom = i /\ wsPC \in {"inside", "attached", "telling"}

LookUp(u, i) ==
    /\ wsPC = "idle"
    /\ i \in listed
    /\ \A j \in Rooms : u \notin sockets[j] \cup inbox[j]
    /\ wsPC' = "found"
    /\ wsUser' = u
    /\ wsRoom' = i
    /\ UNCHANGED <<roomVars, taskVars, eventVars, cleanVars, announceVars>>

\* The room is looked up again, and has to be there.
GetRoom ==
    /\ wsPC = "found"
    /\ \/ wsRoom \in listed /\ wsPC' = "inside" /\ UNCHANGED <<wsUser, wsRoom>>
       \/ wsRoom \notin listed /\ wsPC' = "dead" /\ wsUser' = Nobody /\ wsRoom' = Nobody
    /\ UNCHANGED <<roomVars, taskVars, eventVars, cleanVars, announceVars>>

WrongPassword ==
    /\ wsPC = "inside"
    /\ wsPC' = "idle"
    /\ wsUser' = Nobody
    /\ wsRoom' = Nobody
    /\ UNCHANGED <<roomVars, taskVars, eventVars, cleanVars, announceVars>>

\* The user is a visitor now, and its connection is in sockets.
Attach ==
    /\ wsPC = "inside"
    /\ wsPC' = "attached"
    /\ visitors' = [visitors EXCEPT ![wsRoom] = @ \cup {wsUser}]
    /\ sockets' = [sockets EXCEPT ![wsRoom] = @ \cup {wsUser}]
    /\ UNCHANGED <<edit, stage, alive, expired, hibernating, wsUser, wsRoom>>
    /\ UNCHANGED <<taskVars, eventVars, cleanVars, announceVars>>

\* (Variant: joining is no interaction.)
EnterNoInteraction ==
    /\ wsPC = "attached"
    /\ wsPC' = "telling"
    /\ BeginAnnounce(<<"join", wsRoom>>, TRUE)
    /\ UNCHANGED <<roomVars, wsUser, wsRoom>>
    /\ UNCHANGED <<taskVars, eventVars, cleanVars, now, lastAnnounce, reported>>

\* Only then is the time of the interaction stored.  The user is sent the room,
\* which is announced.
Enter ==
    /\ wsPC = "attached"
    /\ wsPC' = "telling"
    /\ expired' = [expired EXCEPT ![wsRoom] = FALSE]
    /\ BeginAnnounce(<<"join", wsRoom>>, TRUE)
    /\ UNCHANGED <<edit, stage, alive, hibernating, sockets, visitors, wsUser, wsRoom>>
    /\ UNCHANGED <<taskVars, eventVars, cleanVars, now, lastAnnounce, reported>>

\* The room has been announced; its program is told of the user.
TellProgram ==
    /\ wsPC = "telling"
    /\ IsQuiet(<<"join", wsRoom>>)
    /\ inbox' = [inbox EXCEPT ![wsRoom] = @ \cup {wsUser}]
    /\ wsPC' = "idle"
    /\ wsUser' = Nobody
    /\ wsRoom' = Nobody
    /\ UNCHANGED <<roomVars, taskVars, heard, cleanVars, announceVars>>

-----------------------------------------------------------------------------
(* The cleanup loop of the server.                                         *)

\* (Variant: sleeping rooms are passed over.)
BeginCleanupAwake ==
    /\ cleanPC = "idle"
    /\ cleanPC' = "check"
    /\ toCheck' = {i \in listed : ~hibernating[i]}
    /\ UNCHANGED <<roomVars, taskVars, eventVars, wsVars, listed, condemned, doomed, settled, announceVars>>

BeginCleanup ==
    /\ cleanPC = "idle"
    /\ cleanPC' = "check"
    /\ toCheck' = listed
    /\ UNCHANGED <<roomVars, taskVars, eventVars, wsVars, listed, condemned, doomed, settled, announceVars>>

\* (Variant: a room that sleeps counts as one that has timed out.)
LookAtSleeping(i) ==
    /\ cleanPC = "check"
    /\ i \in toCheck
    /\ toCheck' = toCheck \ {i}
    /\ IF hibernating[i]
       THEN /\ doomed' = doomed \cup {i}
            /\ cleanPC' = "stop"
            /\ condemned' = i
            /\ settled' = sockets[i] \ Attaching(i)
       ELSE UNCHANGED <<doomed, cleanPC, condemned, settled>>
    /\ UNCHANGED <<roomVars, taskVars, eventVars, wsVars, listed, announceVars>>

\* The time of the last interaction is read: a room left alone for too long will
\* be stopped, whoever joins it meanwhile.  Both hold the room to read only.
LookAt(i) ==
    /\ cleanPC = "check"
    /\ i \in toCheck
    /\ toCheck' = toCheck \ {i}
    /\ IF expired[i]
       THEN /\ doomed' = doomed \cup {i}
            /\ cleanPC' = "stop"
            /\ condemned' = i
            /\ settled' = sockets[i] \ Attaching(i)
       ELSE UNCHANGED <<doomed, cleanPC, condemned, settled>>
    /\ UNCHANGED <<roomVars, taskVars, eventVars, wsVars, listed, announceVars>>

StopRoom ==
    /\ cleanPC = "stop"
    /\ alive' = [alive EXCEPT ![condemned] = FALSE]
    /\ cleanPC' = "check"
    /\ condemned' = Nobody
    /\ settled' = {}
    /\ UNCHANGED <<edit, stage, expired, hibernating, sockets, visitors, listed, toCheck, doomed>>
    /\ UNCHANGED <<taskVars, eventVars, wsVars, announceVars>>

BeginRemovals ==
    /\ cleanPC = "check" /\ toCheck = {}
    /\ cleanPC' = "remove"
    /\ UNCHANGED <<listed, toCheck, condemned, doomed, settled>>
    /\ UNCHANGED <<roomVars, taskVars, eventVars, wsVars, announceVars>>

\* A room is removed, and dropped if its update loop is over.
RemoveRoom(i) ==
    /\ cleanPC = "remove"
    /\ i \in doomed
    /\ ~HoldsRoom(i)
    /\ listed' = listed \ {i}
    /\ doomed' = doomed \ {i}
    /\ \/ /\ tick[i] \in {"ended", "panicked"}
          /\ DropBy(i, "cleanup")
          /\ cleanPC' = IF i \in edit THEN "remove" ELSE "join"
       \/ tick[i] \notin {"ended", "panicked"} /\ UNCHANGED <<dropped, dropper, cleanPC>>
    /\ UNCHANGED <<tick, net, vm, toCheck, condemned, settled>>
    /\ UNCHANGED <<roomVars, eventVars, wsVars, announceVars>>

EndCleanup ==
    /\ cleanPC = "remove" /\ doomed = {}
    /\ cleanPC' = "idle"
    /\ UNCHANGED <<listed, toCheck, condemned, doomed, settled>>
    /\ UNCHANGED <<roomVars, taskVars, eventVars, wsVars, announceVars>>

\* Whoever drops the room waits for its VM thread, and panics if that did.
JoinThread(i) ==
    /\ dropped[i] = "waiting"
    /\ vm[i] \in {"ended", "panicked"}
    /\ dropped' = [dropped EXCEPT ![i] = "done"]
    /\ cleanPC' = IF dropper[i] # "cleanup" THEN cleanPC
                  ELSE IF vm[i] = "panicked" THEN "dead" ELSE "remove"
    /\ dropper' = [dropper EXCEPT ![i] = "nobody"]
    /\ UNCHANGED <<tick, net, vm, listed, toCheck, condemned, doomed, settled>>
    /\ UNCHANGED <<roomVars, eventVars, wsVars, announceVars>>

-----------------------------------------------------------------------------

Init ==
    /\ edit \in SUBSET Rooms
    /\ stage = [i \in Rooms |-> "none"]
    /\ listed = {}
    /\ alive = [i \in Rooms |-> TRUE]
    /\ expired = [i \in Rooms |-> FALSE]
    /\ hibernating = [i \in Rooms |-> FALSE]
    /\ sockets = [i \in Rooms |-> {}]
    /\ visitors = [i \in Rooms |-> {}]
    /\ tick = [i \in Rooms |-> "none"]
    /\ net = [i \in Rooms |-> "none"]
    /\ vm = [i \in Rooms |-> "none"]
    /\ dropped = [i \in Rooms |-> "no"]
    /\ dropper = [i \in Rooms |-> "nobody"]
    /\ inbox = [i \in Rooms |-> {}]
    /\ heard = [i \in Rooms |-> {}]
    /\ wsPC = "idle" /\ wsUser = Nobody /\ wsRoom = Nobody
    /\ cleanPC = "idle" /\ toCheck = {} /\ condemned = Nobody /\ doomed = {} /\ settled = {}
    /\ now = 0
    /\ lastAnnounce = [i \in Rooms |-> 0]
    /\ announcing = [p \in Announcers |-> Quiet]
    /\ reported = [i \in Rooms |-> {}]

Announcing(p) == Exchange(p) \/ Report(p)

Creating(i) == List(i) \/ Launch(i) \/ AnnounceCreated(i)

Ticking(i) ==
    \/ TickChecks(i) \/ TickEnds(i)
    \/ \E away \in SUBSET sockets[i] : TickTurn(i, away) \/ TickPanics(i, away)

RunsProgram(i) == LoadProject(i) \/ VMEnds(i) \/ VMListens(i) \/ VMSteps(i)

Networking(i) == NetEnds(i) \/ NetPolls(i) \/ NetForwards(i)

Joining == GetRoom \/ WrongPassword \/ Attach \/ Enter \/ TellProgram

Cleaning ==
    \/ BeginCleanup \/ StopRoom \/ BeginRemovals \/ EndCleanup
    \/ \E i \in Rooms : LookAt(i) \/ RemoveRoom(i)

Next ==
    \/ \E p \in Announcers : Announcing(p)
    \/ TimePasses
    \/ \E i \in Rooms :
        \/ Create(i) \/ Creating(i) \/ Ticking(i) \/ Expire(i)
        \/ RunsProgram(i) \/ Networking(i) \/ Forward(i) \/ JoinThread(i)
    \/ \E u \in Users, i \in Rooms : LookUp(u, i)
    \/ Joining
    \/ Cleaning

Spec == Init /\ [][Next]_vars

\* Tasks run, threads too, and a join that has begun goes on.  A removal that
\* waits for the lock of joins gets it, however many joins there are.
Fairness ==
    /\ \A i \in Rooms :
        /\ WF_vars(Creating(i) \/ Announcing(<<"create", i>>))
        /\ WF_vars(Ticking(i) \/ Announcing(<<"tick", i>>))
        /\ WF_vars(RunsProgram(i))
        /\ WF_vars(Networking(i))
        /\ WF_vars(JoinThread(i))
    /\ WF_vars(Joining \/ \E i \in Rooms : Announcing(<<"join", i>>))
    /\ WF_vars(Cleaning)
    /\ \A i \in Rooms : SF_vars(RemoveRoom(i))

FairSpec == Spec /\ Fairness

-----------------------------------------------------------------------------
(* Properties.                                                             *)

\* The values the variables take, and that a join knows its user and its room and
\* the cleanup the room it is about to stop.
TypeOK ==
    /\ edit \subseteq Rooms
    /\ stage \in [Rooms -> {"none", "built", "listed", "launched", "created"}]
    /\ listed \subseteq Rooms
    /\ alive \in [Rooms -> BOOLEAN] /\ expired \in [Rooms -> BOOLEAN]
    /\ hibernating \in [Rooms -> BOOLEAN]
    /\ sockets \in [Rooms -> SUBSET Users] /\ visitors \in [Rooms -> SUBSET Users]
    /\ tick \in [Rooms -> {"none", "loop", "turn", "ended", "panicked"}]
    /\ net \in [Rooms -> {"none", "running", "polling", "ended", "panicked"}]
    /\ vm \in [Rooms -> {"none", "loading", "running", "stepping", "ended", "panicked"}]
    /\ dropped \in [Rooms -> {"no", "waiting", "done"}]
    /\ dropper \in [Rooms -> {"nobody", "tick", "cleanup"}]
    /\ inbox \in [Rooms -> SUBSET Users] /\ heard \in [Rooms -> SUBSET Users]
    /\ wsPC \in {"idle", "found", "inside", "attached", "telling", "dead"}
    /\ wsUser \in IF wsPC \in {"idle", "dead"} THEN {Nobody} ELSE Users
    /\ wsRoom \in IF wsPC \in {"idle", "dead"} THEN {Nobody} ELSE Rooms
    /\ cleanPC \in {"idle", "check", "stop", "remove", "join", "dead"}
    /\ condemned \in Rooms \cup {Nobody} /\ (cleanPC = "stop" => condemned \in Rooms)
    /\ toCheck \subseteq Rooms /\ doomed \subseteq Rooms /\ settled \subseteq Users
    /\ now \in 0 .. MaxTime
    /\ lastAnnounce \in [Rooms -> 0 .. MaxTime]
    /\ announcing \in [Announcers -> [step : {"idle", "exchange", "report"},
                                      time : 0 .. MaxTime, saved : 0 .. MaxTime]]
    /\ reported \in [Rooms -> SUBSET Users]

\* Once a join has announced the room, its user has been reported, or is about
\* to be by someone else: a join that loses the exchange of the time may skip
\* its own report, because the winner collects the visitors after the exchange.
BeingReported(i) == \E p \in Announcers : About(p) = i /\ announcing[p].step = "report"

StillAnnouncing(i, u) ==
    /\ wsUser = u /\ wsRoom = i
    /\ \/ wsPC = "attached"
       \/ wsPC = "telling" /\ announcing[<<"join", i>>].step = "exchange"

JoinersReported ==
    \A i \in Rooms : \A u \in visitors[i] :
        u \in reported[i] \/ BeingReported(i) \/ StillAnnouncing(i, u)

\* The inductive invariant.  An announcement of a kind begins only when the last
\* one of that kind about the room is over.
BeginsQuiet ==
    \A i \in Rooms :
        /\ stage[i] # "created" => IsQuiet(<<"create", i>>)
        /\ tick[i] = "turn" => IsQuiet(<<"tick", i>>)
        /\ wsPC # "telling" \/ wsRoom # i => IsQuiet(<<"join", i>>)

\* Whoever loses the exchange of the time has been counted by the winner.
LosersReported ==
    /\ wsPC \in {"attached", "telling"} => wsUser \in visitors[wsRoom]
    /\ wsPC = "telling" =>
        LET mine == announcing[<<"join", wsRoom>>] IN
            mine.step = "exchange" /\ lastAnnounce[wsRoom] # mine.saved =>
                wsUser \in reported[wsRoom] \/ BeingReported(wsRoom)

\* An update loop is launched once: a panicked one does not come back.
LaunchedOnce == \A i \in Rooms : tick[i] # "none" => stage[i] \in {"launched", "created"}

\* A room that has been left alone for so long is empty, but for a user whose join
\* has not stored its time yet; if its update loop has panicked it need not be.
ExpiredAlone ==
    \A i \in Rooms : expired[i] => tick[i] = "panicked" \/ sockets[i] \subseteq Attaching(i)

\* What the cleanup has seen of the room that it is about to stop.
SettledNone == settled # {} => condemned \in Rooms /\ tick[condemned] = "panicked"

LifecycleInv ==
    /\ TypeOK /\ BeginsQuiet /\ LosersReported /\ JoinersReported
    /\ LaunchedOnce /\ ExpiredAlone /\ SettledNone

\* The cleanup stops a room only over latecomers: whoever was in the room when it
\* looked, and had counted as an interaction, is not in it when it stops, unless its
\* update loop has panicked.  Joins go on between its two steps and between the two
\* steps in which they enter, and are left in a room that is stopped.
StopsOnlyOverLatecomers ==
    [][\A i \in Rooms : alive[i] /\ ~alive'[i] =>
            tick[i] = "panicked" \/ sockets[i] \cap settled = {}]_vars

\* All tasks of a stopped room come to an end: the update loop, the networking
\* and the VM thread.  (The forwarder does not.)
TasksEnd ==
    \A i \in Rooms :
        ~alive[i] ~> /\ tick[i] \in {"ended", "panicked"}
                     /\ net[i] \in {"ended", "panicked"}
                     /\ vm[i] \in {"none", "ended", "panicked"}

\* A stopped room is removed and dropped, with its thread joined, as long as the
\* cleanup has not panicked over the thread of another room.
StoppedIsDropped == \A i \in Rooms : ~alive[i] ~> (dropped[i] = "done" \/ cleanPC = "dead")

\* An expired room that nobody joins is stopped, unless the cleanup has panicked.
ExpiredIsStopped == \A i \in Rooms : expired[i] ~> (~alive[i] \/ ~expired[i] \/ cleanPC = "dead")

\* The program of a room hears of everybody who joins, if the room stays awake
\* and the program runs: events wait while the room sleeps.
ProgramHears ==
    \A i \in Rooms, u \in Users :
        <>[](alive[i] /\ ~hibernating[i] /\ vm[i] \in {"running", "stepping"})
            => (u \in inbox[i] ~> u \in heard[i])

=============================================================================
