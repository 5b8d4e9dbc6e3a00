# Models of roboscapesim-rs

RoboScape Online simulates robots in shared rooms. A game server
(`roboscapesim-server`) hosts the rooms: each has a physics simulation, robots
that users may claim, services that NetsBlox programs call, and the WebSocket
connections of its users. An API server (`roboscapesim-api`) keeps the list of
game servers and of their rooms and sends requests for new rooms to one of the
servers. The web client (`roboscapesim-client`) asks the API server for a room
and then talks to the game server that hosts it.

This directory holds TLA+ modules of that system, their TLC configurations and
proofs for TLAPS. `PROJECT.json` maps every definition to the lines it models
and lists runs, mutants, findings, hazards and theorems.

    tlc -workers 2 -config MCRoomSession.cfg MCRoomSession
    tlapm RoomSessionProofs.tla

## Inventory

Paths are relative to `src/`; S stands for `roboscapesim-server/src`.

| Component | State | Operations | Works with | What makes it correct |
|---|---|---|---|---|
| Clients of a room (`S/room/clients.rs`, `management.rs`) | `sockets`: user -> peer ids; `CLIENTS` | join, prune, broadcast, read messages | ws_rx and room task share `sockets` | no entry without peers, no `unwrap` without its entry, closed connections go |
| Hibernation (`S/room.rs`, `room/metadata.rs`) | `hibernating`, `last_interaction_time` | timeout, kick, wake | join, API listing | everybody sent away is told; an empty room sleeps, a joined one wakes |
| Claims (`S/room.rs`, `room/messages.rs`) | `claimed_by` per robot | claim, unclaim, expire, authorize | clients, prune | one owner at a time, owners are in the room, clients know the owner |
| Connections (`S/socket.rs`) | `CLIENTS`, queues per client | ws_accept, ws_rx, ws_tx | rooms | messages served in order, states not lost |
| Room life cycle (`S/room/management.rs`, `main.rs`) | `ROOMS`, `is_alive` | create, expire, remove | join, announce | nobody joins a dead room, tasks of a dead room end |
| Directory (`roboscapesim-api/src/main.rs`, `S/api.rs`) | `SERVERS`, `ROOMS` | announce, report, create, clean up | game servers over HTTP | live servers and rooms are listed, dead ones are not; new rooms go where there is room |
| Entities (`S/services/world*`, `room/objects.rs`, `simulation.rs`) | `objects`, `robots`, labels, bodies, `services`, `sensors` | add, remove, remove all, sensors | all services, simulation | the maps agree, limits hold, ids are fresh |
| Services (`S/services/*`) | id and body of an entity each | requests, events, `update` | room task, networking task | what they refer to exists |
| Networking task (`S/room.rs:552`) | a walk over `services` | poll, forward | IoTScape server, room task | requests reach the room while it lives |
| Program (`S/room/vm.rs`) | VM thread | start, step, stop | queues to and from the room | ends with the room, hears of every joiner |
| Triggers (`S/room.rs:242`) | who is inside | enter and exit events | simulation, removal | enter and exit alternate |
| Robot (`S/robot/*`) | motor state, rate limit | drive, speed, ticks, reset | NetsBlox messages | a driven distance is right and ends, a reset stops, commands get through |
| Update stream (`S/room/clients.rs:63-118`, `socket.rs:149`) | `updated` flags, queues | full and incremental states, removals | web client | a client never goes back in time and ends up showing the room |
| Web client (`roboscapesim-client/src`) | `in_room`, `WEBSOCKET`, game, models | connect, join, updates, clean up | API and game server | shows the room of its current WebSocket, leaves the others |
| Scenarios, definitions, parsing, preflight, test client | none that changes | | | |

Hard to get right here: two tasks that share `sockets` without a lock across
steps; maps that must agree about an entity; announcements that are lost, late
or reordered; servers that crash and come back; values read before an `await`;
rooms that sleep, wake and time out, are stopped and dropped while users join;
states that a queue drops or merges; close handlers and meshes that arrive when
the next room is already on screen. The hazards in `PROJECT.json` name the
lines.

## Modules

### RoomSession, RobotOwnership

`RoomSession` is one room with its connections. `users`/`peers` are the keys and
sets of `clients_manager.sockets`, `conn[c] = "open"` means that the peer is in
`CLIENTS`, `rx` is the queue filled by ws_rx. The ws_rx task (`wsPC`) runs
`join_room` step by step, the room task (`roomPC`) runs a tick step by step:
timeout test, kick, prune, messages, resets, robots, hibernation test. Every
access to a shared map is an action, in the order of the code, so that joins
interleave with pruning, kicking and claims in every way the two tasks allow.
`session` and `view` are what the messages queued for a client tell it.

A broadcast of one claim is one step with the change of the claim: the code
holds the robot's lock across both, and a join reports a robot under the same
lock. The Hibernating notice holds no such lock and is sent user by user. The
robots of a room are a fixed set here; `EntityWorld` adds and removes them. One
connection joins once, under the user whose page opened it, as the web client
does. Refused joins (no such room, wrong password) change nothing and are left
out; `visitors`, announcements and events to the program are in `RoomLifecycle`. `idle` counts
time since `last_interaction_time` up to `Timeout + 1`: the code only asks
whether the timeout has passed. An authorized `EncryptRobot` may panic the room's
task (`EncryptPanics`): its liveness is checked of rooms whose task goes on.

`RobotOwnership` is what users are promised about the owners of robots. It keeps
who is in the room and what each connection has asked for. A free robot is taken
only on the request of a connection, for the user of that connection, who has to be in the
room (`Claim`); a robot is given up only on the request of a connection of its owner
(`Release`), and is taken away only from an owner who has left (`Expire`). A
request serves once, after those the same connection made before it. `RoomSession`
implements it (`ImplementsOwnership`), with `owner <- claimedBy`,
`present <- users` and `asked <- inbox`.

### RoomDirectory

The API server's `SERVERS` and `ROOMS`, with the game servers and the network
around them. `wire` holds requests on their way; `Lose` drops one,
`LoseOrder` an order for a room, and since `wire` is a set requests arrive in any
order. A `Report` carries the state it was built from, so a late one is stale. A
server has two addresses, as in the code: `Http(s)` under which it announces
itself and `Ws(s)` which its rooms carry. `Age` turns a server `stale` after 360
seconds; the cleanup (`cleanPC`) collects stale servers, asks each for its
status, and removes the silent ones and then their rooms, in steps of their own.
`PickServers` ... `Grant` are `post_create`, with the count of active rooms and
the choice from it apart. A health check has one step, in which the server
answers or not; what happens meanwhile happens before it. A server that cannot be
reached is removed (`ForwardFails`), one whose answer cannot be read is kept
(`AnswerUnreadable`). `CreateRoom` may draw an id that is in use on the
same server and then replaces the room, as `ROOMS.insert` does. Caller errors and the environment list are
left out.

### EntityWorld

What a room contains. An entity is known to several maps: `objects`, `labels`,
`bodies` of the simulation, `robots`, `services`, `sensors`. A robot has two
names, `Mac(m)` in `robots` and `Chassis(m)` in the others. The room task runs
one operation after the other, so each is one action; the networking task
(`netPC`) walks over `services` at its own pace. Where the code unwraps, the
action sets `failed` to the place and the room task stops; the networking
task's own panic is `netPC = "dead"`. `Removals` is the set of ids that users
pass to `removeEntity`: the ids that the add functions return, or also the ones
`listEntities` shows.

Taken from outside the code: removing the chassis of a robot removes its
multibody joints (rapier3d), two robots never draw one mac, and the server is
built in release mode (`Dockerfile-server`), where unsigned subtraction wraps.

### RoomLifecycle

The rooms of a game server from `create_room` to the moment `RoomData` is
dropped. Each room has an update loop (`tick`), a networking task (`net`) and
either a VM thread (`vm`) or, in edit mode, a forwarder; they look at `is_alive`
on their own. `Creating` and `AnnounceCreated` are `create_room` and the request
that asked for it. ws_rx runs one join at a time (`wsPC`) and holds the lock on
the room from `GetRoom` to `TellProgram`, which `RemoveRoom` waits for
(`HoldsRoom`): `Attach` puts the user into `sockets`, `Enter` stores the time of
the interaction after that. The cleanup loop (`cleanPC`) reads the time of each listed
room (`LookAt`), then stores `is_alive` (`StopRoom`), and later removes what it found
(`RemoveRoom`), in steps of their own; for the first two it holds the room to read
only, as a join does, so that joins run between them. A room is freed
when neither `ROOMS` nor its update loop has it any more; whoever gives up the
last reference (`DropBy`) then joins its VM thread. A turn of the update loop may
panic (`TickPanics`); a second panic, of the drop of the room while the first unwinds,
would abort the server and is left out. An announcement
(`announcing`) reads the time and the last announcement, exchanges it, and
collects the visitors, in three steps, and a join, a tick and a creation may each
be at one of them. `reported`, `heard` and `settled` are history: whom announcements and
the program were told of, and who was in the room, with the time of the join stored,
when the cleanup looked at it.

`TickTurn` keeps of a tick only what this module needs: who is sent away or
pruned (`away`, any users), sleep or waking, robots and resets that count as interactions,
and the announcement; `RoomSession`
has it in detail. `expired` stands for nine hours without interaction: it becomes
true in a room that has sent everybody away and sleeps, also while a join that has
not yet stored its time is waking it, and at any time in one whose update loop has panicked.
The announcement of its creation and that of the last join, which take seconds, are over by then. The ids of rooms differ here;
`RoomDirectory` has equal ones.

### UpdateStream, RoomView

One room with one object and its clients, from `RoomData::update` to the screen.
`rx1[c]` is the queue that ws_tx reads, `client[c]` what `Game` keeps. `Tick` sends a full
state a minute or after an addition, else those objects whose `updated` flag is
set (`Incremental`, `SentTo`). A join enters `sockets`, takes the state
(`Collect`) and sends it (`Greet`), with ticks and removals in between. When the room
times out, the notice to its clients (`Kick`) and `sockets.clear()` (`ClearSockets`) are
two steps, between which clients may come. `Transmit`
is a turn of ws_tx: it drains the queue, drops all states but the ones that `Kept`
names, and feeds them in order to a sink that may refuse any of them. The client
handles messages (`Handle`), and loads a mesh in a task of its own (`MeshLoaded`,
`MeshFails`).

Objects share nothing but messages, so one of each look (a shape, a mesh) is
enough. A full state that comes while a mesh loads begins another load of it; loads
are not counted, only whether there may be one. The state of a message is collected in one step. The network delivers in
order, so its delay is that of the queue. Names are not used again. Interpolation
and the robot menu are left out.

`RoomView` is the promise: what a client shows of an object is a past state of
the room, and never goes back. `UpdateStream` implements it (`ShowsThePast`).

### ClientSession

The web client between its dialogs and the game server. A flow is a call of
`new_room` or `join_room`, of which two may overlap: asking the API server,
`connect`, the wait for the WebSocket, `JoinRoom`. Between two awaits the browser
runs nothing else, so each such piece is one action (`Connect`, `Enter`). A mesh
arrives or fails to load (`MeshFails`), and the next full state asks for it again.
`websocket` is `WEBSOCKET`, `inRoom` is `in_room`, which nothing ever resets.
`OnClose` is the close handler of any WebSocket. The server's end is small:
ws_rx reads joins and close frames, rooms send states, time out and prune.
`holds` records what the client keeps, and from which WebSocket and room it came.

### RobotDrive

One robot: the messages it reads, one per update, the rate limit
(`TooSoon`, `Rejects`, `Accepts`), its motors (`Roll`: one update of
`update_wheel_state` for both wheels) and `reset`. Distances, speeds and the
speed scale are small integers with the signs and zeros that matter; `ahead`,
`pace` and `order` record what the wheels have done for the last command. Time
between updates varies. `Panics` is the `unwrap` of a failing echo, and of the
elapsed time when the system clock was set back; it ends the task of the room.
Ticks, whiskers, heartbeats and messages that change nothing are left out.

## Runs

| Run | Instance | Shows |
|---|---|---|
| `room` | 2 users, 3 connections (two of one user), 1 robot, claims and unclaims, timeout 0, queue 1 | `ViewsAgree`, `ClaimantsPresent`, `NoGhostUser`, `PruneFindsEntry` |
| `room_mixed` | 2 connections, 2 robots of which one is claimable, all messages, timeout 1, the room task may panic over `EncryptRobot` | `RoomInv` (types and the rest of the inductive invariant) and `ImplementsOwnership` |
| `room_live` | 2 connections, 1 robot, fair tasks | closed connections are pruned, empty rooms sleep, joined rooms wake, claims of absent users expire, messages are served |
| `room_join_race` | 3 connections, timeout 1 | finding: a join panics when its entry is pruned |
| `directory` | 1 server, 1 room, 1 caller, 4 requests on the wire, fair | `DirectoryInv`, `LiveServerListed`, `DeadServerForgotten`, `RoomsCatchUp` |
| `directory_reset` | 2 servers, 2 rooms | finding: rooms are never purged |
| `world` | 2 robots, 2 numbers, limits of 1 movable, 1 kinematic, 2 robots | `WorldInv`, `MapsAgree`, `DynamicWithinLimit` |
| `world_listed` | 1 robot | finding: a robot's two ids |
| `lifecycle` | 1 room (in edit mode or not), 1 user, a clock of one announcement interval, fair tasks | `LifecycleInv`, joiners are reported (`JoinersReported`), rooms stop only over users who came after the cleanup looked (`StopsOnlyOverLatecomers`), tasks end, stopped rooms are dropped, expired ones stopped, the program hears of joiners |
| `stream` | 1 object of any look, 1 client, a queue of 3, fair | `StreamInv` (types, the rest of the inductive invariant and `SentInOrder`), `RemovedLeaveScreen`, `ShowsThePast` (refines `RoomView`), `ClientsCatchUp` |
| `client` | 2 flows, 2 WebSockets, 2 rooms, 3 messages on their way, fair | `SessionInv` (types; a WebSocket is silent until it is the current one), `HoldsOnlyCurrent`, `ShowsRoom`, `SwitchingLeaves`, `FlowsEnd` |
| `drive` | 2 wheels, distances -1, 0, 2, speeds -2, 0, scales -1, 0, 2, 1 message waiting, fair | `DriveAccurate`, `ResetStops`, `DriveEnds`, `CommandsGetThrough`, types |

Why the bounds are enough. `room`: the races need one user with two
connections, one leaving while the other joins, and another user whose claim is
at stake; timeout 0 lets the room time out at any tick. A queue of one message
still lets messages of several clients meet in one tick; that several requests of one
connection are served in their order is part of `RobotOwnership` and proved for queues
of any length. `directory`: the
addresses of two servers never mix in one entry, so one server shows what
happens to its rooms; four requests let the announcement of a start, a later one,
an old report and a new report overtake each other. The proofs cover any number
of servers; the run that shows a finding has two.
`world`: each limit can be reached and passed, a number can be taken and
refused, and a robot can be removed while another stays. `world` removes robots
under the ids the add functions return; `WorldInv` is proved for every id.
`lifecycle`: one room meets every order of its own tasks, its announcements, a
join and the cleanup; what two rooms share is ws_rx and the cleanup, which
have died or not; `LifecycleInv` is proved for any number of rooms, users and
times. `stream`: a queue of three holds an incremental state, a full one and a
removal in every order; `RefinesRoomView` and `RemovedAlwaysLeaveScreen` hold for
any number of objects, clients and messages. `client`: two flows are the least that overlap, two
WebSockets the least where one replaces another. `drive`: a wheel may overshoot,
stand still, turn the other way, or have a command replaced before its end; the
proofs cover any distances, speeds, scales and times.
`MaxRx`, `MaxWire`, `MaxId`, `MaxTime`, `MaxDown`, `MaxQueue` and `Far` bound
what the code leaves unbounded.

Deadlock is not checked where the system may really stop: in the run `room_mixed` once
the room's task has panicked and all connections are closed, in `EntityWorld` once
both the room task and the networking task have panicked, in `RoomLifecycle` once
ws_rx and the cleanup have, in `RobotDrive` once the room's task has, and in
`ClientSession` when the WebSockets are used up or nobody asks for a room again.

## Fairness

`RoomSession`: `WF` of the room task (a timer loop in a tokio task of its own)
and of a join that has begun (ws_rx does not wait inside `join_room`). Nobody
must connect, leave or send anything. (Without `EncryptRobot` among the inputs, as
in `room_live`, the room's task does not panic.) `RoomDirectory`: `WF` of the cleanup loop,
of time passing, and of each request leaving the wire, lost or received; `WF`
of the announcements of a server that is up (a loop every five minutes) and of
its rooms (at most every thirty seconds, from every tick); `SF` of receiving one of a
server's announcements and of a room's reports: the network does not lose all of
them for ever. `EntityWorld` has no liveness properties.
`RoomLifecycle`: `WF` of each task and thread and of a join that has begun; `SF`
of `RemoveRoom`, since the lock it waits for is fair. `UpdateStream`: `WF` of the
tick, the minute, clearing `sockets` after a notice, the hibernation test, a join and
ws_tx; `SF` of a full delivery
(the sink does not refuse a full state for ever) and of loading a mesh.
`ClientSession`: `WF` of flows, of WebSockets that connect or close, of reading on
both ends, of loads of meshes, which arrive or fail, and pruning; `SF` of sending a state,
which the bound of the queue may hold up, and of a mesh arriving: loading does not
fail for ever. `RobotDrive`: `WF` of an update that takes time, since the
update loop runs on a 60 Hz timer.

## Proofs

Each `...Proofs` module holds for any values of the constants that satisfy the
`ASSUME`s of its module.

- `RoomSessionProofs`: `TypeCorrect`, then `RoomInvariant`. `ViewsAgree`,
  `ClaimantsPresent`, `NoGhostUser` and `PruneFindsEntry` are not inductive:
  `ClaimantsPresent` needs to know which robots the tick has visited
  (`VisitedRobots`), that messages being handled are of users present
  (`HandledPresent`) and that a kick happens in a sleeping room
  (`NotifyAsleep`); the others need which connection a join is adding and what
  the prune has still to remove. `RoomInv` is their conjunction. The four
  theorems on single properties follow. `RoomImplementsOwnership` maps each step
  to a step of `RobotOwnership` or a stutter; only `UpdateRobot` (`Expire`), `Handle`
  (`Claim`, `Release`, `PassOver`), `GetMessages` (`Ask`) and the steps on `sockets` are
  no stutter. That messages being handled are of users present is used here too.
- `RoomDirectoryProofs`: `DirectoryInvariant`. `RoomsUnderWs` says that listed
  and reported rooms carry addresses for clients while known, suspected and
  removed servers carry addresses for the API. From it follows the finding of
  `directory_reset` in general: no purge ever takes a room off the list
  (`PurgesRemoveNothing`), neither that of a server that was reset nor that of one
  that was removed, though the comments say that both do.
- `EntityWorldProofs`: `WorldInvariant`, with no assumption on what users remove.
  `NoPanicOverMaps` and `DynamicLimitKept` assume that no robot is removed
  under its chassis' name; then every robot in `robots` is an object
  (`RobotsListed`), chassis are never kinematic and objects are finite
  (`Countable`), so `Cardinality(Movable) - Cardinality(robots)` counts exactly
  the movable shapes (`CountingShapes`). The run `world_listed` shows that the
  assumption is needed.
- `RoomLifecycleProofs`: `TypeCorrect`, then `LifecycleInvariant`.
  `JoinersReported` is not inductive: a join that loses the exchange of the time
  skips its own report. `LosersReported` says that by then the winner has
  reported, or is about to report, the joiner, because a changed time means that
  somebody exchanged it after the join read it, and the visitors are collected
  after the exchange. `BeginsQuiet` (an announcement begins only when the last
  of its kind is over) keeps reports from being forgotten. `JoinersAlwaysReported`
  follows. `OnlyLatecomersAreStopped` says over whom the cleanup may stop a room: users who
  attached after it looked, or whose join had not stored its time when it looked, and anybody whose room's update
  loop has panicked; nobody else. It rests on `ExpiredAlone` (in an expired room there is
  only a user whose join has not stored its time yet, or the loop has panicked),
  `SettledNone` (so the cleanup, when it decided, has seen nobody who had settled) and
  `LaunchedOnce` (a panicked loop stays so until the room is stopped).
- `ClientSessionProofs`: `SessionInvariant`. `HoldsOnlyCurrent` needs to know that
  no WebSocket but the current one has anything to deliver. Overlapping flows may
  leave others open, but these never join: JoinRoom is sent over the current one
  in the turn that sets `in_room`, and once that is set `connect` closes the
  current one before it opens the next (`SilentUntilCurrent`, `FlowsKnow`).

- `RobotDriveProofs`: `TypeCorrect` and `ResetAlwaysStops`, then
  `DriveAlwaysAccurate`. `DriveAccurate` speaks of a drive that is over;
  `DriveInv` says what it comes from: a wheel that turns is ahead by what it
  covers in some update less what is left, and has that in front of it; one that
  stopped is within one update of where it was told to go. `Reached` compares
  what is left with the next update, so the two differ by one update of another
  length. `DriveAlwaysGetsOn` is the ranking argument for `DriveEnds`: as long as
  the last command is a drive of a robot not scaled backwards, wheels turn towards
  its end (`TurnInv`), and each
  update without a command takes each of them nearer by at least what it covers
  in the shortest update, or to the end; with the last wheel the drive is over.
  Assumed of the constants: speeds, scales and distances are integers, no
  distance is beyond `Far`, an update takes some time.
- `UpdateStreamProofs`: `TypeCorrect`, `RefinesRoomView` (`ShowsThePast`, every
  step), `StreamInvariant`, `AlwaysSentInOrder`, `AlwaysShowsWhatIsFed` and
  `RemovedAlwaysLeaveScreen`. One step handles a
  batch of any length (`HandleAll`), so each invariant needs an induction over the
  queue. The library's induction theorems take an operator as a parameter; here it
  goes by the least counterexample instead: from the well-foundedness of `<`
  follows `NatSteps`, from it that the screens between the messages exist
  (`ScreensExist`), that `HandleAll` is the last of them (`HandleAllIs`), and that
  what each message keeps a batch keeps (`HandleAllStays`, on an indexed family of
  sets). The inductive invariant `Inv`: what is queued, collected for a join or
  shown is a past of the room (`PastInv`, with `PlaceInv`); the first state comes
  once, to a client that has none (`JoinInv`), since it replaces everything; what
  waits for a greeted client is not older than what it shows (`OrderInv`); and a
  removal is of something that is not in the room (`RemovalInv`), or a late one
  would take away an object's state and let an old one in. `RoomView` sees only the screen
  after a batch; `SentInOrder` says that none of the messages within it goes back
  either; with `Inv` it is the invariant `StreamInv` of the run. From it `FedIsShown`, the safety part of `ClientsCatchUp`: what a state
  tells of an object is on the screen after its batch, or something newer is, if
  the WebSocket took it and nothing later in the batch removes the object.
  Incremental states that are left out may lose a place, so only a full state makes a
  client show all of the room. `GoneInv` strengthens `RemovedLeaveScreen`: after the removal nothing in
  the queue tells of the object, so nothing brings it back. Assumed: objects have
  at least one place, nobody is not a client.

Only model-checked: the liveness properties (fairness and ENABLED are out of
TLAPS' reach; of `DriveEnds` the ranking argument is proved, of `ClientsCatchUp`
what a step does) and what the violation
runs show, which holds of one behaviour and needs no proof. Every invariant and
every refinement that a passing run checks is proved.

## Findings

Every violation run is one: its property states what a comment, an
assertion (`unwrap`) or a test of the code says, and TLC shows a behaviour of the code
against it. `PROJECT.json` quotes the lines. In short:

- a join may panic the server's only ws_rx task when the room prunes the user's
  empty entry in between (`room_join_race`);
- the directory never purges rooms (`directory_reset`);
- removing a robot under the id that `listEntities` shows panics the room at its
  next update (`world_listed`).

Seen in the models and not given a run of their own:

- `RoomSession`: the Hibernating notice (`S/room.rs:508`) and `sockets.clear()` are
  two steps: a client attached in between is dropped without being told, although
  the comment says "Kick all users out", and one attached before its RoomInfo is
  sent is told that it is in the room after it was kicked; a prune that finds the set
  of a user empty removes the key after a join has attached a connection to it
  (`S/room/clients.rs:156`), and that connection gets no updates though it was told that
  it is in the room; an authorized `EncryptRobot` whose message cannot be sent panics
  the room's task (`S/room/messages.rs:130`);
- `RoomDirectory`: `roboscapesim-api/src/main.rs:81` says "Clean up servers not
  updated in 6 minutes", but `last_update` is read before health checks are
  awaited: a server that announces itself meanwhile is forgotten for five minutes;
- `EntityWorld`: `removeAllEntities` drops services while the networking task walks
  over the keys it has collected; the `unwrap` at `S/room.rs:568` then panics
  (`netPC = "dead"`) and no request from the network reaches the room again;
- `RoomLifecycle`: `VMManager::drop` unwraps the result of joining its thread
  (`S/room/vm.rs:187`): if a project could not be parsed, or a request was sent when
  nobody could receive it, the cleanup loop may panic over it and no room is ever
  removed again; the second look-up of a join (`S/room/management.rs:23`) panics
  ws_rx if the room was removed since the first; a user who attaches after the cleanup
  has read the time (`S/main.rs:104`), be it before `is_alive` is stored (`:106`) or
  before the room is removed, or who is between `S/room/management.rs:40` and `:41` when it is
  read, is left in a room that has stopped; after a panic of the update loop nobody is
  sent away any more, so the room is stopped after nine hours with users in it; the
  forwarder of an edit-mode room never ends, and drops the event of a join
  into a sleeping room;
- `UpdateStream`: of several incremental states ws_tx keeps the newest although
  each holds only what changed (`modified since last send`,
  `roboscapesim-common/src/lib.rs:192`), so an object stays in an old place until the
  next full state; an object removed between `Collect` and `Greet`, or before its
  mesh is loaded, stays on screen; a removal while a mesh is being loaded panics
  (`roboscapesim-client/src/lib.rs:311` holds the borrow across the await) and is
  lost; `RemoveAll` leaves objects without a mesh in `state`;
- `ClientSession`: the late close handler of an old WebSocket wipes the info and
  the claims of the new room, which are sent only once; `connect` closes the old
  connection (`roboscapesim-client/src/lib.rs:442` "Disconnect if already
  connected") only when `in_room` is set, so two dialogs answered at once leak a
  WebSocket and may join two rooms over one; a mesh of the room that was left
  arrives in the new one; a connection that ends without a close frame stays in
  its room until the timeout; a message sent while connecting panics (`lib.rs:110`);
- `RobotDrive`: with a negative speed scale a driven distance never ends, which is
  why `DriveEnds` excepts it; ticks are scaled twice (`S/robot/motor.rs:68`); polls
  that arrive more often than the spacing starve commands, since each is counted
  as a message; datagrams sent before a reset are obeyed after it; a clock set back
  or a failing echo panics the room's task (`S/robot/messages.rs:75`, `:109`);
- a claim whose owner has left still refuses others until `update_robots` runs,
  although `S/room.rs:375` says that the claimant's presence is checked;
- rooms are counted under their `wss://` address and servers are chosen by their
  `https://` one, so the "fewest active rooms" of
  `roboscapesim-api/src/main.rs:225` is a random choice, and with no server known
  a call goes to a listed room's address (`Candidates`);
- an entity service outlives its robot, and placing the robot then panics the
  room (`S/services/entity.rs:40`): `MapsAgree` excepts this one `unwrap`;
- removing an entity under the chassis id of a robot leaves the robot in `robots`, so
  until the next update panics over it the count of `S/room.rs:452` is one too low, or
  wraps around (`DynamicWithinLimit` is checked without such removals);
- `visualOnly` entities are let in as movable and counted as kinematic, so their
  number has no limit (`AddEntity`, `S/services/world.rs:219`).

## Plan

Done: 1. RoomSession with RobotOwnership and proofs. 2. RoomDirectory with
proofs. 3. EntityWorld with proofs. 4. RoomLifecycle with proofs.
5. UpdateStream with RoomView. 6. ClientSession with proofs. 7. RobotDrive.
8. Proofs about `RobotDrive`. 9. Proofs about `UpdateStream` and its refinement of
`RoomView`. In this order next:

10. Ranking arguments, as in `DriveAlwaysGetsOn`, for other liveness properties:
    what a prune or a wait for a claim has still to do, how far a task of a dead
    room is from its end.

## Not modelled

Motion and geometry (real arithmetic in rapier3d), and with them the events of
triggers, proximity sensors and waypoints, which are decided by contacts the
physics engine finds; a model would have to invent them. Ticks, whiskers and
heartbeats of a robot. Rendering, interpolation, and the dialogs of the web client
beyond those that start a session. Parsing of options, tables of service
definitions, the cache of scenarios filled at start-up, the listings of rooms and
environments, which only read. The NetsBlox interpreter, rapier3d and the
NetsBlox server are external. The preflight page and the test client are no part
of the running system. Tracing, metrics and the wording of messages.
