----------------------------- MODULE RobotDrive -----------------------------
(***************************************************************************)
(* One robot of an awake room: the messages the NetsBlox server sends it,  *)
(* one of which is read in each update of the room, their rate limit       *)
(* (robot/messages.rs), its motors (robot/motor.rs), the wheels of the     *)
(* simulation (robot/physics.rs) and resets (robot.rs).                    *)
(* A unit of distance is what a wheel of a robot of speed 1 covers in a    *)
(* unit of time when it drives a distance; the signs of speeds, negated    *)
(* twice in the code, are those of the distances they cover.               *)
(***************************************************************************)
EXTENDS Integers, FiniteSets, Sequences

CONSTANTS Wheels,     \* left and right
          Distances,  \* distances in Drive messages
          Speeds,     \* speeds in SetSpeed messages
          MinI16,     \* the least of the integers that these speeds are
          Scales,     \* speed_scale that robots are made with
          MinDt, MaxDt, \* delta_time is clamped to these
          MaxElapsed, \* bound: time between two updates
          Spacing,    \* min_message_spacing
          Far,        \* bound: distances are not counted any further
          MaxQueue    \* bound: datagrams in the socket of the robot

ASSUME DataAssumption ==
    Speeds \subseteq Int /\ MinI16 \in Int /\ Scales \subseteq Int
ASSUME TimeAssumption ==
    /\ MinDt \in Nat \ {0} /\ MaxDt \in Nat /\ MinDt <= MaxDt
    /\ MaxElapsed \in Nat /\ Spacing \in Nat
ASSUME BoundAssumption == Far \in Nat /\ Distances \subseteq -Far .. Far /\ MaxQueue \in Nat

VARIABLES
    drive,     \* drive_state: "speed" or "distance"
    speed,     \* speed_l and speed_r
    distance,  \* distance_l and distance_r: what is left of a drive
    scale,     \* speed_scale
    socket,    \* datagrams not yet read
    age,       \* time since last_message_time; negative if the clock was set back
    task,      \* "running", or "panicked": the room is updated no more
    ahead,     \* history: how much further each wheel has turned than it was told
    pace,      \* history: the speed of each wheel, unsigned, when that began
    order,     \* history: the last command handled since the robot was reset
    served     \* history: the last update handled a message subject to the limit

motorVars == <<drive, speed, distance, scale>>
historyVars == <<ahead, pace, order, served>>
vars == <<motorVars, socket, age, task, historyVars>>

-----------------------------------------------------------------------------
(* Messages.                                                               *)

Drive(d) == [kind |-> "drive", by |-> d]
SetSpeed(s) == [kind |-> "setSpeed", by |-> s]
Beep == [kind |-> "beep", by |-> [w \in Wheels |-> 0]]
GetRange == [kind |-> "getRange", by |-> [w \in Wheels |-> 0]]

Messages ==
    {Drive(d) : d \in [Wheels -> Distances]} \cup {SetSpeed(s) : s \in [Wheels -> Speeds]}
    \cup {Beep, GetRange}

\* Sensors can be polled without limit.
RequiresTimingCheck(m) == m.kind # "getRange"

TooSoon(m, sinceLast) == RequiresTimingCheck(m) /\ sinceLast < Spacing

-----------------------------------------------------------------------------
(* Arithmetic.                                                             *)

Magnitude(x) == IF x < 0 THEN -x ELSE x
Signum(x) == IF x < 0 THEN -1 ELSE IF x = 0 THEN 0 ELSE 1
Clamp(x, low, high) == IF x < low THEN low ELSE IF x > high THEN high ELSE x
Counted(x) == Clamp(x, -Far, Far)
Older(t, elapsed) == Clamp(t + elapsed, -1, Spacing)

-----------------------------------------------------------------------------
(* The motors: update_wheel_state.                                         *)

\* (Variant: the wheel stops only when there is nothing left.)
ReachedExactly(w, dt) == distance[w] = 0

\* A wheel stops when less is left than it would cover in this update.
Reached(w, dt) == Magnitude(distance[w]) < Magnitude(speed[w] * dt)

\* Speeds, what is left and drive_state after update_wheel_state.
SpeedAfter(dt) ==
    [w \in Wheels |-> IF drive = "distance" /\ Reached(w, dt) THEN 0 ELSE speed[w]]

DistanceAfter(dt) ==
    [w \in Wheels |-> IF drive = "distance" /\ ~Reached(w, dt)
                      THEN Counted(distance[w] - speed[w] * dt) ELSE distance[w]]

DriveAfter(dt) ==
    IF drive = "distance" /\ \A w \in Wheels : SpeedAfter(dt)[w] = 0 THEN "speed" ELSE drive

-----------------------------------------------------------------------------
(* What a message does to the motors: process_drive_message and            *)
(* process_set_speed_message.                                              *)

\* A wheel that is told to drive 0 keeps its speed until the next update.
DriveSpeed(w, d, before) == IF d[w] = 0 THEN before[w] ELSE Signum(d[w]) * scale

\* Speeds are negated as 16-bit integers, where the least one has no opposite:
\* it stays as it is (and panics in a build that checks for overflows).
Negated(s) == IF s = MinI16 THEN s ELSE -s

\* (Variant: the wheels of a robot that is driving keep their distances.)
HandleDriveAdds(d, dt) ==
    /\ drive' = "distance"
    /\ distance' = [w \in Wheels |-> Counted(d[w] + IF drive = "distance" THEN DistanceAfter(dt)[w] ELSE 0)]
    /\ speed' = [w \in Wheels |-> DriveSpeed(w, d, SpeedAfter(dt))]
    /\ ahead' = [w \in Wheels |-> Counted(speed'[w] * dt - d[w])]
    /\ pace' = [w \in Wheels |-> Magnitude(speed'[w])]
    /\ order' = "drive"

HandleDrive(d, dt) ==
    /\ drive' = "distance"
    /\ distance' = d
    /\ speed' = [w \in Wheels |-> DriveSpeed(w, d, SpeedAfter(dt))]
    /\ ahead' = [w \in Wheels |-> Counted(speed'[w] * dt - d[w])]
    /\ pace' = [w \in Wheels |-> Magnitude(speed'[w])]
    /\ order' = "drive"

HandleSetSpeed(s, dt) ==
    /\ drive' = "speed"
    /\ distance' = DistanceAfter(dt)
    /\ speed' = [w \in Wheels |-> -Negated(s[w]) * scale]
    /\ ahead' = [w \in Wheels |-> 0]
    /\ pace' = [w \in Wheels |-> 0]
    /\ order' = "setSpeed"

\* No command for the motors.
Roll(dt) ==
    /\ drive' = DriveAfter(dt)
    /\ distance' = DistanceAfter(dt)
    /\ speed' = SpeedAfter(dt)
    /\ ahead' = [w \in Wheels |-> IF order = "drive" THEN Counted(ahead[w] + speed'[w] * dt) ELSE 0]
    /\ UNCHANGED <<pace, order>>

Handle(m, dt) ==
    CASE m.kind = "drive" -> HandleDrive(m.by, dt)
      [] m.kind = "setSpeed" -> HandleSetSpeed(m.by, dt)
      [] OTHER -> Roll(dt)

-----------------------------------------------------------------------------
(* The room's side.                                                        *)

\* The NetsBlox server sends a message; what UDP loses is as if never sent.
Arrives(m) ==
    /\ Len(socket) < MaxQueue
    /\ socket' = Append(socket, m)
    /\ UNCHANGED <<motorVars, age, task, historyVars>>

\* (Variant: a rejected message counts as the last one, too.)
RejectsAndCounts(elapsed, dt) ==
    /\ socket # <<>>
    /\ ~(RequiresTimingCheck(Head(socket)) /\ age + elapsed < 0)
    /\ TooSoon(Head(socket), Older(age, elapsed))
    /\ age' = 0
    /\ Roll(dt)
    /\ served' = FALSE
    /\ UNCHANGED <<scale, task>>

\* A message comes too soon after the last one that was handled: it is gone.
Rejects(elapsed, dt) ==
    /\ socket # <<>>
    /\ ~(RequiresTimingCheck(Head(socket)) /\ age + elapsed < 0)
    /\ TooSoon(Head(socket), Older(age, elapsed))
    /\ age' = Older(age, elapsed)
    /\ Roll(dt)
    /\ served' = FALSE
    /\ UNCHANGED <<scale, task>>

\* A message is handled and sent back.
Accepts(elapsed, dt) ==
    /\ socket # <<>>
    /\ ~TooSoon(Head(socket), Older(age, elapsed))
    /\ age' = 0
    /\ Handle(Head(socket), dt)
    /\ served' = RequiresTimingCheck(Head(socket))
    /\ UNCHANGED <<scale, task>>

\* The clock is behind last_message_time, or the message cannot be sent back:
\* the task of the room panics.  The wheels keep the speeds they had.
Panics(elapsed) ==
    /\ socket # <<>>
    /\ \/ RequiresTimingCheck(Head(socket)) /\ age + elapsed < 0
       \/ ~TooSoon(Head(socket), Older(age, elapsed))
    /\ task' = "panicked"
    /\ UNCHANGED <<motorVars, age, historyVars>>

NoMessage(elapsed, dt) ==
    /\ socket = <<>>
    /\ age' = Older(age, elapsed)
    /\ Roll(dt)
    /\ served' = FALSE
    /\ UNCHANGED <<scale, task>>

\* delta_time of an update.
DeltaTime(elapsed) == Clamp(elapsed, MinDt, MaxDt)

\* An update of the room: the motors, at most one message, then the simulation
\* turns the wheels.
Update(elapsed) ==
    /\ task = "running"
    /\ LET dt == DeltaTime(elapsed)
       IN  Rejects(elapsed, dt) \/ Accepts(elapsed, dt) \/ Panics(elapsed) \/ NoMessage(elapsed, dt)
    /\ socket' = IF socket = <<>> THEN <<>> ELSE Tail(socket)

\* (Variant: a reset leaves the motors running.)
ResetKeepsDrive ==
    /\ task = "running"
    /\ drive' = "speed"
    /\ scale' = 1
    /\ order' = "none"
    /\ ahead' = [w \in Wheels |-> 0] /\ pace' = [w \in Wheels |-> 0]
    /\ UNCHANGED <<speed, distance, socket, age, task, served>>

\* (Variant: a reset leaves drive_state as it is.)
ResetKeepsState ==
    /\ task = "running"
    /\ speed' = [w \in Wheels |-> 0]
    /\ distance' = [w \in Wheels |-> 0]
    /\ scale' = 1
    /\ order' = "none"
    /\ ahead' = [w \in Wheels |-> 0] /\ pace' = [w \in Wheels |-> 0]
    /\ UNCHANGED <<drive, socket, age, task, served>>

\* RobotMotorData::default: also the scale is that of other robots from then on;
\* messages that have not been read stay.
Reset ==
    /\ task = "running"
    /\ drive' = "speed"
    /\ speed' = [w \in Wheels |-> 0]
    /\ distance' = [w \in Wheels |-> 0]
    /\ scale' = 1
    /\ order' = "none"
    /\ ahead' = [w \in Wheels |-> 0] /\ pace' = [w \in Wheels |-> 0]
    /\ UNCHANGED <<socket, age, task, served>>

\* The system clock is set back.
ClockSetBack ==
    /\ age' = -1
    /\ age # -1
    /\ UNCHANGED <<motorVars, socket, task, historyVars>>

-----------------------------------------------------------------------------

Init ==
    /\ drive = "speed"
    /\ speed = [w \in Wheels |-> 0]
    /\ distance = [w \in Wheels |-> 0]
    /\ scale \in Scales
    /\ socket = <<>>
    /\ age = Spacing
    /\ task = "running"
    /\ ahead = [w \in Wheels |-> 0] /\ pace = [w \in Wheels |-> 0]
    /\ order = "none"
    /\ served = FALSE

Next ==
    \/ \E m \in Messages : Arrives(m)
    \/ \E elapsed \in 0 .. MaxElapsed : Update(elapsed)
    \/ Reset
    \/ ClockSetBack

Spec == Init /\ [][Next]_vars

\* The room stays awake and is updated again and again, with time in between.
Fairness == WF_vars(\E elapsed \in 1 .. MaxElapsed : Update(elapsed))

FairSpec == Spec /\ Fairness

-----------------------------------------------------------------------------
(* Properties.                                                             *)

\* The values the variables take, and that only a robot that was told to drives
\* a distance.
TypeOK ==
    /\ drive \in {"speed", "distance"}
    /\ speed \in [Wheels -> Int]
    /\ distance \in [Wheels -> -Far .. Far]
    /\ scale \in Scales \cup {1}
    /\ socket \in Seq(Messages) /\ Len(socket) <= MaxQueue
    /\ age \in -1 .. Spacing
    /\ task \in {"running", "panicked"}
    /\ ahead \in [Wheels -> -Far .. Far]
    /\ pace \in [Wheels -> Nat]
    /\ order \in {"none", "drive", "setSpeed"}
    /\ served \in BOOLEAN
    /\ drive = "distance" => order = "drive"

\* When a drive is over, each wheel has turned by the distance it was told, to
\* within what it covers in one update: the motors count the time of an update
\* before the simulation turns the wheels by it, delta_time varies, the wheels
\* stop one by one.  (For robots whose speed is not scaled to 0 or backwards.)
DriveAccurate ==
    order = "drive" /\ drive = "speed" /\ scale > 0
        => \A w \in Wheels : Magnitude(ahead[w]) <= pace[w] * MaxDt

\* A drive ends, however its distances and the times of the updates fit
\* together, unless another message or a panic comes in between.  (A robot whose
\* speed is scaled to a negative one drives away from its goal for ever.)
DriveEnds ==
    <>[](socket = <<>> /\ task = "running" /\ scale >= 0) => []<>(drive = "speed")

\* A reset ends what the robot was doing: until a command is read, the wheels
\* stand still, whatever else is received.
ResetStops == order = "none" => \A w \in Wheels : speed[w] = 0

\* Commands that keep coming, however fast, are obeyed again and again: those
\* that are rejected do not put off the next.  (Polls do, and a clock that is set
\* back again and again.)
CommandsGetThrough ==
    /\ []<>(socket # <<>>)
    /\ <>[](\A n \in DOMAIN socket : RequiresTimingCheck(socket[n]))
    /\ <>[](task = "running" /\ age >= 0)
    => []<>served

=============================================================================
