---------------------------- MODULE EntityWorld ----------------------------
(***************************************************************************)
(* What a room contains: the World service's operations on entities, as    *)
(* the room task runs them one after the other, over the maps that must    *)
(* agree about each entity (objects, robots, the labels and bodies of the  *)
(* simulation, services, trigger sensors), and the room's networking task, *)
(* which walks over the services at its own pace.                          *)
(*                                                                         *)
(* An entity has one id, except a robot: `robots` knows it by its mac,     *)
(* `objects` and the simulation by "robot_<mac>".  Shapes, positions and   *)
(* looks are left out; so are the resetters, which look for their body.    *)
(***************************************************************************)
EXTENDS Naturals, FiniteSets

CONSTANTS
    Macs,           \* addresses of robots, random: no two robots have the same
    MaxId,          \* bound on next_object_id, for model checking
    Removals,       \* the ids users pass to removeEntity
    DynamicLimit, KinematicLimit, RobotLimit

Shape(n)   == <<"shape", n>>    \* "<room>_block<n>", "<room>_trigger<n>", ...
Chassis(m) == <<"robot", m>>    \* "robot_<mac>"
Mac(m)     == <<"mac", m>>      \* "<mac>"

Shapes  == {"shape"} \X Nat
ChassisNames == {Chassis(m) : m \in Macs}
Names   == Shapes \cup ChassisNames
Ids     == Names \cup {Mac(m) : m \in Macs}

ASSUME MacsAssumption == IsFiniteSet(Macs)
ASSUME RemovalsAssumption == Removals \subseteq Ids
ASSUME LimitsAssumption ==
    MaxId \in Nat /\ DynamicLimit \in Nat /\ KinematicLimit \in Nat /\ RobotLimit \in Nat

VARIABLES
    objects,    \* the keys of room.objects
    kinematic,  \* those with is_kinematic
    labels,     \* the keys of sim.rigid_body_labels
    bodies,     \* the labels' bodies that are in sim.rigid_body_set
    robots,     \* the keys of room.robots
    wheels,     \* robots whose wheels are in the simulation
    services,   \* the keys of room.services, without World: <<type, id>>
    sensors,    \* the triggers in sim.sensors
    nextId,     \* next_object_id
    failed,     \* where the room task panicked, or "no"
    netPC,      \* the networking task: "idle" | "polling" | "dead"
    netKeys     \* the keys of services it has still to look up

shapeVars == <<objects, kinematic, labels, bodies>>
netVars   == <<netPC, netKeys>>
vars == <<shapeVars, robots, wheels, services, sensors, nextId, failed, netVars>>

Init ==
    /\ objects = {} /\ kinematic = {} /\ labels = {} /\ bodies = {}
    /\ robots = {} /\ wheels = {}
    /\ services = {} /\ sensors = {}
    /\ nextId = 0
    /\ failed = "no"
    /\ netPC = "idle" /\ netKeys = {}

Running == failed = "no"

-----------------------------------------------------------------------------
(* Adding entities.                                                        *)

\* count_dynamic() >= DYNAMIC_ENTITY_LIMIT: objects that are neither kinematic
\* nor robots, in usize arithmetic: fewer objects than robots wraps around.
\* (Variant: one more is let in.)
Movable == objects \ kinematic
OnePast == Cardinality(Movable) - Cardinality(robots) > DynamicLimit
DynamicFull ==
    \/ Cardinality(Movable) < Cardinality(robots)
    \/ Cardinality(Movable) - Cardinality(robots) >= DynamicLimit

KinematicFull == Cardinality(kinematic) >= KinematicLimit

\* A body, its label and the object.
Insert(name, isKinematic) ==
    /\ objects' = objects \cup {name}
    /\ kinematic' = IF isKinematic THEN kinematic \cup {name} ELSE kinematic \ {name}
    /\ labels' = labels \cup {name}
    /\ bodies' = bodies \cup {name}

\* addEntity of a box or ball; visualOnly makes it kinematic after the limits
\* were checked. (A refused entity changes nothing.)
AddEntity(isKinematic, visualOnly) ==
    /\ Running /\ nextId < MaxId
    /\ ~(~isKinematic /\ DynamicFull) /\ ~(isKinematic /\ KinematicFull)
    /\ Insert(Shape(nextId), isKinematic \/ visualOnly)
    /\ nextId' = nextId + 1
    /\ UNCHANGED <<robots, wheels, services, sensors, failed, netVars>>

\* addEntity of a trigger: a sensor, and a service to ask it.
AddTrigger(isKinematic) ==
    /\ Running /\ nextId < MaxId
    /\ ~(~isKinematic /\ DynamicFull) /\ ~KinematicFull
    /\ Insert(Shape(nextId), TRUE)
    /\ services' = services \cup {<<"trigger", Shape(nextId)>>}
    /\ sensors' = sensors \cup {Shape(nextId)}
    /\ nextId' = nextId + 1
    /\ UNCHANGED <<robots, wheels, failed, netVars>>

\* addBlock takes a number before it looks at the limits.
AddBlock(isKinematic) ==
    /\ Running /\ nextId < MaxId
    /\ nextId' = nextId + 1
    /\ IF (~isKinematic /\ DynamicFull) \/ (isKinematic /\ KinematicFull)
       THEN UNCHANGED shapeVars
       ELSE Insert(Shape(nextId), isKinematic)
    /\ UNCHANGED <<robots, wheels, services, sensors, failed, netVars>>

\* addRobot, or addEntity of a robot, which also takes a number.
AddRobot(m, counted) ==
    /\ Running /\ Cardinality(robots) < RobotLimit
    /\ m \notin robots
    /\ counted => nextId < MaxId
    /\ Insert(Chassis(m), FALSE)
    /\ wheels' = wheels \cup {m}
    /\ robots' = robots \cup {m}
    /\ nextId' = IF counted THEN nextId + 1 ELSE nextId
    /\ UNCHANGED <<services, sensors, failed, netVars>>

\* addSensor: a service of one of five types for an entity that exists (the
\* entity service stands for them all). The body of an object that is no
\* robot is looked up by its label: unwrap.
HasObject(id) == id \in objects \/ \E m \in robots : id = Mac(m)
AddSensor(id) ==
    /\ Running /\ HasObject(id)
    /\ IF id \in objects /\ id \notin labels
       THEN failed' = "sensor" /\ UNCHANGED services
       ELSE services' = services \cup {<<"entity", id>>} /\ UNCHANGED failed
    /\ UNCHANGED <<shapeVars, robots, wheels, sensors, nextId, netVars>>

-----------------------------------------------------------------------------
(* Removing entities.                                                      *)

\* The ids given to RoomData::remove for one id of removeEntity: an object's
\* own, or both names of a robot.      (Variant: not the robot's mac.)
ChassisOnly(id) ==
    IF id \in objects THEN {id} ELSE {Chassis(m) : m \in {r \in robots : id = Mac(r)}}
RemovedIds(id) ==
    IF id \in objects THEN {id} ELSE {id} \cup {Chassis(m) : m \in {r \in robots : id = Mac(r)}}

\* RoomData::remove of each: the object, its label and body, and the robot of
\* that mac with its bodies. Services and sensors stay.
RemoveEntity(id) ==
    /\ Running /\ HasObject(id)
    /\ LET gone   == RemovedIds(id)
           fallen == {m \in robots : Mac(m) \in gone}
       IN /\ objects' = objects \ gone
          /\ kinematic' = kinematic \ gone
          /\ labels' = labels \ gone
          /\ bodies' = (bodies \ (gone \cap labels)) \ {Chassis(m) : m \in fallen}
          /\ robots' = robots \ fallen
          /\ wheels' = wheels \ fallen
    /\ UNCHANGED <<services, sensors, nextId, failed, netVars>>

\* Robots cleaned up by remove_all.      (Variant: none.)
NoRobot == {}
AllRobots == robots

\* remove_all: services but World go, sensors stay.
RemoveAll ==
    /\ Running
    /\ objects' = {} /\ kinematic' = {} /\ labels' = {}
    /\ bodies' = (bodies \ (labels \ ChassisNames)) \ {Chassis(m) : m \in AllRobots}
    /\ robots' = {}
    /\ wheels' = wheels \ AllRobots
    /\ services' = {}
    /\ UNCHANGED <<sensors, nextId, failed, netVars>>

-----------------------------------------------------------------------------
(* What relies on the maps.                                                *)

\* A robot's parts are there.
Whole(m) == Chassis(m) \in bodies /\ m \in wheels

\* update_robots sets the speed of every robot's wheels: unwrap of the joint
\* between chassis and wheel, which goes with either body.
UpdateRobots ==
    /\ Running
    /\ failed' = IF \A m \in robots : Whole(m) THEN "no" ELSE "update"
    /\ UNCHANGED <<shapeVars, robots, wheels, services, sensors, nextId, netVars>>

\* Resetting a robot places its bodies: unwrap. The whole room resets every
\* robot, a client's request one that is in `robots`.
Reset(some) ==
    /\ Running
    /\ failed' = IF \A m \in some : Whole(m) THEN "no" ELSE "reset"
    /\ UNCHANGED <<shapeVars, robots, wheels, services, sensors, nextId, netVars>>

\* setPosition or setRotation by the entity service of a robot: unwrap of the
\* robot. For an object without a body nothing happens.
Place(m) ==
    /\ Running /\ <<"entity", Mac(m)>> \in services
    /\ failed' = IF m \notin robots THEN "service" ELSE IF Whole(m) THEN "no" ELSE "update"
    /\ UNCHANGED <<shapeVars, robots, wheels, services, sensors, nextId, netVars>>

\* entitiesInside of a trigger: unwrap of its sensor.
AskTrigger(n) ==
    /\ Running /\ <<"trigger", Shape(n)>> \in services
    /\ failed' = IF Shape(n) \in sensors THEN "no" ELSE "trigger"
    /\ UNCHANGED <<shapeVars, robots, wheels, services, sensors, nextId, netVars>>

-----------------------------------------------------------------------------
(* The networking task.                                                    *)

NetBegin ==
    /\ netPC = "idle"
    /\ netKeys' = services
    /\ netPC' = "polling"
    /\ UNCHANGED <<shapeVars, robots, wheels, services, sensors, nextId, failed>>

\* services.get(key).unwrap(), then the service's update() is awaited.
NetPoll(key) ==
    /\ netPC = "polling" /\ key \in netKeys
    /\ netKeys' = netKeys \ {key}
    /\ netPC' = IF key \in services THEN "polling" ELSE "dead"
    /\ UNCHANGED <<shapeVars, robots, wheels, services, sensors, nextId, failed>>

NetDone ==
    /\ netPC = "polling" /\ netKeys = {}
    /\ netPC' = "idle"
    /\ UNCHANGED <<shapeVars, robots, wheels, services, sensors, nextId, failed, netKeys>>

-----------------------------------------------------------------------------
Adding ==
    \/ \E k \in BOOLEAN, v \in BOOLEAN : AddEntity(k, v)
    \/ \E k \in BOOLEAN : AddTrigger(k) \/ AddBlock(k)
    \/ \E m \in Macs, counted \in BOOLEAN : AddRobot(m, counted)
    \/ \E id \in objects \cup {Mac(m) : m \in robots} : AddSensor(id)

Removing == (\E id \in Removals : RemoveEntity(id)) \/ RemoveAll

Using ==
    \/ UpdateRobots \/ Reset(robots)
    \/ \E m \in robots : Reset({m})
    \/ \E m \in Macs : Place(m)
    \/ \E n \in 0 .. MaxId : AskTrigger(n)

Networking == NetBegin \/ NetDone \/ \E key \in netKeys : NetPoll(key)

Next == Adding \/ Removing \/ Using \/ Networking

Spec == Init /\ [][Next]_vars

-----------------------------------------------------------------------------
(* Properties.                                                             *)

\* The values the variables take.
TypeOK ==
    /\ objects \subseteq Names /\ kinematic \subseteq objects
    /\ labels \subseteq Names /\ bodies \subseteq Names
    /\ robots \subseteq Macs /\ wheels \subseteq Macs
    /\ services \subseteq {"entity", "trigger"} \X Ids
    /\ sensors \subseteq Names
    /\ nextId \in 0 .. MaxId
    /\ failed \in {"no", "sensor", "update", "reset", "service", "trigger"}
    /\ netPC \in {"idle", "polling", "dead"}
    /\ netKeys \subseteq {"entity", "trigger"} \X Ids

\* After any sequence of operations the room and its simulation hold the same
\* entities: every object has its label and its body, and no body, wheel or
\* robot object is left over from an entity that was removed.
NothingLeftOver ==
    /\ labels = objects
    /\ bodies = objects
    /\ wheels = robots
    /\ \A m \in Macs : Chassis(m) \in objects => m \in robots

\* A new entity never takes the id of an old one, which services and clients
\* may still know, although addBlock takes numbers for blocks it refuses and
\* robots may or may not take one.
FreshIds ==
    \A id \in objects \cup sensors \cup {s[2] : s \in services} :
        id \in Shapes => id[2] < nextId

\* A trigger can be asked who is inside as long as its service is there, even
\* when the trigger itself has been removed: sensors are never dropped.
TriggersWatched == \A s \in services : s[1] = "trigger" => s[2] \in sensors

WorldInv == TypeOK /\ NothingLeftOver /\ FreshIds /\ TriggersWatched

\* No handler panics over a missing label, sensor or body, as long as robots
\* are removed under their mac; the robot behind a service is another matter.
MapsAgree == failed \in {"no", "service"}

\* Movable entities stay within their limit whatever is added and removed,
\* although they are counted as the difference of two maps that are cleaned up
\* at different moments.
DynamicWithinLimit == Cardinality(Movable \ ChassisNames) <= DynamicLimit

-----------------------------------------------------------------------------
(* Stated by the code's own assertions and limits, and not kept.           *)

\* physics.rs:211 and :187: the unwraps assert that the chassis of every robot
\* is in the simulation.
RobotsWhole == failed \notin {"update", "reset"}

=============================================================================
