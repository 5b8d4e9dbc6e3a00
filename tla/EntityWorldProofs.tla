------------------------- MODULE EntityWorldProofs -------------------------
(***************************************************************************)
(* Proofs about EntityWorld. WorldInv is inductive for whatever ids users  *)
(* remove. That no handler panics over a part of a robot needs more: users *)
(* only remove robots under their mac, and then every robot listed keeps   *)
(* its chassis (RobotsListed).                                             *)
(***************************************************************************)
EXTENDS EntityWorld, FiniteSetTheorems, TLAPS

\* The three kinds of ids are apart, and each determines what it names.
LEMMA NamesApart ==
    /\ \A m \in Macs : /\ Chassis(m) \in ChassisNames /\ Chassis(m) \in Names
                       /\ Chassis(m) \notin Shapes /\ Mac(m) \in Ids /\ Mac(m) \notin Names
                       /\ Mac(m) \notin Shapes
    /\ \A m, n \in Macs : (Chassis(m) = Chassis(n) => m = n) /\ (Mac(m) = Mac(n) => m = n)
    /\ \A n \in Nat : /\ Shape(n) \in Shapes /\ Shape(n) \in Names /\ Shape(n) \in Ids
                      /\ Shape(n) \notin ChassisNames /\ Shape(n)[2] = n
    /\ \A x \in ChassisNames : x \notin Shapes /\ \E m \in Macs : x = Chassis(m)
    /\ Names \subseteq Ids
BY DEF Chassis, Mac, Shape, Shapes, ChassisNames, Names, Ids

\* What the initial state satisfies.
LEMMA InitWorld == Init => WorldInv
BY LimitsAssumption DEF Init, WorldInv, TypeOK, NothingLeftOver, FreshIds, TriggersWatched

\* Putting a shape under the next number into the maps keeps them alike.
LEMMA InsertShape ==
    ASSUME WorldInv, nextId < MaxId, NEW k \in BOOLEAN, Insert(Shape(nextId), k),
           nextId' = nextId + 1, UNCHANGED <<robots, wheels>>
    PROVE  /\ objects' = objects \cup {Shape(nextId)}
           /\ objects' \subseteq Names /\ kinematic' \subseteq objects'
           /\ labels' \subseteq Names /\ bodies' \subseteq Names
           /\ robots' \subseteq Macs /\ wheels' \subseteq Macs
           /\ nextId' \in 0 .. MaxId /\ nextId \in Nat
           /\ NothingLeftOver'
<1>1. nextId \in Nat /\ nextId' \in 0 .. MaxId
    BY LimitsAssumption DEF WorldInv, TypeOK
<1>2. Shape(nextId) \in Names /\ \A m \in Macs : Chassis(m) # Shape(nextId)
    BY <1>1, NamesApart
<1> QED
    BY <1>1, <1>2 DEF WorldInv, TypeOK, NothingLeftOver, Insert

\* Old ids stay below a number that has gone up.
LEMMA OlderIds ==
    ASSUME WorldInv
    PROVE  \A id \in objects \cup sensors \cup {s[2] : s \in services} :
               id \in Shapes => id[2] < nextId + 1
BY LimitsAssumption DEF WorldInv, TypeOK, FreshIds, Shapes

\* The operations that add entities.
LEMMA AddingKeepsInv == WorldInv /\ Adding => WorldInv'
<1> SUFFICES ASSUME WorldInv, Adding PROVE WorldInv'
    OBVIOUS
<1>1. ASSUME NEW k \in BOOLEAN, NEW v \in BOOLEAN, AddEntity(k, v) PROVE WorldInv'
  <2>1. (k \/ v) \in BOOLEAN
      OBVIOUS
  <2>2. /\ nextId < MaxId /\ Insert(Shape(nextId), k \/ v) /\ nextId' = nextId + 1
        /\ UNCHANGED <<robots, wheels, services, sensors, failed, netVars>>
      BY <1>1 DEF AddEntity
  <2>3. /\ objects' = objects \cup {Shape(nextId)} /\ NothingLeftOver' /\ TypeOK'
        /\ nextId \in Nat
      BY <2>1, <2>2, InsertShape DEF WorldInv, TypeOK, netVars
  <2>4. FreshIds'
      BY <2>2, <2>3, OlderIds, NamesApart DEF FreshIds
  <2> QED
      BY <2>2, <2>3, <2>4 DEF WorldInv, TriggersWatched
<1>2. ASSUME NEW k \in BOOLEAN, AddTrigger(k) PROVE WorldInv'
  <2>1. /\ nextId < MaxId /\ Insert(Shape(nextId), TRUE) /\ nextId' = nextId + 1
        /\ services' = services \cup {<<"trigger", Shape(nextId)>>}
        /\ sensors' = sensors \cup {Shape(nextId)}
        /\ UNCHANGED <<robots, wheels, failed, netVars>>
      BY <1>2 DEF AddTrigger
  <2>2. /\ objects' = objects \cup {Shape(nextId)} /\ NothingLeftOver'
        /\ objects' \subseteq Names /\ kinematic' \subseteq objects'
        /\ labels' \subseteq Names /\ bodies' \subseteq Names
        /\ robots' \subseteq Macs /\ wheels' \subseteq Macs
        /\ nextId' \in 0 .. MaxId /\ nextId \in Nat
      BY <2>1, InsertShape
  <2>3. Shape(nextId) \in Names /\ Shape(nextId) \in Ids /\ Shape(nextId)[2] = nextId
      BY <2>2, NamesApart
  <2>4. TypeOK'
      BY <2>1, <2>2, <2>3 DEF WorldInv, TypeOK, netVars
  <2>5. {s[2] : s \in services'} \subseteq {s[2] : s \in services} \cup {Shape(nextId)}
      BY <2>1
  <2>6. FreshIds'
      BY <2>1, <2>2, <2>3, <2>5, OlderIds DEF FreshIds
  <2>7. TriggersWatched'
      BY <2>1 DEF WorldInv, TriggersWatched
  <2> QED
      BY <2>2, <2>4, <2>6, <2>7 DEF WorldInv
<1>3. ASSUME NEW k \in BOOLEAN, AddBlock(k) PROVE WorldInv'
  <2>1. /\ nextId < MaxId /\ nextId' = nextId + 1
        /\ UNCHANGED <<robots, wheels, services, sensors, failed, netVars>>
      BY <1>3 DEF AddBlock
  <2>2. CASE Insert(Shape(nextId), k)
    <3>1. /\ objects' = objects \cup {Shape(nextId)} /\ NothingLeftOver' /\ TypeOK'
          /\ nextId \in Nat
        BY <2>1, <2>2, InsertShape DEF WorldInv, TypeOK, netVars
    <3>2. FreshIds'
        BY <2>1, <3>1, OlderIds, NamesApart DEF FreshIds
    <3> QED
        BY <2>1, <3>1, <3>2 DEF WorldInv, TriggersWatched
  <2>3. CASE UNCHANGED shapeVars
    <3>1. FreshIds'
        BY <2>1, <2>3, OlderIds DEF FreshIds, shapeVars
    <3>2. TypeOK'
        BY <2>1, <2>3, LimitsAssumption DEF WorldInv, TypeOK, shapeVars, netVars
    <3> QED
        BY <2>1, <2>3, <3>1, <3>2 DEF WorldInv, NothingLeftOver, TriggersWatched, shapeVars
  <2> QED
      BY <1>3, <2>2, <2>3 DEF AddBlock
<1>4. ASSUME NEW m \in Macs, NEW c \in BOOLEAN, AddRobot(m, c) PROVE WorldInv'
  <2>1. /\ Insert(Chassis(m), FALSE) /\ wheels' = wheels \cup {m} /\ robots' = robots \cup {m}
        /\ UNCHANGED <<services, sensors, failed, netVars>>
      BY <1>4 DEF AddRobot
  <2>a. nextId' \in 0 .. MaxId /\ (nextId' = nextId \/ nextId' = nextId + 1)
    <3>1. CASE c
        BY <1>4, <3>1, LimitsAssumption DEF AddRobot, WorldInv, TypeOK
    <3>2. CASE ~c
        BY <1>4, <3>2 DEF AddRobot, WorldInv, TypeOK
    <3> QED
        BY <3>1, <3>2
  <2>2. Chassis(m) \in Names /\ Chassis(m) \notin Shapes
      BY NamesApart
  <2>3. TypeOK'
      BY <2>1, <2>2, <2>a DEF WorldInv, TypeOK, Insert, netVars
  <2>4. \A n \in Macs : Chassis(n) \in objects' => n \in robots'
      BY <2>1, NamesApart DEF WorldInv, NothingLeftOver, Insert
  <2>5. NothingLeftOver'
      BY <2>1, <2>4 DEF WorldInv, NothingLeftOver, Insert
  <2>6. FreshIds'
      BY <2>1, <2>2, <2>a, OlderIds DEF WorldInv, FreshIds, Insert
  <2> QED
      BY <2>1, <2>3, <2>5, <2>6 DEF WorldInv, TriggersWatched
<1>5. ASSUME NEW id \in objects \cup {Mac(m) : m \in robots}, AddSensor(id) PROVE WorldInv'
  <2>1. services' = services \/ services' = services \cup {<<"entity", id>>}
      BY <1>5 DEF AddSensor
  <2>2. id \in Ids /\ (id \in Shapes => id \in objects)
      BY <1>5, NamesApart DEF WorldInv, TypeOK
  <2>3. /\ failed' \in {"no", "sensor"}
        /\ UNCHANGED <<shapeVars, robots, wheels, sensors, nextId, netVars>>
      BY <1>5 DEF AddSensor, Running
  <2>4. TypeOK'
      BY <2>1, <2>2, <2>3 DEF WorldInv, TypeOK, shapeVars, netVars
  <2>5. {s[2] : s \in services'} \subseteq {s[2] : s \in services} \cup {id}
      BY <2>1
  <2>6. FreshIds'
      BY <2>2, <2>3, <2>5 DEF WorldInv, FreshIds, shapeVars
  <2> QED
      BY <2>1, <2>3, <2>4, <2>6 DEF WorldInv, NothingLeftOver, TriggersWatched, shapeVars
<1> QED
    BY <1>1, <1>2, <1>3, <1>4, <1>5 DEF Adding

\* The operations that remove entities.
LEMMA RemovingKeepsInv == WorldInv /\ Removing => WorldInv'
<1> SUFFICES ASSUME WorldInv, Removing PROVE WorldInv'
    OBVIOUS
<1>1. ASSUME NEW id \in Removals, RemoveEntity(id) PROVE WorldInv'
  <2> DEFINE gone   == RemovedIds(id)
             fallen == {m \in robots : Mac(m) \in gone}
  <2>1. /\ objects' = objects \ gone /\ kinematic' = kinematic \ gone
        /\ labels' = labels \ gone
        /\ bodies' = (bodies \ (gone \cap labels)) \ {Chassis(m) : m \in fallen}
        /\ robots' = robots \ fallen /\ wheels' = wheels \ fallen
        /\ UNCHANGED <<services, sensors, nextId, failed, netVars>>
      BY <1>1 DEF RemoveEntity
  <2>2. \A m \in Macs : m \in fallen => Chassis(m) \in gone
    <3>1. SUFFICES ASSUME NEW m \in Macs, m \in robots, Mac(m) \in gone PROVE Chassis(m) \in gone
        OBVIOUS
    <3>2. Mac(m) \notin objects
        BY NamesApart DEF WorldInv, TypeOK
    <3>3. id \notin objects /\ id = Mac(m)
        BY <3>1, <3>2, NamesApart DEF RemovedIds, WorldInv, TypeOK
    <3> QED
        BY <3>1, <3>3 DEF RemovedIds
  <2>3. \A m \in Macs : Chassis(m) \in objects' => m \in robots'
      BY <2>1, <2>2 DEF WorldInv, NothingLeftOver
  <2>4. {Chassis(m) : m \in fallen} \subseteq gone
      BY <2>2 DEF WorldInv, TypeOK
  <2>5. NothingLeftOver'
      BY <2>1, <2>3, <2>4 DEF WorldInv, NothingLeftOver
  <2>6. TypeOK'
      BY <2>1 DEF WorldInv, TypeOK, netVars
  <2> QED
      BY <2>1, <2>5, <2>6 DEF WorldInv, FreshIds, TriggersWatched
<1>2. ASSUME RemoveAll PROVE WorldInv'
  <2>1. bodies' = {}
    <3>1. \A x \in objects : x \in ChassisNames => x \in {Chassis(m) : m \in robots}
        BY NamesApart DEF WorldInv, NothingLeftOver
    <3> QED
        BY <1>2, <3>1 DEF RemoveAll, AllRobots, WorldInv, NothingLeftOver
  <2> QED
      BY <1>2, <2>1 DEF RemoveAll, AllRobots, WorldInv, TypeOK, NothingLeftOver, FreshIds,
                        TriggersWatched, netVars
<1> QED
    BY <1>1, <1>2 DEF Removing

\* Handlers that only rely on the maps, and the networking task.
LEMMA OthersKeepInv == WorldInv /\ (Using \/ Networking \/ UNCHANGED vars) => WorldInv'
<1> SUFFICES ASSUME WorldInv, Using \/ Networking \/ UNCHANGED vars PROVE WorldInv'
    OBVIOUS
<1>1. UNCHANGED <<objects, kinematic, labels, bodies, robots, wheels, services, sensors, nextId>>
    BY DEF Using, Networking, UpdateRobots, Reset, Place, AskTrigger, NetBegin, NetPoll, NetDone,
           vars, shapeVars
<1>2. failed' \in {"no", "sensor", "update", "reset", "service", "trigger"}
    BY DEF Using, Networking, UpdateRobots, Reset, Place, AskTrigger, NetBegin, NetPoll, NetDone,
           vars, WorldInv, TypeOK
<1>3. netPC' \in {"idle", "polling", "dead"} /\ netKeys' \subseteq {"entity", "trigger"} \X Ids
    BY DEF Using, Networking, UpdateRobots, Reset, Place, AskTrigger, NetBegin, NetPoll, NetDone,
           vars, netVars, WorldInv, TypeOK
<1> QED
    BY <1>1, <1>2, <1>3 DEF WorldInv, TypeOK, NothingLeftOver, FreshIds, TriggersWatched

\* Every step.
LEMMA NextKeepsInv == WorldInv /\ [Next]_vars => WorldInv'
BY AddingKeepsInv, RemovingKeepsInv, OthersKeepInv DEF Next

\* For any robots, limits and removals, the room's maps and the simulation
\* hold the same entities, numbers are never used again, and a trigger whose
\* service is there has its sensor.
THEOREM WorldInvariant == Spec => []WorldInv
<1> QED
    BY InitWorld, NextKeepsInv, PTL DEF Spec

-----------------------------------------------------------------------------
(* Users remove robots under their macs only.                              *)

\* Every robot in `robots` is also shown: its chassis is an object.
RobotsListed == \A m \in robots : Chassis(m) \in objects

\* What counting relies on: chassis are the movable names that are no shapes,
\* one per robot, and there are finitely many objects.
Countable ==
    /\ IsFiniteSet(objects)
    /\ kinematic \cap ChassisNames = {}

KeptInv == WorldInv /\ RobotsListed /\ MapsAgree /\ Countable /\ DynamicWithinLimit

\* What the initial state satisfies.
LEMMA InitKept == Init => KeptInv
<1> SUFFICES ASSUME Init PROVE KeptInv
    OBVIOUS
<1>1. Movable \ ChassisNames = {}
    BY DEF Init, Movable
<1> QED
    BY <1>1, InitWorld, FS_EmptySet, LimitsAssumption
    DEF Init, KeptInv, RobotsListed, MapsAgree, Countable, DynamicWithinLimit

\* Only the robots' chassis are taken off when movable shapes are counted.
LEMMA CountingShapes ==
    ASSUME KeptInv
    PROVE  /\ IsFiniteSet(Movable \ ChassisNames)
           /\ Cardinality(Movable \ ChassisNames) \in Nat
           /\ Cardinality(Movable) - Cardinality(robots) = Cardinality(Movable \ ChassisNames)
           /\ Cardinality(Movable) \in Nat /\ Cardinality(robots) \in Nat
<1> DEFINE C == {Chassis(m) : m \in robots}
           f == [m \in robots |-> Chassis(m)]
<1>1. IsFiniteSet(Movable) /\ IsFiniteSet(Movable \ ChassisNames)
    BY FS_Subset DEF KeptInv, Countable, Movable
<1>2. IsFiniteSet(robots)
    BY FS_Subset, MacsAssumption DEF KeptInv, WorldInv, TypeOK
<1>3. f \in Bijection(robots, C)
    BY NamesApart DEF KeptInv, WorldInv, TypeOK, Bijection, Injection, Surjection, IsInjective
<1>4. IsFiniteSet(C) /\ Cardinality(C) = Cardinality(robots)
    BY <1>2, <1>3, FS_Bijection DEF ExistsBijection
<1>5. Movable \cap ChassisNames = C
    BY NamesApart DEF KeptInv, WorldInv, TypeOK, NothingLeftOver, RobotsListed, Countable, Movable
<1>6. Movable = (Movable \ ChassisNames) \cup C /\ (Movable \ ChassisNames) \cap C = {}
    BY <1>5
<1>7. Cardinality(Movable) = Cardinality(Movable \ ChassisNames) + Cardinality(C) - Cardinality({})
    BY <1>1, <1>4, <1>6, FS_Union
<1> HIDE DEF C
<1> QED
    BY <1>1, <1>2, <1>4, <1>7, FS_EmptySet, FS_CardinalityType

\* While the limit is not reached, one more shape stays within it.
LEMMA OneMoreShape ==
    ASSUME KeptInv, NEW k \in BOOLEAN, NEW v \in BOOLEAN, nextId < MaxId,
           ~(~k /\ DynamicFull), Insert(Shape(nextId), k \/ v)
    PROVE  Countable' /\ DynamicWithinLimit'
<1>1. nextId \in Nat
    BY LimitsAssumption DEF KeptInv, WorldInv, TypeOK
<1>2. Shape(nextId) \notin ChassisNames
    BY <1>1, NamesApart
<1>3. Countable'
    BY <1>2, FS_AddElement DEF KeptInv, Countable, Insert
<1>4. CASE k \/ v
  <2>1. Movable' \ ChassisNames \subseteq Movable \ ChassisNames
      BY <1>4 DEF Insert, Movable
  <2>2. Cardinality(Movable' \ ChassisNames) <= Cardinality(Movable \ ChassisNames)
      BY <2>1, CountingShapes, FS_Subset
  <2>3. IsFiniteSet(Movable' \ ChassisNames)
      BY <2>1, CountingShapes, FS_Subset
  <2>4. Cardinality(Movable' \ ChassisNames) \in Nat
      BY <2>3, FS_CardinalityType
  <2> QED
      BY <1>3, <2>2, <2>4, CountingShapes, LimitsAssumption DEF KeptInv, DynamicWithinLimit
<1>5. CASE ~(k \/ v)
  <2>1. Movable' \ ChassisNames \subseteq (Movable \ ChassisNames) \cup {Shape(nextId)}
      BY <1>5 DEF Insert, Movable
  <2> DEFINE bigger == (Movable \ ChassisNames) \cup {Shape(nextId)}
  <2>2. IsFiniteSet(bigger) /\ Cardinality(bigger) <= Cardinality(Movable \ ChassisNames) + 1
    <3>1. IsFiniteSet(Movable \ ChassisNames) /\ Cardinality(Movable \ ChassisNames) \in Nat
        BY CountingShapes
    <3>2. /\ IsFiniteSet(bigger)
          /\ Cardinality(bigger) = IF Shape(nextId) \in Movable \ ChassisNames
                                   THEN Cardinality(Movable \ ChassisNames)
                                   ELSE Cardinality(Movable \ ChassisNames) + 1
        BY <3>1, FS_AddElement
    <3> QED
        BY <3>1, <3>2
  <2>3. /\ IsFiniteSet(Movable' \ ChassisNames)
        /\ Cardinality(Movable' \ ChassisNames) <= Cardinality(bigger)
      BY <2>1, <2>2, FS_Subset
  <2>4. Cardinality(Movable' \ ChassisNames) \in Nat /\ Cardinality(bigger) \in Nat
      BY <2>2, <2>3, FS_CardinalityType
  <2>5. Cardinality(Movable \ ChassisNames) < DynamicLimit
      BY <1>5, CountingShapes, LimitsAssumption DEF DynamicFull
  <2> HIDE DEF bigger
  <2> QED
      BY <1>3, <2>2, <2>3, <2>4, <2>5, CountingShapes, LimitsAssumption DEF DynamicWithinLimit
<1> QED
    BY <1>4, <1>5

\* Fewer objects stay within the limit.
LEMMA FewerShapes ==
    ASSUME KeptInv, NEW gone, objects' = objects \ gone, kinematic' = kinematic \ gone
    PROVE  Countable' /\ DynamicWithinLimit'
<1>1. Movable' \ ChassisNames \subseteq Movable \ ChassisNames
    BY DEF Movable
<1>2. /\ IsFiniteSet(Movable' \ ChassisNames)
      /\ Cardinality(Movable' \ ChassisNames) <= Cardinality(Movable \ ChassisNames)
    BY <1>1, CountingShapes, FS_Subset
<1>3. Cardinality(Movable' \ ChassisNames) \in Nat
    BY <1>2, FS_CardinalityType
<1>4. Countable'
    BY FS_Subset DEF KeptInv, Countable
<1> QED
    BY <1>2, <1>3, <1>4, CountingShapes, LimitsAssumption DEF KeptInv, DynamicWithinLimit

\* The operations that add entities.
LEMMA AddingKeeps == KeptInv /\ Adding => RobotsListed' /\ MapsAgree' /\ Countable' /\ DynamicWithinLimit'
<1> SUFFICES ASSUME KeptInv, Adding
             PROVE  RobotsListed' /\ MapsAgree' /\ Countable' /\ DynamicWithinLimit'
    OBVIOUS
<1>1. ASSUME NEW k \in BOOLEAN, NEW v \in BOOLEAN, AddEntity(k, v)
      PROVE  RobotsListed' /\ MapsAgree' /\ Countable' /\ DynamicWithinLimit'
  <2>1. Countable' /\ DynamicWithinLimit'
      BY <1>1, OneMoreShape DEF AddEntity
  <2> QED
      BY <1>1, <2>1 DEF AddEntity, Insert, KeptInv, RobotsListed, MapsAgree
<1>2. ASSUME NEW k \in BOOLEAN, AddTrigger(k)
      PROVE  RobotsListed' /\ MapsAgree' /\ Countable' /\ DynamicWithinLimit'
  <2>1. Insert(Shape(nextId), k \/ TRUE)
      BY <1>2 DEF AddTrigger
  <2>2. Countable' /\ DynamicWithinLimit'
      BY <1>2, <2>1, OneMoreShape DEF AddTrigger
  <2> QED
      BY <1>2, <2>2 DEF AddTrigger, Insert, KeptInv, RobotsListed, MapsAgree
<1>3. ASSUME NEW k \in BOOLEAN, AddBlock(k)
      PROVE  RobotsListed' /\ MapsAgree' /\ Countable' /\ DynamicWithinLimit'
  <2>1. CASE ~(~k /\ DynamicFull) /\ Insert(Shape(nextId), k)
    <3>1. Insert(Shape(nextId), k \/ FALSE)
        BY <2>1
    <3>2. Countable' /\ DynamicWithinLimit'
        BY <1>3, <2>1, <3>1, OneMoreShape DEF AddBlock
    <3> QED
        BY <1>3, <2>1, <3>2 DEF AddBlock, Insert, KeptInv, RobotsListed, MapsAgree
  <2>2. CASE UNCHANGED shapeVars
      BY <1>3, <2>2 DEF AddBlock, shapeVars, KeptInv, RobotsListed, MapsAgree, Countable,
                        DynamicWithinLimit, Movable
  <2> QED
      BY <1>3, <2>1, <2>2 DEF AddBlock
<1>4. ASSUME NEW m \in Macs, NEW c \in BOOLEAN, AddRobot(m, c)
      PROVE  RobotsListed' /\ MapsAgree' /\ Countable' /\ DynamicWithinLimit'
  <2>1. Chassis(m) \in ChassisNames
      BY NamesApart
  <2>2. Movable' \ ChassisNames = Movable \ ChassisNames
      BY <1>4, <2>1 DEF AddRobot, Insert, Movable
  <2>3. Countable'
      BY <1>4, FS_AddElement DEF AddRobot, Insert, KeptInv, Countable
  <2> QED
      BY <1>4, <2>2, <2>3 DEF AddRobot, Insert, KeptInv, RobotsListed, MapsAgree, DynamicWithinLimit
<1>5. ASSUME NEW id \in objects \cup {Mac(m) : m \in robots}, AddSensor(id)
      PROVE  RobotsListed' /\ MapsAgree' /\ Countable' /\ DynamicWithinLimit'
  <2>1. UNCHANGED failed
      BY <1>5 DEF AddSensor, KeptInv, WorldInv, NothingLeftOver
  <2> QED
      BY <1>5, <2>1 DEF AddSensor, shapeVars, KeptInv, RobotsListed, MapsAgree, Countable,
                        DynamicWithinLimit, Movable
<1> QED
    BY <1>1, <1>2, <1>3, <1>4, <1>5 DEF Adding

\* The operations that remove entities; here robots go under their macs.
LEMMA RemovingKeeps ==
    ASSUME Removals \cap ChassisNames = {}, KeptInv, Removing
    PROVE  RobotsListed' /\ MapsAgree' /\ Countable' /\ DynamicWithinLimit'
<1>1. ASSUME NEW id \in Removals, RemoveEntity(id)
      PROVE  RobotsListed' /\ MapsAgree' /\ Countable' /\ DynamicWithinLimit'
  <2> DEFINE gone   == RemovedIds(id)
             fallen == {m \in robots : Mac(m) \in gone}
  <2>1. /\ objects' = objects \ gone /\ kinematic' = kinematic \ gone
        /\ robots' = robots \ fallen /\ UNCHANGED failed
      BY <1>1 DEF RemoveEntity
  <2>2. \A m \in robots : Chassis(m) \in gone => Mac(m) \in gone
      BY NamesApart DEF RemovedIds, KeptInv, WorldInv, TypeOK
  <2>3. RobotsListed'
      BY <2>1, <2>2 DEF KeptInv, RobotsListed
  <2>4. Countable' /\ DynamicWithinLimit'
      BY <2>1, FewerShapes
  <2> QED
      BY <2>1, <2>3, <2>4 DEF KeptInv, MapsAgree
<1>2. ASSUME RemoveAll
      PROVE  RobotsListed' /\ MapsAgree' /\ Countable' /\ DynamicWithinLimit'
  <2>1. objects' = objects \ (objects \cup kinematic) /\ kinematic' = kinematic \ (objects \cup kinematic)
      BY <1>2 DEF RemoveAll
  <2>2. Countable' /\ DynamicWithinLimit'
      BY <2>1, FewerShapes
  <2> QED
      BY <1>2, <2>2 DEF RemoveAll, KeptInv, RobotsListed, MapsAgree
<1> QED
    BY <1>1, <1>2 DEF Removing

\* Handlers that rely on the maps find what they look for.
LEMMA OthersKeep ==
    KeptInv /\ (Using \/ Networking \/ UNCHANGED vars)
        => RobotsListed' /\ MapsAgree' /\ Countable' /\ DynamicWithinLimit'
<1> SUFFICES ASSUME KeptInv, Using \/ Networking \/ UNCHANGED vars
             PROVE  RobotsListed' /\ MapsAgree' /\ Countable' /\ DynamicWithinLimit'
    OBVIOUS
<1>1. UNCHANGED <<objects, kinematic, robots>>
    BY DEF Using, Networking, UpdateRobots, Reset, Place, AskTrigger, NetBegin, NetPoll, NetDone,
           vars, shapeVars
<1>2. \A m \in robots : Whole(m)
    BY DEF KeptInv, WorldInv, NothingLeftOver, RobotsListed, Whole
<1>3. \A n \in Nat : <<"trigger", Shape(n)>> \in services => Shape(n) \in sensors
    BY DEF KeptInv, WorldInv, TriggersWatched
<1>4. MapsAgree'
  <2>1. CASE UpdateRobots \/ Reset(robots) \/ \E m \in robots : Reset({m})
      BY <1>2, <2>1 DEF UpdateRobots, Reset, MapsAgree
  <2>2. CASE \E m \in Macs : Place(m)
      BY <1>2, <2>2 DEF Place, MapsAgree
  <2>3. CASE \E n \in 0 .. MaxId : AskTrigger(n)
      BY <1>3, <2>3, LimitsAssumption DEF AskTrigger, MapsAgree
  <2>4. CASE Networking \/ UNCHANGED vars
      BY <2>4 DEF Networking, NetBegin, NetPoll, NetDone, vars, KeptInv, MapsAgree
  <2> QED
      BY <2>1, <2>2, <2>3, <2>4 DEF Using
<1> QED
    BY <1>1, <1>4 DEF KeptInv, RobotsListed, Countable, DynamicWithinLimit, Movable

\* Every step.
LEMMA NextKeeps ==
    ASSUME Removals \cap ChassisNames = {}
    PROVE  KeptInv /\ [Next]_vars => KeptInv'
<1> SUFFICES ASSUME KeptInv, [Next]_vars PROVE KeptInv'
    OBVIOUS
<1>1. WorldInv'
    BY NextKeepsInv DEF KeptInv
<1>2. RobotsListed' /\ MapsAgree' /\ Countable' /\ DynamicWithinLimit'
    BY AddingKeeps, RemovingKeeps, OthersKeep DEF Next
<1> QED
    BY <1>1, <1>2 DEF KeptInv

\* If no robot is removed under the name of its chassis, no handler ever
\* panics over a missing label, body, wheel or sensor.
THEOREM NoPanicOverMaps ==
    ASSUME Removals \cap ChassisNames = {}
    PROVE  Spec => []MapsAgree
<1>1. KeptInv => MapsAgree
    BY DEF KeptInv
<1> QED
    BY <1>1, InitKept, NextKeeps, PTL DEF Spec

\* Under the same condition movable shapes stay within their limit, for any
\* limits and any number of robots.
THEOREM DynamicLimitKept ==
    ASSUME Removals \cap ChassisNames = {}
    PROVE  Spec => []DynamicWithinLimit
<1>1. KeptInv => DynamicWithinLimit
    BY DEF KeptInv
<1> QED
    BY <1>1, InitKept, NextKeeps, PTL DEF Spec

=============================================================================
