--------------------------- MODULE RobotDriveProofs ---------------------------
(***************************************************************************)
(* Safety of RobotDrive for any wheels, distances, speeds, scales, update  *)
(* times and message spacing.                                              *)
(***************************************************************************)
EXTENDS RobotDrive, TLAPS

ModelAssumptions ==
    /\ Speeds \subseteq Int /\ MinI16 \in Int /\ Scales \subseteq Int
    /\ MinDt \in Nat \ {0} /\ MaxDt \in Nat /\ MinDt <= MaxDt
    /\ MaxElapsed \in Nat /\ Spacing \in Nat
    /\ Far \in Nat /\ Distances \subseteq -Far .. Far /\ MaxQueue \in Nat

LEMMA ConstantsFit == ModelAssumptions
BY DataAssumption, TimeAssumption, BoundAssumption DEF ModelAssumptions

-----------------------------------------------------------------------------
(* The inductive invariant of DriveAccurate.  Of a wheel that still turns  *)
(* it tells exactly how far it is ahead: what it covered in the first      *)
(* update of the drive, which the motors did not count, less what is left. *)
(* What is left is never behind the wheel, so that the least of it makes   *)
(* the wheel stop, within one update of its goal.                          *)

SameWay(x, y) == (x > 0 => y >= 0) /\ (x < 0 => y <= 0)

Turning(w) ==
    /\ drive = "distance"
    /\ pace[w] = Magnitude(speed[w])
    /\ SameWay(speed[w], distance[w])
    /\ \E dt \in MinDt .. MaxDt : ahead[w] = Counted(speed[w] * dt - distance[w])

Stopped(w) == Magnitude(ahead[w]) <= pace[w] * MaxDt

DriveInv ==
    order = "drive" /\ scale > 0
        => \A w \in Wheels : IF speed[w] = 0 THEN Stopped(w) ELSE Turning(w)

-----------------------------------------------------------------------------
(* Arithmetic.                                                             *)

\* What is counted is a number within the bound, and a number within the bound
\* is counted as it is.
LEMMA CountedRange ==
    ASSUME NEW x \in Int
    PROVE  /\ Counted(x) \in -Far .. Far
           /\ x \in -Far .. Far => Counted(x) = x
           /\ Magnitude(Counted(x)) <= Magnitude(x)
BY ConstantsFit DEF ModelAssumptions, Counted, Clamp, Magnitude

\* The time of an update is one that the motors are made for.
LEMMA DeltaTimeRange ==
    ASSUME NEW elapsed \in 0 .. MaxElapsed
    PROVE  DeltaTime(elapsed) \in MinDt .. MaxDt
BY ConstantsFit DEF ModelAssumptions, DeltaTime, Clamp

\* A step covers no more than the longest one, in the direction of the speed.
LEMMA StepCovers ==
    ASSUME NEW s \in Int, NEW dt \in MinDt .. MaxDt
    PROVE  /\ s * dt \in Int
           /\ Magnitude(s * dt) <= Magnitude(s) * MaxDt
           /\ s > 0 => s * dt > 0
           /\ s < 0 => s * dt < 0
<1>1. dt \in Nat \ {0} /\ MaxDt \in Nat /\ dt <= MaxDt
  BY ConstantsFit DEF ModelAssumptions
<1>2. s > 0 => s * dt > 0 /\ s * dt <= s * MaxDt
  BY <1>1
<1>3. ASSUME s < 0
      PROVE  s * dt < 0 /\ -(s * dt) <= (-s) * MaxDt
  <2>1. (-s) > 0 => (-s) * dt > 0 /\ (-s) * dt <= (-s) * MaxDt
    BY <1>1
  <2>2. (-s) * dt = -(s * dt)
    BY <1>1
  <2>3. QED  BY <1>1, <1>3, <2>1, <2>2
<1>4. QED  BY <1>1, <1>2, <1>3 DEF Magnitude

-----------------------------------------------------------------------------
(* What an update does to the motors.                                      *)

\* The types of the motors and of what the history tells of them.
MotorsTyped ==
    /\ drive \in {"speed", "distance"}
    /\ speed \in [Wheels -> Int]
    /\ distance \in [Wheels -> -Far .. Far]
    /\ ahead \in [Wheels -> -Far .. Far]
    /\ pace \in [Wheels -> Nat]
    /\ order \in {"none", "drive", "setSpeed"}
    /\ drive = "distance" => order = "drive"

\* Speeds and distances stay within their bounds while the motors run.
LEMMA MotorsRun ==
    ASSUME TypeOK, NEW dt \in MinDt .. MaxDt
    PROVE  /\ SpeedAfter(dt) \in [Wheels -> Int]
           /\ DistanceAfter(dt) \in [Wheels -> -Far .. Far]
           /\ DriveAfter(dt) \in {"speed", "distance"}
           /\ DriveAfter(dt) = "distance" => drive = "distance"
<1>1. \A w \in Wheels : speed[w] * dt \in Int
  BY StepCovers DEF TypeOK
<1>2. \A w \in Wheels : distance[w] \in -Far .. Far /\ distance[w] \in Int
  BY ConstantsFit DEF TypeOK, ModelAssumptions
<1>3. \A w \in Wheels : Counted(distance[w] - speed[w] * dt) \in -Far .. Far
  BY <1>1, <1>2, CountedRange
<1>4. SpeedAfter(dt) \in [Wheels -> Int]
  BY DEF SpeedAfter, TypeOK
<1>5. DistanceAfter(dt) \in [Wheels -> -Far .. Far]
  BY <1>2, <1>3 DEF DistanceAfter
<1>6. QED  BY <1>4, <1>5 DEF DriveAfter, TypeOK

LEMMA RollType ==
    ASSUME TypeOK, NEW dt \in MinDt .. MaxDt, Roll(dt)
    PROVE  MotorsTyped'
<1>1. \A w \in Wheels : ahead[w] \in Int /\ speed'[w] * dt \in Int
  BY MotorsRun, StepCovers, ConstantsFit DEF Roll, TypeOK, ModelAssumptions
<1>2. \A w \in Wheels : Counted(ahead[w] + speed'[w] * dt) \in -Far .. Far
  BY <1>1, CountedRange
<1>3. ahead' \in [Wheels -> -Far .. Far]
  BY <1>2, ConstantsFit DEF Roll, ModelAssumptions
<1>4. QED  BY <1>3, MotorsRun DEF Roll, TypeOK, MotorsTyped

LEMMA DriveType ==
    ASSUME TypeOK, NEW dt \in MinDt .. MaxDt, NEW d \in [Wheels -> Distances], HandleDrive(d, dt)
    PROVE  MotorsTyped'
<1>1. scale \in Int
  BY ConstantsFit DEF TypeOK, ModelAssumptions
<1>2. \A w \in Wheels : d[w] \in -Far .. Far /\ d[w] \in Int
  <2>1. \A w \in Wheels : d[w] \in Distances
    OBVIOUS
  <2>2. \A x \in Distances : x \in -Far .. Far /\ x \in Int
    BY ConstantsFit DEF ModelAssumptions
  <2>3. QED  BY <2>1, <2>2
<1>3. \A w \in Wheels : DriveSpeed(w, d, SpeedAfter(dt)) \in Int
  BY <1>1, <1>2, MotorsRun DEF DriveSpeed, Signum
<1>4. speed' \in [Wheels -> Int]
  BY <1>3 DEF HandleDrive
<1>5. \A w \in Wheels : Counted(speed'[w] * dt - d[w]) \in -Far .. Far
  <2> SUFFICES ASSUME NEW w \in Wheels PROVE Counted(speed'[w] * dt - d[w]) \in -Far .. Far
    OBVIOUS
  <2>1. speed'[w] \in Int
    BY <1>4
  <2>2. \A x, y \in Int : x - y \in Int
    OBVIOUS
  <2>3. speed'[w] * dt \in Int /\ d[w] \in Int
    BY <1>2, <2>1, StepCovers
  <2>4. speed'[w] * dt - d[w] \in Int
    BY <2>2, <2>3
  <2>5. QED  BY <2>4, CountedRange
<1>6. ahead' \in [Wheels -> -Far .. Far]
  BY <1>5 DEF HandleDrive
<1>7. pace' \in [Wheels -> Nat]
  BY <1>4 DEF HandleDrive, Magnitude
<1>8. distance' \in [Wheels -> -Far .. Far]
  BY <1>2 DEF HandleDrive
<1>9. QED  BY <1>4, <1>6, <1>7, <1>8 DEF HandleDrive, MotorsTyped

LEMMA SetSpeedType ==
    ASSUME TypeOK, NEW dt \in MinDt .. MaxDt, NEW s \in [Wheels -> Speeds], HandleSetSpeed(s, dt)
    PROVE  MotorsTyped'
<1>1. scale \in Int /\ \A w \in Wheels : s[w] \in Int
  <2>1. \A w \in Wheels : s[w] \in Speeds
    OBVIOUS
  <2>2. Speeds \subseteq Int /\ Scales \subseteq Int /\ scale \in Scales \cup {1}
    BY ConstantsFit DEF TypeOK, ModelAssumptions
  <2>3. scale \in Int
    BY <2>2
  <2>4. \A w \in Wheels : s[w] \in Int
    BY <2>1, <2>2
  <2>5. QED  BY <2>3, <2>4
<1>2. \A w \in Wheels : Negated(s[w]) \in Int
  BY <1>1 DEF Negated
<1>3. \A w \in Wheels : -Negated(s[w]) * scale \in Int
  <2>1. \A x \in Int : -x * scale \in Int
    BY <1>1
  <2>2. QED  BY <1>2, <2>1
<1>4. speed' \in [Wheels -> Int]
  BY <1>3 DEF HandleSetSpeed
<1>5. ahead' \in [Wheels -> -Far .. Far] /\ pace' \in [Wheels -> Nat]
  BY ConstantsFit DEF HandleSetSpeed, ModelAssumptions
<1>6. distance' \in [Wheels -> -Far .. Far]
  BY MotorsRun DEF HandleSetSpeed
<1>7. QED  BY <1>4, <1>5, <1>6 DEF HandleSetSpeed, MotorsTyped

\* What the messages carry.
LEMMA MessageType ==
    ASSUME NEW m \in Messages
    PROVE  /\ m.kind = "drive" => m.by \in [Wheels -> Distances]
           /\ m.kind = "setSpeed" => m.by \in [Wheels -> Speeds]
BY DEF Messages, Drive, SetSpeed, Beep, GetRange

LEMMA HandleType ==
    ASSUME TypeOK, NEW dt \in MinDt .. MaxDt, NEW m \in Messages, Handle(m, dt)
    PROVE  MotorsTyped'
<1>1. CASE m.kind = "drive"
  <2>1. HandleDrive(m.by, dt)
    BY <1>1 DEF Handle
  <2>2. QED  BY <1>1, <2>1, MessageType, DriveType
<1>2. CASE m.kind = "setSpeed"
  <2>1. HandleSetSpeed(m.by, dt)
    BY <1>2 DEF Handle
  <2>2. QED  BY <1>2, <2>1, MessageType, SetSpeedType
<1>3. CASE m.kind # "drive" /\ m.kind # "setSpeed"
  <2>1. Roll(dt)
    BY <1>3 DEF Handle
  <2>2. QED  BY <2>1, RollType
<1>4. QED  BY <1>1, <1>2, <1>3

\* An update either leaves the motors alone, rolls them on, or handles the first
\* message of the socket.
LEMMA UpdateCases ==
    ASSUME TypeOK, NEW elapsed \in 0 .. MaxElapsed, Update(elapsed)
    PROVE  /\ UNCHANGED scale
           /\ age' \in -1 .. Spacing
           /\ task' \in {"running", "panicked"}
           /\ served' \in BOOLEAN
           /\ socket' \in Seq(Messages) /\ Len(socket') <= MaxQueue
           /\ \/ UNCHANGED <<motorVars, ahead, pace, order>>
              \/ \E dt \in MinDt .. MaxDt :
                    \/ Roll(dt)
                    \/ \E m \in Messages : Handle(m, dt)
<1>1. DeltaTime(elapsed) \in MinDt .. MaxDt
  BY DeltaTimeRange
<1>2. Older(age, elapsed) \in -1 .. Spacing
  BY ConstantsFit DEF TypeOK, Older, Clamp, ModelAssumptions
<1>3. socket # <<>> => Head(socket) \in Messages
  BY DEF TypeOK
<1>4. socket' \in Seq(Messages) /\ Len(socket') <= MaxQueue
  <2>1. CASE socket = <<>>
    BY <2>1, ConstantsFit DEF Update, TypeOK, ModelAssumptions
  <2>2. CASE socket # <<>>
    <3>1. socket' = Tail(socket) /\ socket \in Seq(Messages)
      BY <2>2 DEF Update, TypeOK
    <3>2. Tail(socket) \in Seq(Messages) /\ Len(Tail(socket)) = Len(socket) - 1
      BY <2>2, <3>1
    <3>3. QED  BY <3>1, <3>2, ConstantsFit DEF TypeOK, ModelAssumptions
  <2>3. QED  BY <2>1, <2>2
<1> DEFINE dt == DeltaTime(elapsed)
<1>5. CASE Rejects(elapsed, dt)
  BY <1>1, <1>2, <1>4, <1>5 DEF Rejects, TypeOK
<1>6. CASE Accepts(elapsed, dt)
  <2>1. served' \in BOOLEAN
    BY <1>6 DEF Accepts, RequiresTimingCheck
  <2>2. QED  BY <1>1, <1>3, <1>4, <1>6, <2>1, ConstantsFit DEF Accepts, TypeOK, ModelAssumptions
<1>7. CASE Panics(elapsed)
  BY <1>4, <1>7 DEF Panics, TypeOK, motorVars, historyVars
<1>8. CASE NoMessage(elapsed, dt)
  BY <1>1, <1>2, <1>4, <1>8 DEF NoMessage, TypeOK
<1>9. QED  BY <1>5, <1>6, <1>7, <1>8 DEF Update

-----------------------------------------------------------------------------
(* Types.                                                                  *)

LEMMA InitType == Init => TypeOK
<1> SUFFICES ASSUME Init PROVE TypeOK
  OBVIOUS
<1>1. <<>> \in Seq(Messages) /\ Len(<<>>) <= MaxQueue
  BY ConstantsFit DEF ModelAssumptions
<1>2. 0 \in -Far .. Far /\ Spacing \in -1 .. Spacing
  BY ConstantsFit DEF ModelAssumptions
<1>3. [w \in Wheels |-> 0] \in [Wheels -> -Far .. Far]
  BY <1>2
<1>4. [w \in Wheels |-> 0] \in [Wheels -> Int] /\ [w \in Wheels |-> 0] \in [Wheels -> Nat]
  OBVIOUS
<1>5. QED  BY <1>1, <1>2, <1>3, <1>4 DEF Init, TypeOK

LEMMA StepType == TypeOK /\ [Next]_vars => TypeOK'
<1> SUFFICES ASSUME TypeOK, [Next]_vars PROVE TypeOK'
  OBVIOUS
<1>1. ASSUME NEW m \in Messages, Arrives(m) PROVE TypeOK'
  <2>1. socket' \in Seq(Messages) /\ Len(socket') = Len(socket) + 1
    BY <1>1 DEF Arrives, TypeOK
  <2>2. Len(socket') <= MaxQueue
    BY <1>1, <2>1, ConstantsFit DEF Arrives, TypeOK, ModelAssumptions
  <2>3. QED  BY <1>1, <2>1, <2>2 DEF Arrives, TypeOK, motorVars, historyVars
<1>2. ASSUME NEW elapsed \in 0 .. MaxElapsed, Update(elapsed) PROVE TypeOK'
  <2>1. MotorsTyped'
    <3>1. CASE UNCHANGED <<motorVars, ahead, pace, order>>
      BY <3>1 DEF MotorsTyped, TypeOK, motorVars
    <3>2. QED  BY <1>2, <3>1, UpdateCases, RollType, HandleType
  <2>2. QED  BY <1>2, <2>1, UpdateCases DEF TypeOK, MotorsTyped
<1>3. CASE Reset
  BY <1>3, ConstantsFit DEF Reset, TypeOK, ModelAssumptions
<1>4. CASE ClockSetBack
  BY <1>4, ConstantsFit DEF ClockSetBack, TypeOK, motorVars, historyVars, ModelAssumptions
<1>5. CASE UNCHANGED vars
  BY <1>5 DEF TypeOK, vars, motorVars, historyVars
<1>6. QED  BY <1>1, <1>2, <1>3, <1>4, <1>5 DEF Next

\* The motors, the datagrams, the clock and the histories are always of their
\* types, and only a robot whose last command was a drive drives a distance.
THEOREM TypeCorrect == Spec => []TypeOK
BY InitType, StepType, PTL DEF Spec

-----------------------------------------------------------------------------
(* A reset ends what the robot was doing.                                  *)

LEMMA StepResetStops == TypeOK /\ ResetStops /\ [Next]_vars => ResetStops'
<1> SUFFICES ASSUME TypeOK, ResetStops, [Next]_vars PROVE ResetStops'
  OBVIOUS
<1>1. ASSUME NEW m \in Messages, Arrives(m) PROVE ResetStops'
  BY <1>1 DEF Arrives, ResetStops, motorVars, historyVars
<1>2. ASSUME NEW elapsed \in 0 .. MaxElapsed, Update(elapsed) PROVE ResetStops'
  <2>1. CASE UNCHANGED <<motorVars, ahead, pace, order>>
    BY <2>1 DEF ResetStops, motorVars
  <2>2. ASSUME NEW dt \in MinDt .. MaxDt, Roll(dt) PROVE ResetStops'
    BY <2>2 DEF Roll, SpeedAfter, ResetStops
  <2>3. ASSUME NEW dt \in MinDt .. MaxDt, NEW m \in Messages, Handle(m, dt) PROVE ResetStops'
    BY <2>2, <2>3 DEF Handle, HandleDrive, HandleSetSpeed, ResetStops
  <2>4. QED  BY <1>2, <2>1, <2>2, <2>3, UpdateCases
<1>3. CASE Reset
  BY <1>3 DEF Reset, ResetStops
<1>4. CASE ClockSetBack
  BY <1>4 DEF ClockSetBack, ResetStops, motorVars, historyVars
<1>5. CASE UNCHANGED vars
  BY <1>5 DEF ResetStops, vars, motorVars, historyVars
<1>6. QED  BY <1>1, <1>2, <1>3, <1>4, <1>5 DEF Next

\* Until a robot that was reset reads a command, its wheels stand still, whatever
\* polls, rejected messages, clock changes and updates come in between.
THEOREM ResetAlwaysStops == Spec => []ResetStops
<1>1. Init => ResetStops
  BY DEF Init, ResetStops
<1>2. QED  BY <1>1, TypeCorrect, StepResetStops, PTL DEF Spec

-----------------------------------------------------------------------------
(* Drives are accurate.                                                    *)

\* How far ahead a wheel is when it has been told to drive d.
LEMMA DriveStarts ==
    ASSUME TypeOK, scale > 0, NEW dt \in MinDt .. MaxDt,
           NEW d \in [Wheels -> Distances], HandleDrive(d, dt), NEW w \in Wheels
    PROVE  IF speed'[w] = 0 THEN Stopped(w)' ELSE Turning(w)'
<1>1. MotorsTyped'
  BY DriveType
<1>2. /\ speed'[w] = DriveSpeed(w, d, SpeedAfter(dt))
      /\ pace'[w] = Magnitude(speed'[w])
      /\ distance'[w] = d[w]
      /\ drive' = "distance"
      /\ ahead'[w] = Counted(speed'[w] * dt - distance'[w])
  BY DEF HandleDrive
<1>3. d[w] \in Int /\ scale \in Int /\ speed'[w] \in Int /\ ahead'[w] \in Int
  <2>1. d[w] \in Distances /\ scale \in Scales \cup {1} /\ ahead'[w] \in -Far .. Far
    BY <1>1 DEF TypeOK, MotorsTyped
  <2>2. \A x \in -Far .. Far : x \in Int
    BY ConstantsFit DEF ModelAssumptions
  <2>3. Distances \subseteq -Far .. Far /\ Scales \subseteq Int
    BY ConstantsFit DEF ModelAssumptions
  <2>4. d[w] \in Int
    BY <2>1, <2>2, <2>3
  <2>5. scale \in Int
    BY <2>1, <2>3
  <2>6. QED  BY <1>1, <2>1, <2>2, <2>4, <2>5 DEF MotorsTyped
<1>4. CASE d[w] = 0
  <2>1. SameWay(speed'[w], distance'[w])
    BY <1>2, <1>4 DEF SameWay
  <2>2. ASSUME speed'[w] = 0 PROVE Stopped(w)'
    <3>1. ahead'[w] = 0 /\ pace'[w] = 0
      <4>1. speed'[w] * dt - distance'[w] = 0
        BY <1>2, <1>4, <2>2, ConstantsFit DEF ModelAssumptions
      <4>2. QED  BY <1>2, <2>2, <4>1, CountedRange, ConstantsFit DEF ModelAssumptions, Magnitude
    <3>2. QED  BY <3>1, ConstantsFit DEF Stopped, Magnitude, ModelAssumptions
  <2>3. QED  BY <1>2, <2>1, <2>2 DEF Turning
<1>5. CASE d[w] # 0
  <2>1. speed'[w] = Signum(d[w]) * scale
    BY <1>2, <1>5 DEF DriveSpeed
  <2>2. d[w] > 0 => speed'[w] > 0
    BY <1>3, <2>1 DEF Signum
  <2>3. d[w] < 0 => speed'[w] < 0
    BY <1>3, <2>1 DEF Signum
  <2>4. speed'[w] # 0 /\ SameWay(speed'[w], distance'[w])
    BY <1>2, <1>3, <1>5, <2>2, <2>3 DEF SameWay
  <2>5. QED  BY <1>2, <2>4 DEF Turning
<1>6. QED  BY <1>4, <1>5

\* A number that is counted goes on being counted the same, when it is not below
\* the bound and what is added takes it away from there; so on the other side.
LEMMA CountedGoesOn ==
    ASSUME NEW x \in Int, NEW y \in Int,
           \/ y >= 0 /\ x >= -Far
           \/ y <= 0 /\ x <= Far
    PROVE  Counted(Counted(x) + y) = Counted(x + y)
BY ConstantsFit DEF Counted, Clamp, ModelAssumptions

\* A wheel that goes on turning is as far ahead as before, counted with what is
\* left now.
LEMMA TurnsOn ==
    ASSUME TypeOK, order = "drive", NEW dt \in MinDt .. MaxDt, Roll(dt),
           NEW w \in Wheels, speed[w] # 0, Turning(w), ~Reached(w, dt)
    PROVE  /\ speed'[w] = speed[w]
           /\ SameWay(speed[w], distance'[w])
           /\ \E t \in MinDt .. MaxDt : ahead'[w] = Counted(speed[w] * t - distance'[w])
<1> DEFINE s == speed[w]
           x == distance[w]
<1>1. s \in Int /\ x \in -Far .. Far /\ x \in Int /\ s # 0
  BY ConstantsFit DEF TypeOK, ModelAssumptions
<1>2. SameWay(s, x) /\ drive = "distance"
  BY DEF Turning
<1>3. PICK t \in MinDt .. MaxDt : ahead[w] = Counted(s * t - x)
  BY DEF Turning
<1>4. s * dt \in Int /\ (s > 0 => s * dt > 0) /\ (s < 0 => s * dt < 0)
  BY <1>1, StepCovers
<1>5. s * t \in Int /\ (s > 0 => s * t > 0) /\ (s < 0 => s * t < 0)
  BY <1>1, StepCovers
<1>6. Magnitude(x) >= Magnitude(s * dt)
  BY <1>1, <1>4 DEF Reached, Magnitude
<1> HIDE DEF s, x
<1>7. SameWay(s, x - s * dt) /\ x - s * dt \in -Far .. Far
  <2>1. CASE s > 0
    BY <1>1, <1>2, <1>4, <1>6, <2>1, ConstantsFit DEF SameWay, Magnitude, ModelAssumptions
  <2>2. CASE s < 0
    BY <1>1, <1>2, <1>4, <1>6, <2>2, ConstantsFit DEF SameWay, Magnitude, ModelAssumptions
  <2>3. QED  BY <1>1, <2>1, <2>2
<1>8. Counted(x - s * dt) = x - s * dt
  BY <1>1, <1>4, <1>7, CountedRange
<1>9. speed'[w] = s /\ distance'[w] = x - s * dt /\ ahead'[w] = Counted(ahead[w] + s * dt)
  BY <1>2, <1>8 DEF Roll, SpeedAfter, DistanceAfter, s, x
<1>10. Counted(ahead[w] + s * dt) = Counted(s * t - (x - s * dt))
  <2>1. \/ s * dt >= 0 /\ s * t - x >= -Far
        \/ s * dt <= 0 /\ s * t - x <= Far
    BY <1>1, <1>4, <1>5, ConstantsFit DEF ModelAssumptions
  <2>2. s * t - x \in Int
    BY <1>1, <1>5
  <2>3. Counted(Counted(s * t - x) + s * dt) = Counted((s * t - x) + s * dt)
    BY <1>4, <2>1, <2>2, CountedGoesOn
  <2>4. (s * t - x) + s * dt = s * t - (x - s * dt)
    BY <1>1, <1>4, <1>5
  <2>5. QED  BY <1>3, <2>3, <2>4
<1>11. QED  BY <1>7, <1>9, <1>10 DEF s

\* A wheel that stops is within one update of its goal.
LEMMA StopsThere ==
    ASSUME TypeOK, order = "drive", NEW dt \in MinDt .. MaxDt, Roll(dt),
           NEW w \in Wheels, speed[w] # 0, Turning(w), Reached(w, dt)
    PROVE  speed'[w] = 0 /\ Stopped(w)'
<1> DEFINE s == speed[w]
           x == distance[w]
<1>1. s \in Int /\ x \in Int /\ s # 0
  BY ConstantsFit DEF TypeOK, ModelAssumptions
<1>2. SameWay(s, x) /\ drive = "distance" /\ pace[w] = Magnitude(s)
  BY DEF Turning
<1>3. PICK t \in MinDt .. MaxDt : ahead[w] = Counted(s * t - x)
  BY DEF Turning
<1>4. s * dt \in Int /\ Magnitude(s * dt) <= Magnitude(s) * MaxDt
  BY <1>1, StepCovers
<1>5. /\ s * t \in Int /\ Magnitude(s * t) <= Magnitude(s) * MaxDt
      /\ (s > 0 => s * t > 0) /\ (s < 0 => s * t < 0)
  BY <1>1, StepCovers
<1>6. Magnitude(x) < Magnitude(s * dt)
  BY <1>1, <1>4 DEF Reached, Magnitude
<1>7. speed'[w] = 0
  BY <1>2 DEF Roll, SpeedAfter
<1>8. ahead[w] \in -Far .. Far /\ ahead[w] \in Int
  BY ConstantsFit DEF TypeOK, ModelAssumptions
<1>9. ahead'[w] = ahead[w] /\ pace'[w] = pace[w]
  <2>1. ahead'[w] = Counted(ahead[w] + speed'[w] * dt)
    BY DEF Roll
  <2>2. ahead[w] + speed'[w] * dt = ahead[w]
    BY <1>7, <1>8, ConstantsFit DEF ModelAssumptions
  <2>3. QED  BY <1>8, <2>1, <2>2, CountedRange DEF Roll
<1> HIDE DEF s, x
<1>10. Magnitude(s * t - x) <= Magnitude(s) * MaxDt
  <2>1. Magnitude(s) * MaxDt \in Int
    BY <1>1, ConstantsFit DEF Magnitude, ModelAssumptions
  <2> DEFINE p == s * t
             q == s * dt
             most == Magnitude(s) * MaxDt
  <2>2. /\ p \in Int /\ q \in Int /\ most \in Int
        /\ Magnitude(p) <= most /\ Magnitude(q) <= most /\ Magnitude(x) < Magnitude(q)
        /\ (s > 0 => p > 0) /\ (s < 0 => p < 0)
    BY <1>4, <1>5, <1>6, <2>1
  <2> HIDE DEF p, q, most
  <2>3. Magnitude(p - x) <= most
    BY <1>1, <1>2, <2>2 DEF SameWay, Magnitude
  <2>4. QED  BY <2>3 DEF p, most
<1>11. Magnitude(ahead[w]) <= Magnitude(s) * MaxDt
  <2>1. s * t - x \in Int /\ Magnitude(s) * MaxDt \in Int
    BY <1>1, <1>5, ConstantsFit DEF Magnitude, ModelAssumptions
  <2>2. Magnitude(Counted(s * t - x)) <= Magnitude(s * t - x)
    BY <2>1, CountedRange
  <2>3. Magnitude(s * t - x) \in Int /\ Magnitude(Counted(s * t - x)) \in Int
    BY <2>1, <1>3, <1>8 DEF Magnitude
  <2>4. QED  BY <1>3, <1>10, <2>1, <2>2, <2>3
<1>12. QED  BY <1>2, <1>7, <1>9, <1>11 DEF Stopped

\* A wheel that stands stays where it is.
LEMMA StandsStill ==
    ASSUME TypeOK, order = "drive", NEW dt \in MinDt .. MaxDt, Roll(dt),
           NEW w \in Wheels, speed[w] = 0, Stopped(w)
    PROVE  speed'[w] = 0 /\ Stopped(w)'
<1>1. speed'[w] = 0
  BY DEF Roll, SpeedAfter
<1>2. ahead[w] \in -Far .. Far /\ ahead[w] \in Int
  BY ConstantsFit DEF TypeOK, ModelAssumptions
<1>3. ahead[w] + speed'[w] * dt = ahead[w]
  BY <1>1, <1>2, ConstantsFit DEF ModelAssumptions
<1>4. ahead'[w] = ahead[w] /\ pace'[w] = pace[w]
  BY <1>2, <1>3, CountedRange DEF Roll
<1>5. QED  BY <1>1, <1>4 DEF Stopped

\* The motors run on, towards what the wheels were told.
LEMMA RollKeepsDriveInv ==
    ASSUME TypeOK, DriveInv, NEW dt \in MinDt .. MaxDt, Roll(dt), UNCHANGED scale
    PROVE  DriveInv'
<1> SUFFICES ASSUME order = "drive", scale > 0, NEW w \in Wheels
             PROVE  IF speed'[w] = 0 THEN Stopped(w)' ELSE Turning(w)'
  BY DEF DriveInv, Roll, Stopped, Turning
<1>1. CASE speed[w] = 0
  BY <1>1, StandsStill DEF DriveInv
<1>2. CASE speed[w] # 0 /\ Reached(w, dt)
  BY <1>2, StopsThere DEF DriveInv
<1>3. CASE speed[w] # 0 /\ ~Reached(w, dt)
  <2>1. Turning(w)
    BY <1>3 DEF DriveInv
  <2>2. /\ speed'[w] = speed[w]
        /\ SameWay(speed[w], distance'[w])
        /\ \E t \in MinDt .. MaxDt : ahead'[w] = Counted(speed[w] * t - distance'[w])
    BY <1>3, <2>1, TurnsOn
  <2>3. drive' = "distance" /\ pace'[w] = Magnitude(speed'[w])
    BY <1>3, <2>1, <2>2 DEF Turning, Roll, DriveAfter, SpeedAfter
  <2>4. QED  BY <1>3, <2>2, <2>3 DEF Turning
<1>4. QED  BY <1>1, <1>2, <1>3

LEMMA StepDriveInv == TypeOK /\ DriveInv /\ [Next]_vars => DriveInv'
<1> SUFFICES ASSUME TypeOK, DriveInv, [Next]_vars PROVE DriveInv'
  OBVIOUS
<1>1. ASSUME UNCHANGED <<motorVars, ahead, pace, order>> PROVE DriveInv'
  BY <1>1 DEF DriveInv, Stopped, Turning, motorVars
<1>2. ASSUME NEW m \in Messages, Arrives(m) PROVE DriveInv'
  BY <1>1, <1>2 DEF Arrives, historyVars
<1>3. ASSUME NEW elapsed \in 0 .. MaxElapsed, Update(elapsed) PROVE DriveInv'
  <2>1. UNCHANGED scale
    BY <1>3, UpdateCases
  <2>2. ASSUME NEW dt \in MinDt .. MaxDt, NEW m \in Messages, Handle(m, dt) PROVE DriveInv'
    <3>1. CASE m.kind = "drive"
      <4>1. HandleDrive(m.by, dt) /\ m.by \in [Wheels -> Distances]
        BY <2>2, <3>1, MessageType DEF Handle
      <4>2. scale > 0 => \A w \in Wheels : IF speed'[w] = 0 THEN Stopped(w)' ELSE Turning(w)'
        BY <4>1, DriveStarts
      <4>3. QED  BY <2>1, <4>2 DEF DriveInv
    <3>2. CASE m.kind = "setSpeed"
      BY <2>2, <3>2 DEF Handle, HandleSetSpeed, DriveInv
    <3>3. CASE m.kind # "drive" /\ m.kind # "setSpeed"
      <4>1. Roll(dt)
        BY <2>2, <3>3 DEF Handle
      <4>2. QED  BY <2>1, <4>1, RollKeepsDriveInv
    <3>4. QED  BY <3>1, <3>2, <3>3
  <2>3. ASSUME NEW dt \in MinDt .. MaxDt, Roll(dt) PROVE DriveInv'
    BY <2>1, <2>3, RollKeepsDriveInv
  <2>4. QED  BY <1>1, <1>3, <2>2, <2>3, UpdateCases
<1>4. CASE Reset
  BY <1>4 DEF Reset, DriveInv
<1>5. CASE ClockSetBack
  BY <1>1, <1>5 DEF ClockSetBack, historyVars
<1>6. CASE UNCHANGED vars
  BY <1>1, <1>6 DEF vars, historyVars
<1>7. QED  BY <1>2, <1>3, <1>4, <1>5, <1>6 DEF Next

\* When a drive is over, each wheel has turned by what it was told to within one
\* update, for any distances, scales and times of the updates, with any polls,
\* rejected messages and clock changes on the way.
THEOREM DriveAlwaysAccurate == Spec => []DriveAccurate
<1>1. Init => DriveInv
  BY DEF Init, DriveInv
<1>2. TypeOK /\ DriveInv => DriveAccurate
  BY DEF TypeOK, DriveInv, DriveAccurate, Stopped, Turning
<1>3. QED  BY <1>1, <1>2, TypeCorrect, StepDriveInv, PTL DEF Spec

-----------------------------------------------------------------------------
(* Drives come to an end: the safety part of DriveEnds.                    *)

\* As long as the last command is a drive, of a robot whose speed is not scaled
\* backwards, a wheel that turns does so towards its goal.
TurnInv ==
    order = "drive" /\ scale >= 0
        => \A w \in Wheels : speed[w] # 0 => drive = "distance" /\ SameWay(speed[w], distance[w])

\* How far a wheel is from the end of its drive.
Left(w) == IF speed[w] = 0 THEN 0 ELSE Magnitude(distance[w]) + 1

\* An update in which no command is obeyed takes each wheel that turns nearer to
\* the end of its drive, by what it covers in the shortest update or to the very
\* end, and leaves the others there.  With the last of them the drive is over.
DriveGetsOn ==
    [][\A dt \in MinDt .. MaxDt :
          Roll(dt) /\ drive = "distance" /\ scale >= 0 =>
              /\ \A w \in Wheels : Left(w)' = 0 \/ Left(w)' <= Left(w) - Magnitude(speed[w]) * MinDt
              /\ \A w \in Wheels : speed[w] # 0 => Left(w)' < Left(w)
              /\ (\A w \in Wheels : Left(w)' = 0) => drive' = "speed"]_vars

LEMMA StartsTowards ==
    ASSUME TypeOK, scale >= 0, NEW dt \in MinDt .. MaxDt,
           NEW d \in [Wheels -> Distances], HandleDrive(d, dt), NEW w \in Wheels, speed'[w] # 0
    PROVE  SameWay(speed'[w], distance'[w])
<1>1. speed'[w] = DriveSpeed(w, d, SpeedAfter(dt)) /\ distance'[w] = d[w]
  BY DEF HandleDrive
<1>2. scale \in Int /\ d[w] \in Int
  <2>1. d[w] \in Distances /\ scale \in Scales \cup {1}
    BY DEF TypeOK
  <2>2. \A x \in -Far .. Far : x \in Int
    BY ConstantsFit DEF ModelAssumptions
  <2>3. Distances \subseteq -Far .. Far /\ Scales \subseteq Int
    BY ConstantsFit DEF ModelAssumptions
  <2>4. scale \in Int
    BY <2>1, <2>3
  <2>5. d[w] \in Int
    BY <2>1, <2>2, <2>3
  <2>6. QED  BY <2>4, <2>5
<1>3. CASE d[w] = 0
  BY <1>1, <1>3 DEF SameWay
<1>4. CASE d[w] > 0
  <2>1. speed'[w] = scale
    BY <1>1, <1>2, <1>4 DEF DriveSpeed, Signum
  <2>2. QED  BY <1>1, <1>2, <1>4, <2>1 DEF SameWay
<1>5. CASE d[w] < 0
  <2>1. speed'[w] = -scale
    BY <1>1, <1>2, <1>5 DEF DriveSpeed, Signum
  <2>2. QED  BY <1>1, <1>2, <1>5, <2>1 DEF SameWay
<1>6. QED  BY <1>2, <1>3, <1>4, <1>5

\* What an update leaves of the way of a wheel that goes on turning.
LEMMA NearerBy ==
    ASSUME TypeOK, NEW dt \in MinDt .. MaxDt, Roll(dt), drive = "distance", NEW w \in Wheels,
           speed[w] # 0, SameWay(speed[w], distance[w]), ~Reached(w, dt)
    PROVE  /\ speed'[w] = speed[w]
           /\ SameWay(speed[w], distance'[w])
           /\ Magnitude(distance'[w]) <= Magnitude(distance[w]) - Magnitude(speed[w]) * MinDt
           /\ Magnitude(speed[w]) * MinDt \in Nat \ {0}
           /\ Magnitude(distance'[w]) \in Nat /\ Magnitude(distance[w]) \in Nat
<1> DEFINE s == speed[w]
           x == distance[w]
<1>1. s \in Int /\ x \in -Far .. Far /\ x \in Int /\ s # 0
  BY ConstantsFit DEF TypeOK, ModelAssumptions
<1>2. SameWay(s, x)
  OBVIOUS
<1>3. s * dt \in Int /\ (s > 0 => s * dt > 0) /\ (s < 0 => s * dt < 0)
  BY <1>1, StepCovers
<1>4. Magnitude(x) >= Magnitude(s * dt)
  BY <1>1, <1>3 DEF Reached, Magnitude
<1>5. Magnitude(s * dt) >= Magnitude(s) * MinDt /\ Magnitude(s) * MinDt \in Nat \ {0}
  <2>1. MinDt \in Nat \ {0} /\ dt \in Nat /\ MinDt <= dt
    BY ConstantsFit DEF ModelAssumptions
  <2>2. ASSUME NEW a \in Nat \ {0} PROVE a * dt >= a * MinDt /\ a * MinDt \in Nat \ {0}
    BY <2>1
  <2>3. CASE s > 0
    BY <1>1, <1>3, <2>2, <2>3 DEF Magnitude
  <2>4. CASE s < 0
    <3>1. -s \in Nat \ {0} /\ (-s) * dt = -(s * dt)
      BY <1>1, <2>1, <2>4
    <3>2. Magnitude(s * dt) = (-s) * dt /\ Magnitude(s) = -s
      BY <1>1, <1>3, <2>4, <3>1 DEF Magnitude
    <3>3. QED  BY <2>2, <3>1, <3>2
  <2>5. QED  BY <1>1, <2>3, <2>4
<1> HIDE DEF s, x
<1>6. /\ SameWay(s, x - s * dt) /\ x - s * dt \in -Far .. Far
      /\ Magnitude(x - s * dt) = Magnitude(x) - Magnitude(s * dt)
  <2>1. CASE s > 0
    BY <1>1, <1>2, <1>3, <1>4, <2>1, ConstantsFit DEF SameWay, Magnitude, ModelAssumptions
  <2>2. CASE s < 0
    BY <1>1, <1>2, <1>3, <1>4, <2>2, ConstantsFit DEF SameWay, Magnitude, ModelAssumptions
  <2>3. QED  BY <1>1, <2>1, <2>2
<1>7. Counted(x - s * dt) = x - s * dt
  BY <1>1, <1>3, <1>6, CountedRange
<1>8. speed'[w] = s /\ distance'[w] = x - s * dt
  BY <1>7 DEF Roll, SpeedAfter, DistanceAfter, s, x
<1>9. /\ Magnitude(x) \in Nat /\ Magnitude(s * dt) \in Nat /\ Magnitude(x - s * dt) \in Nat
  BY <1>1, <1>3 DEF Magnitude
<1>10. Magnitude(x - s * dt) <= Magnitude(x) - Magnitude(s) * MinDt
  BY <1>5, <1>6, <1>9
<1>11. QED  BY <1>5, <1>6, <1>8, <1>9, <1>10 DEF s, x

LEMMA StepTurn == TypeOK /\ TurnInv /\ [Next]_vars => TurnInv'
<1> SUFFICES ASSUME TypeOK, TurnInv, [Next]_vars PROVE TurnInv'
  OBVIOUS
<1>1. ASSUME UNCHANGED <<motorVars, ahead, pace, order>> PROVE TurnInv'
  BY <1>1 DEF TurnInv, motorVars
<1>2. ASSUME NEW m \in Messages, Arrives(m) PROVE TurnInv'
  BY <1>1, <1>2 DEF Arrives, historyVars
<1>3. ASSUME NEW elapsed \in 0 .. MaxElapsed, Update(elapsed) PROVE TurnInv'
  <2>1. UNCHANGED scale
    BY <1>3, UpdateCases
  <2>2. ASSUME NEW dt \in MinDt .. MaxDt, Roll(dt) PROVE TurnInv'
    <3> SUFFICES ASSUME order = "drive", scale >= 0, NEW w \in Wheels, speed'[w] # 0
                 PROVE  drive' = "distance" /\ SameWay(speed'[w], distance'[w])
      BY <2>1, <2>2 DEF TurnInv, Roll
    <3>1. speed'[w] = SpeedAfter(dt)[w] /\ speed[w] # 0
      BY <2>2 DEF Roll, SpeedAfter
    <3>2. drive = "distance" /\ SameWay(speed[w], distance[w])
      BY <3>1 DEF TurnInv
    <3>3. ~Reached(w, dt)
      BY <3>1, <3>2 DEF SpeedAfter
    <3>4. drive' = "distance"
      BY <2>2, <3>1, <3>2 DEF Roll, DriveAfter
    <3>5. QED  BY <2>2, <3>1, <3>2, <3>3, <3>4, NearerBy
  <2>3. ASSUME NEW dt \in MinDt .. MaxDt, NEW m \in Messages, Handle(m, dt) PROVE TurnInv'
    <3>1. CASE m.kind = "drive"
      <4>1. HandleDrive(m.by, dt) /\ m.by \in [Wheels -> Distances]
        BY <2>3, <3>1, MessageType DEF Handle
      <4>2. scale >= 0 => \A w \in Wheels : speed'[w] # 0 => SameWay(speed'[w], distance'[w])
        BY <4>1, StartsTowards
      <4>3. QED  BY <2>1, <4>1, <4>2 DEF TurnInv, HandleDrive
    <3>2. CASE m.kind = "setSpeed"
      BY <2>3, <3>2 DEF Handle, HandleSetSpeed, TurnInv
    <3>3. CASE m.kind # "drive" /\ m.kind # "setSpeed"
      BY <2>2, <2>3, <3>3 DEF Handle
    <3>4. QED  BY <3>1, <3>2, <3>3
  <2>4. QED  BY <1>1, <1>3, <2>2, <2>3, UpdateCases
<1>4. CASE Reset
  BY <1>4 DEF Reset, TurnInv
<1>5. CASE ClockSetBack
  BY <1>1, <1>5 DEF ClockSetBack, historyVars
<1>6. CASE UNCHANGED vars
  BY <1>1, <1>6 DEF vars, historyVars
<1>7. QED  BY <1>2, <1>3, <1>4, <1>5, <1>6 DEF Next

\* While a drive is not interrupted each update brings it nearer to its end, for
\* any distances, speeds and times of the updates: so it has one, at most one
\* update after its longest distance is covered in the shortest steps.
THEOREM DriveAlwaysGetsOn == Spec => DriveGetsOn
<1>1. Init => TurnInv
  BY DEF Init, TurnInv
<1>2. ASSUME TypeOK, TurnInv, NEW dt \in MinDt .. MaxDt, Roll(dt), drive = "distance", scale >= 0
      PROVE  /\ \A w \in Wheels : Left(w)' = 0 \/ Left(w)' <= Left(w) - Magnitude(speed[w]) * MinDt
             /\ \A w \in Wheels : speed[w] # 0 => Left(w)' < Left(w)
             /\ (\A w \in Wheels : Left(w)' = 0) => drive' = "speed"
  <2>1. order = "drive"
    BY <1>2 DEF TypeOK
  <2>2. ASSUME NEW w \in Wheels
        PROVE  /\ Left(w)' = 0 \/ Left(w)' <= Left(w) - Magnitude(speed[w]) * MinDt
               /\ speed[w] # 0 => Left(w)' < Left(w)
               /\ Left(w)' = 0 => speed'[w] = 0
    <3>1. Magnitude(distance[w]) \in Nat /\ Magnitude(distance'[w]) \in Nat
      <4>1. distance[w] \in -Far .. Far /\ distance'[w] \in -Far .. Far
        BY <1>2, RollType DEF TypeOK, MotorsTyped
      <4>2. \A x \in -Far .. Far : Magnitude(x) \in Nat
        BY ConstantsFit DEF Magnitude, ModelAssumptions
      <4>3. QED  BY <4>1, <4>2
    <3>2. Left(w)' = 0 => speed'[w] = 0
      BY <3>1 DEF Left
    <3>3. CASE speed'[w] = 0
      BY <3>1, <3>3 DEF Left
    <3>4. CASE speed'[w] # 0
      <4>1. speed[w] # 0 /\ ~Reached(w, dt)
        BY <1>2, <3>4 DEF Roll, SpeedAfter
      <4>2. SameWay(speed[w], distance[w])
        BY <1>2, <2>1, <4>1 DEF TurnInv
      <4>3. /\ Magnitude(distance'[w]) <= Magnitude(distance[w]) - Magnitude(speed[w]) * MinDt
            /\ Magnitude(speed[w]) * MinDt \in Nat \ {0}
        BY <1>2, <4>1, <4>2, NearerBy
      <4>4. Left(w)' = Magnitude(distance'[w]) + 1 /\ Left(w) = Magnitude(distance[w]) + 1
        BY <3>4, <4>1 DEF Left
      <4>5. QED  BY <3>1, <3>2, <4>3, <4>4
    <3>5. QED  BY <3>3, <3>4
  <2>3. (\A w \in Wheels : speed'[w] = 0) => drive' = "speed"
    BY <1>2 DEF Roll, DriveAfter
  <2>4. QED  BY <2>2, <2>3
<1>3. TypeOK /\ TurnInv /\ [Next]_vars =>
        [\A dt \in MinDt .. MaxDt :
            Roll(dt) /\ drive = "distance" /\ scale >= 0 =>
              /\ \A w \in Wheels : Left(w)' = 0 \/ Left(w)' <= Left(w) - Magnitude(speed[w]) * MinDt
              /\ \A w \in Wheels : speed[w] # 0 => Left(w)' < Left(w)
              /\ (\A w \in Wheels : Left(w)' = 0) => drive' = "speed"]_vars
  BY <1>2
<1>4. QED  BY <1>1, <1>3, TypeCorrect, StepTurn, PTL DEF Spec, DriveGetsOn

=============================================================================
