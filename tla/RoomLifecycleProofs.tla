------------------------ MODULE RoomLifecycleProofs ------------------------
(***************************************************************************)
(* Safety of RoomLifecycle for any rooms, users, announcement interval and *)
(* clock.                                                                  *)
(***************************************************************************)
EXTENDS RoomLifecycle, TLAPS

ModelAssumptions ==
    Interval \in Nat /\ MaxTime \in Nat /\ Nobody \notin Users \cup Rooms

LEMMA ConstantsFit == ModelAssumptions
BY TimeAssumption, NobodyAssumption DEF ModelAssumptions

Announcement == [step : {"idle", "exchange", "report"},
                 time : 0 .. MaxTime, saved : 0 .. MaxTime]

\* An announcement that begins is typed, and is not reporting yet; it has read
\* the time that an exchange would now find.
LEMMA BeginType ==
    ASSUME TypeOK, NEW i \in Rooms, NEW k \in {"join", "tick", "create"},
           NEW f \in BOOLEAN, BeginAnnounce(<<k, i>>, f)
    PROVE  /\ announcing' \in [Announcers -> Announcement]
           /\ announcing'[<<k, i>>].step # "report"
           /\ announcing'[<<k, i>>].step = "exchange" =>
                announcing'[<<k, i>>].saved = lastAnnounce[i]
           /\ f => announcing'[<<k, i>>].step = "exchange"
           /\ \A p \in Announcers : p # <<k, i>> => announcing'[p] = announcing[p]
<1> DEFINE new == [step |-> "exchange", time |-> now, saved |-> lastAnnounce[i]]
<1>1. new \in Announcement /\ Quiet \in Announcement
  BY ConstantsFit DEF TypeOK, Announcement, Quiet, ModelAssumptions
<1>2. <<k, i>> \in Announcers /\ About(<<k, i>>) = i
  BY DEF Announcers, About
<1>3. announcing \in [Announcers -> Announcement]
  BY DEF TypeOK, Announcement
<1>4. \/ announcing' = [announcing EXCEPT ![<<k, i>>] = new]
      \/ ~f /\ announcing' = [announcing EXCEPT ![<<k, i>>] = Quiet]
  BY <1>2 DEF BeginAnnounce
<1>5. QED  BY <1>1, <1>2, <1>3, <1>4 DEF Quiet

LEMMA InitType == Init => TypeOK
BY ConstantsFit DEF Init, TypeOK, Quiet, ModelAssumptions

LEMMA StepType == TypeOK /\ [Next]_vars => TypeOK'
<1> SUFFICES ASSUME TypeOK, [Next]_vars PROVE TypeOK'
  OBVIOUS
<1> USE ConstantsFit DEF ModelAssumptions, roomVars, taskVars, eventVars, wsVars, cleanVars, announceVars
<1>1. ASSUME NEW p \in Announcers, Exchange(p) PROVE TypeOK'
  <2>1. announcing[p] \in Announcement /\ About(p) \in Rooms
    BY DEF TypeOK, Announcers, About, Announcement
  <2>2. lastAnnounce' \in [Rooms -> 0 .. MaxTime]
    BY <1>1, <2>1 DEF Exchange, TypeOK, Announcement
  <2>3. announcing' \in [Announcers -> Announcement]
    <3>1. [announcing[p] EXCEPT !.step = "report"] \in Announcement /\ Quiet \in Announcement
      BY <2>1, ConstantsFit DEF Announcement, Quiet, ModelAssumptions
    <3>2. announcing \in [Announcers -> Announcement]
      BY DEF TypeOK, Announcement
    <3>3. QED  BY <1>1, <3>1, <3>2 DEF Exchange
  <2>4. QED  BY <1>1, <2>2, <2>3 DEF Exchange, Announcement, TypeOK
<1>2. ASSUME NEW p \in Announcers, Report(p) PROVE TypeOK'
  BY <1>2 DEF Report, Announcers, About, Quiet, TypeOK
<1>3. ASSUME TimePasses PROVE TypeOK'
  BY <1>3 DEF TimePasses, TypeOK
<1>4. ASSUME NEW i \in Rooms, Create(i) PROVE TypeOK'
  BY <1>4 DEF Create, TypeOK
<1>5. ASSUME NEW i \in Rooms, List(i) PROVE TypeOK'
  BY <1>5 DEF List, TypeOK
<1>6. ASSUME NEW i \in Rooms, Launch(i) PROVE TypeOK'
  BY <1>6 DEF Launch, TypeOK
<1>7. ASSUME NEW i \in Rooms, AnnounceCreated(i) PROVE TypeOK'
  <2>1. BeginAnnounce(<<"create", i>>, TRUE)
    BY <1>7 DEF AnnounceCreated
  <2>2. announcing' \in [Announcers -> Announcement]
    BY <2>1, BeginType
  <2>3. QED  BY <1>7, <2>2 DEF AnnounceCreated, Announcement, TypeOK
<1>8. ASSUME NEW i \in Rooms, TickChecks(i) PROVE TypeOK'
  BY <1>8 DEF TickChecks, TypeOK
<1>9. ASSUME NEW i \in Rooms, TickEnds(i) PROVE TypeOK'
  BY <1>9 DEF TickEnds, DropBy, TypeOK
<1>10. ASSUME NEW i \in Rooms, NEW away \in SUBSET sockets[i], TickTurn(i, away) PROVE TypeOK'
  <2>1. BeginAnnounce(<<"tick", i>>, FALSE)
    BY <1>10 DEF TickTurn
  <2>2. announcing' \in [Announcers -> Announcement]
    BY <2>1, BeginType
  <2>3. QED  BY <1>10, <2>2 DEF TickTurn, Announcement, TypeOK
<1>11. ASSUME NEW i \in Rooms, Expire(i) PROVE TypeOK'
  BY <1>11 DEF Expire, TypeOK
<1>12. ASSUME NEW i \in Rooms, LoadProject(i) PROVE TypeOK'
  BY <1>12 DEF LoadProject, TypeOK
<1>13. ASSUME NEW i \in Rooms, VMEnds(i) PROVE TypeOK'
  BY <1>13 DEF VMEnds, TypeOK
<1>14. ASSUME NEW i \in Rooms, VMListens(i) PROVE TypeOK'
  BY <1>14 DEF VMListens, TypeOK
<1>15. ASSUME NEW i \in Rooms, VMSteps(i) PROVE TypeOK'
  BY <1>15 DEF VMSteps, TypeOK
<1>16. ASSUME NEW i \in Rooms, NetEnds(i) PROVE TypeOK'
  BY <1>16 DEF NetEnds, TypeOK
<1>17. ASSUME NEW i \in Rooms, NetPolls(i) PROVE TypeOK'
  BY <1>17 DEF NetPolls, TypeOK
<1>18. ASSUME NEW i \in Rooms, NetForwards(i) PROVE TypeOK'
  BY <1>18 DEF NetForwards, TypeOK
<1>19. ASSUME NEW i \in Rooms, Forward(i) PROVE TypeOK'
  BY <1>19 DEF Forward, TypeOK
<1>20. ASSUME NEW i \in Rooms, JoinThread(i) PROVE TypeOK'
  BY <1>20 DEF JoinThread, TypeOK
<1>21. ASSUME NEW u \in Users, NEW i \in Rooms, LookUp(u, i) PROVE TypeOK'
  BY <1>21 DEF LookUp, TypeOK
<1>22. ASSUME GetRoom PROVE TypeOK'
  BY <1>22 DEF GetRoom, TypeOK
<1>23. ASSUME WrongPassword PROVE TypeOK'
  BY <1>23 DEF WrongPassword, TypeOK
<1>33. ASSUME Attach PROVE TypeOK'
  BY <1>33 DEF Attach, TypeOK
<1>24. ASSUME Enter PROVE TypeOK'
  <2>1. BeginAnnounce(<<"join", wsRoom>>, TRUE)
    BY <1>24 DEF Enter
  <2>2. announcing' \in [Announcers -> Announcement]
    BY <1>24, <2>1, BeginType DEF Enter, TypeOK
  <2>3. QED  BY <1>24, <2>2 DEF Enter, Announcement, TypeOK
<1>25. ASSUME TellProgram PROVE TypeOK'
  BY <1>25 DEF TellProgram, TypeOK
<1>26. ASSUME BeginCleanup PROVE TypeOK'
  BY <1>26 DEF BeginCleanup, TypeOK
<1>27. ASSUME BeginRemovals PROVE TypeOK'
  BY <1>27 DEF BeginRemovals, TypeOK
<1>28. ASSUME EndCleanup PROVE TypeOK'
  BY <1>28 DEF EndCleanup, TypeOK
<1>29. ASSUME NEW i \in Rooms, LookAt(i) PROVE TypeOK'
  BY <1>29 DEF LookAt, TypeOK
<1>34. ASSUME StopRoom PROVE TypeOK'
  BY <1>34 DEF StopRoom, TypeOK
<1>35. ASSUME NEW i \in Rooms, NEW away \in SUBSET sockets[i], TickPanics(i, away) PROVE TypeOK'
  <2>1. sockets' \in [Rooms -> SUBSET Users] /\ hibernating' \in [Rooms -> BOOLEAN]
    BY <1>35 DEF TickPanics, TypeOK
  <2>2. tick' \in [Rooms -> {"none", "loop", "turn", "ended", "panicked"}]
    BY <1>35 DEF TickPanics, TypeOK
  <2>3. /\ dropped' \in [Rooms -> {"no", "waiting", "done"}]
        /\ dropper' \in [Rooms -> {"nobody", "tick", "cleanup"}]
    BY <1>35 DEF TickPanics, DropBy, TypeOK
  <2>4. QED  BY <1>35, <2>1, <2>2, <2>3 DEF TickPanics, TypeOK
<1>30. ASSUME NEW i \in Rooms, RemoveRoom(i) PROVE TypeOK'
  BY <1>30 DEF RemoveRoom, DropBy, TypeOK
<1>31. CASE UNCHANGED vars
  BY <1>31 DEF vars, TypeOK
<1>32. QED
  BY <1>1, <1>2, <1>3, <1>4, <1>5, <1>6, <1>7, <1>8, <1>9, <1>10, <1>11,
     <1>12, <1>13, <1>14, <1>15, <1>16, <1>17, <1>18, <1>19, <1>20, <1>21,
     <1>22, <1>23, <1>24, <1>25, <1>26, <1>27, <1>28, <1>29, <1>30, <1>31,
     <1>33, <1>34, <1>35
     DEF Next, Announcing, Creating, Ticking, RunsProgram, Networking, Joining, Cleaning

\* Every variable of RoomLifecycle keeps its type, and a join that is under way
\* knows its user and its room.
THEOREM TypeCorrect == Spec => []TypeOK
BY InitType, StepType, PTL DEF Spec

-----------------------------------------------------------------------------
(* Announcements: what is told of visitors rests on an invariant of its    *)
(* own.                                                                    *)

Announced == BeginsQuiet /\ LosersReported /\ JoinersReported

LEMMA InitAnnounced == Init => Announced
BY NobodyAssumption DEF Init, Announced, BeginsQuiet, LosersReported, JoinersReported, IsQuiet, Announcers

\* Two announcements are the same only if they are of one kind and one room.
LEMMA KindsApart ==
    ASSUME NEW i \in Rooms, NEW j \in Rooms, NEW k \in {"join", "tick", "create"},
           NEW l \in {"join", "tick", "create"}
    PROVE  /\ <<k, i>> \in Announcers /\ About(<<k, i>>) = i
           /\ <<k, i>> = <<l, j>> <=> k = l /\ i = j
BY DEF Announcers, About

\* Steps of other parts of a room leave them alone.
LEMMA AnnouncedUndisturbed ==
    ASSUME Announced,
           UNCHANGED <<stage, tick, wsVars, visitors, reported, lastAnnounce, announcing>>
    PROVE  Announced'
BY DEF Announced, BeginsQuiet, LosersReported, JoinersReported, BeingReported, StillAnnouncing,
       IsQuiet, wsVars

\* An announcement that was under way, or ends, makes none begin early.
LEMMA BeginsQuietKept ==
    ASSUME Announced, NEW p \in Announcers, UNCHANGED <<stage, tick, wsPC, wsRoom>>,
           \A q \in Announcers : q # p => announcing'[q] = announcing[q],
           announcing'[p] = Quiet \/ ~IsQuiet(p)
    PROVE  BeginsQuiet'
<1>1. \A q \in Announcers : announcing[q] = Quiet => announcing'[q] = Quiet
  BY DEF IsQuiet
<1>2. \A i \in Rooms : {<<"create", i>>, <<"tick", i>>, <<"join", i>>} \subseteq Announcers
  BY DEF Announcers
<1>3. QED  BY <1>1, <1>2 DEF Announced, BeginsQuiet, IsQuiet

\* An announcement that starts hides no report: the last of its kind is over.
LEMMA BeginKeepsReports ==
    ASSUME TypeOK, NEW i \in Rooms, NEW k \in {"join", "tick", "create"},
           NEW f \in BOOLEAN, BeginAnnounce(<<k, i>>, f), IsQuiet(<<k, i>>),
           NEW j \in Rooms
    PROVE  BeingReported(j) => BeingReported(j)'
<1> SUFFICES ASSUME BeingReported(j) PROVE BeingReported(j)'
  OBVIOUS
<1>1. PICK p \in Announcers : About(p) = j /\ announcing[p].step = "report"
  BY DEF BeingReported
<1>2. p # <<k, i>>
  BY <1>1 DEF IsQuiet, Quiet
<1>3. announcing'[p] = announcing[p]
  BY <1>2, BeginType
<1>4. QED  BY <1>1, <1>3 DEF BeingReported, About

LEMMA StepAnnounced == TypeOK /\ Announced /\ [Next]_vars => Announced'
<1> SUFFICES ASSUME TypeOK, Announced, [Next]_vars PROVE Announced'
  OBVIOUS
<1> USE DEF roomVars, taskVars, eventVars, wsVars, cleanVars, announceVars
<1>1. ASSUME NEW p \in Announcers, Exchange(p) PROVE Announced'
  <2>1. PICK k \in {"join", "tick", "create"}, i \in Rooms : p = <<k, i>>
    BY DEF Announcers
  <2>2. announcing[p].step = "exchange" /\ UNCHANGED <<stage, tick, wsVars, visitors, reported>>
    BY <1>1 DEF Exchange
  <2>3. ~IsQuiet(p)
    BY <2>2 DEF IsQuiet, Quiet
  <2>4. CASE /\ lastAnnounce[i] = announcing[p].saved
             /\ lastAnnounce' = [lastAnnounce EXCEPT ![i] = announcing[p].time]
             /\ announcing' = [announcing EXCEPT ![p].step = "report"]
    <3>1. BeginsQuiet'
      <4>1. \A q \in Announcers : q # p => announcing'[q] = announcing[q]
        BY <2>4 DEF TypeOK
      <4>2. QED  BY <2>2, <2>3, <4>1, BeginsQuietKept
    <3>2. BeingReported(i)' /\ \A j \in Rooms : BeingReported(j) => BeingReported(j)'
      BY <2>1, <2>4, KindsApart DEF TypeOK, BeingReported, Announcers, About
    <3>3. \A j \in Rooms \ {i} : /\ announcing'[<<"join", j>>] = announcing[<<"join", j>>]
                                 /\ lastAnnounce'[j] = lastAnnounce[j]
      BY <2>1, <2>4, KindsApart DEF TypeOK
    <3>4. LosersReported'
      BY <2>2, <3>2, <3>3 DEF TypeOK, Announced, LosersReported
    <3>5. JoinersReported'
      BY <2>2, <3>2, <3>3 DEF Announced, JoinersReported, StillAnnouncing
    <3>6. QED  BY <3>1, <3>4, <3>5 DEF Announced
  <2>5. CASE /\ lastAnnounce[i] # announcing[p].saved
             /\ announcing' = [announcing EXCEPT ![p] = Quiet]
             /\ UNCHANGED lastAnnounce
    <3>1. BeginsQuiet'
      <4>1. \A q \in Announcers : q # p => announcing'[q] = announcing[q]
        BY <2>5 DEF TypeOK
      <4>2. QED  BY <2>2, <2>3, <4>1, BeginsQuietKept
    <3>2. \A j \in Rooms : BeingReported(j) => BeingReported(j)'
      BY <2>1, <2>2, <2>5 DEF TypeOK, BeingReported
    <3>3. \A j \in Rooms : announcing'[<<"join", j>>].step = "exchange" =>
                              announcing'[<<"join", j>>] = announcing[<<"join", j>>]
      BY <2>1, <2>5, KindsApart DEF TypeOK, Quiet
    <3>4. LosersReported'
      BY <2>2, <2>5, <3>2, <3>3 DEF TypeOK, Announced, LosersReported
    <3>5. JoinersReported'
      <4> SUFFICES ASSUME NEW j \in Rooms, NEW u \in visitors[j]
                   PROVE  u \in reported[j] \/ BeingReported(j)' \/ StillAnnouncing(j, u)'
        BY <2>2 DEF JoinersReported
      <4>1. CASE StillAnnouncing(j, u) /\ p = <<"join", j>>
        <5>1. i = j
          BY <2>1, <4>1, KindsApart
        <5>2. wsPC = "telling" /\ wsUser = u /\ wsRoom = j
          BY <2>1, <2>3, <4>1, <5>1 DEF Announced, BeginsQuiet, StillAnnouncing
        <5>3. announcing[<<"join", j>>].step = "exchange" /\ lastAnnounce[j] # announcing[<<"join", j>>].saved
          BY <2>2, <2>5, <4>1, <5>1
        <5>4. QED  BY <3>2, <5>2, <5>3 DEF Announced, LosersReported
      <4>2. CASE StillAnnouncing(j, u) /\ p # <<"join", j>>
        BY <2>2, <2>5, <4>2, KindsApart DEF TypeOK, StillAnnouncing
      <4>3. CASE ~StillAnnouncing(j, u)
        BY <3>2, <4>3 DEF Announced, JoinersReported
      <4>4. QED  BY <4>1, <4>2, <4>3
    <3>6. QED  BY <3>1, <3>4, <3>5 DEF Announced
  <2>6. QED  BY <1>1, <2>1, <2>4, <2>5, KindsApart DEF Exchange
<1>2. ASSUME NEW p \in Announcers, Report(p) PROVE Announced'
  <2>1. PICK k \in {"join", "tick", "create"}, i \in Rooms : p = <<k, i>>
    BY DEF Announcers
  <2>2. /\ reported' = [reported EXCEPT ![i] = visitors[i]]
        /\ announcing' = [announcing EXCEPT ![p] = Quiet]
        /\ announcing[p].step = "report"
        /\ UNCHANGED <<stage, tick, wsVars, visitors, lastAnnounce>>
    BY <1>2, <2>1, KindsApart DEF Report
  <2>3. BeginsQuiet'
    <3>1. \A q \in Announcers : q # p => announcing'[q] = announcing[q]
      BY <2>2 DEF TypeOK
    <3>2. announcing'[p] = Quiet
      BY <2>2 DEF TypeOK
    <3>3. QED  BY <2>2, <3>1, <3>2, BeginsQuietKept
  <2>4. \A j \in Rooms \ {i} : /\ BeingReported(j) => BeingReported(j)'
                               /\ reported'[j] = reported[j]
                               /\ announcing'[<<"join", j>>] = announcing[<<"join", j>>]
    <3>1. About(p) = i /\ \A j \in Rooms \ {i} : <<"join", j>> \in Announcers /\ <<"join", j>> # p
      BY <2>1, KindsApart
    <3>2. \A q \in Announcers : q # p => announcing'[q] = announcing[q]
      BY <2>2 DEF TypeOK
    <3>3. \A j \in Rooms \ {i} : reported'[j] = reported[j]
      BY <2>2 DEF TypeOK
    <3>4. QED  BY <3>1, <3>2, <3>3 DEF BeingReported
  <2>5. reported'[i] = visitors[i]
    BY <2>2 DEF TypeOK
  <2>6. LosersReported'
    BY <2>2, <2>4, <2>5 DEF TypeOK, Announced, LosersReported
  <2>7. JoinersReported'
    BY <2>2, <2>4, <2>5 DEF Announced, JoinersReported, StillAnnouncing
  <2>8. QED  BY <2>3, <2>6, <2>7 DEF Announced
<1>3. ASSUME TimePasses PROVE Announced'
  BY <1>3, AnnouncedUndisturbed DEF TimePasses
<1>4. ASSUME NEW i \in Rooms, Create(i) PROVE Announced'
  BY <1>4 DEF Create, TypeOK, Announced, BeginsQuiet, LosersReported,
     JoinersReported, BeingReported, StillAnnouncing, IsQuiet
<1>5. ASSUME NEW i \in Rooms, List(i) PROVE Announced'
  BY <1>5 DEF List, TypeOK, Announced, BeginsQuiet, LosersReported,
     JoinersReported, BeingReported, StillAnnouncing, IsQuiet
<1>6. ASSUME NEW i \in Rooms, Launch(i) PROVE Announced'
  BY <1>6 DEF Launch, TypeOK, Announced, BeginsQuiet, LosersReported,
     JoinersReported, BeingReported, StillAnnouncing, IsQuiet
<1>7. ASSUME NEW i \in Rooms, AnnounceCreated(i) PROVE Announced'
  <2>1. BeginAnnounce(<<"create", i>>, TRUE) /\ IsQuiet(<<"create", i>>)
    BY <1>7 DEF AnnounceCreated, TypeOK, Announced, BeginsQuiet
  <2>2. \A j \in Rooms : BeingReported(j) => BeingReported(j)'
    BY <2>1, BeginKeepsReports
  <2>3. \A q \in Announcers : q # <<"create", i>> => announcing'[q] = announcing[q]
    BY <2>1, BeginType
  <2>4. \A j \in Rooms : announcing'[<<"join", j>>] = announcing[<<"join", j>>]
    BY <2>3, KindsApart
  <2>5. UNCHANGED <<tick, wsVars, visitors, reported, lastAnnounce>>
    BY <1>7 DEF AnnounceCreated
  <2>6. BeginsQuiet'
    <3>1. \A j \in Rooms : /\ announcing'[<<"tick", j>>] = announcing[<<"tick", j>>]
                           /\ j # i => announcing'[<<"create", j>>] = announcing[<<"create", j>>]
      BY <2>3, KindsApart
    <3>2. stage'[i] = "created" /\ \A j \in Rooms : j # i => stage'[j] = stage[j]
      BY <1>7 DEF AnnounceCreated, TypeOK
    <3>3. SUFFICES ASSUME NEW j \in Rooms
                   PROVE  /\ stage'[j] # "created" => announcing'[<<"create", j>>] = Quiet
                          /\ tick'[j] = "turn" => announcing'[<<"tick", j>>] = Quiet
                          /\ wsPC' # "telling" \/ wsRoom' # j => announcing'[<<"join", j>>] = Quiet
      BY DEF BeginsQuiet, IsQuiet
    <3>4. /\ stage[j] # "created" => announcing[<<"create", j>>] = Quiet
          /\ tick[j] = "turn" => announcing[<<"tick", j>>] = Quiet
          /\ wsPC # "telling" \/ wsRoom # j => announcing[<<"join", j>>] = Quiet
      BY DEF Announced, BeginsQuiet, IsQuiet
    <3>5. QED  BY <2>4, <2>5, <3>1, <3>2, <3>4
  <2>7. LosersReported' /\ JoinersReported'
    BY <2>2, <2>4, <2>5 DEF TypeOK, Announced, LosersReported, JoinersReported, StillAnnouncing
  <2>8. QED  BY <2>6, <2>7 DEF Announced
<1>8. ASSUME NEW i \in Rooms, TickChecks(i) PROVE Announced'
  <2>1. tick' = [tick EXCEPT ![i] = "turn"] /\ IsQuiet(<<"tick", i>>)
        /\ UNCHANGED <<stage, wsVars, visitors, reported, lastAnnounce, announcing>>
    BY <1>8 DEF TickChecks
  <2>2. BeginsQuiet'
    BY <2>1 DEF TypeOK, Announced, BeginsQuiet, IsQuiet
  <2>3. LosersReported' /\ JoinersReported'
    BY <2>1 DEF Announced, LosersReported, JoinersReported, BeingReported, StillAnnouncing
  <2>4. QED  BY <2>2, <2>3 DEF Announced
<1>9. ASSUME NEW i \in Rooms, TickEnds(i) PROVE Announced'
  BY <1>9 DEF TickEnds, TypeOK, Announced, BeginsQuiet, LosersReported,
     JoinersReported, BeingReported, StillAnnouncing, IsQuiet
<1>10. ASSUME NEW i \in Rooms, NEW away \in SUBSET sockets[i], TickTurn(i, away) PROVE Announced'
  <2>1. BeginAnnounce(<<"tick", i>>, FALSE) /\ IsQuiet(<<"tick", i>>)
    BY <1>10 DEF TickTurn, TypeOK, Announced, BeginsQuiet
  <2>2. \A j \in Rooms : BeingReported(j) => BeingReported(j)'
    BY <2>1, BeginKeepsReports
  <2>3. \A q \in Announcers : q # <<"tick", i>> => announcing'[q] = announcing[q]
    BY <2>1, BeginType
  <2>4. \A j \in Rooms : announcing'[<<"join", j>>] = announcing[<<"join", j>>]
    BY <2>3, KindsApart
  <2>5. UNCHANGED <<stage, wsVars, visitors, reported, lastAnnounce>>
    BY <1>10 DEF TickTurn
  <2>6. BeginsQuiet'
    <3>1. \A j \in Rooms : /\ announcing'[<<"create", j>>] = announcing[<<"create", j>>]
                           /\ j # i => announcing'[<<"tick", j>>] = announcing[<<"tick", j>>]
      BY <2>3, KindsApart
    <3>2. tick'[i] = "loop" /\ \A j \in Rooms : j # i => tick'[j] = tick[j]
      BY <1>10 DEF TickTurn, TypeOK
    <3>3. SUFFICES ASSUME NEW j \in Rooms
                   PROVE  /\ stage'[j] # "created" => announcing'[<<"create", j>>] = Quiet
                          /\ tick'[j] = "turn" => announcing'[<<"tick", j>>] = Quiet
                          /\ wsPC' # "telling" \/ wsRoom' # j => announcing'[<<"join", j>>] = Quiet
      BY DEF BeginsQuiet, IsQuiet
    <3>4. /\ stage[j] # "created" => announcing[<<"create", j>>] = Quiet
          /\ tick[j] = "turn" => announcing[<<"tick", j>>] = Quiet
          /\ wsPC # "telling" \/ wsRoom # j => announcing[<<"join", j>>] = Quiet
      BY DEF Announced, BeginsQuiet, IsQuiet
    <3>5. QED  BY <2>4, <2>5, <3>1, <3>2, <3>4
  <2>7. LosersReported' /\ JoinersReported'
    BY <2>2, <2>4, <2>5 DEF TypeOK, Announced, LosersReported, JoinersReported, StillAnnouncing
  <2>8. QED  BY <2>6, <2>7 DEF Announced
<1>11. ASSUME NEW i \in Rooms, Expire(i) PROVE Announced'
  BY <1>11, AnnouncedUndisturbed DEF Expire
<1>12. ASSUME NEW i \in Rooms, LoadProject(i) PROVE Announced'
  BY <1>12, AnnouncedUndisturbed DEF LoadProject
<1>13. ASSUME NEW i \in Rooms, VMEnds(i) PROVE Announced'
  BY <1>13, AnnouncedUndisturbed DEF VMEnds
<1>14. ASSUME NEW i \in Rooms, VMListens(i) PROVE Announced'
  BY <1>14, AnnouncedUndisturbed DEF VMListens
<1>15. ASSUME NEW i \in Rooms, VMSteps(i) PROVE Announced'
  BY <1>15, AnnouncedUndisturbed DEF VMSteps
<1>16. ASSUME NEW i \in Rooms, NetEnds(i) PROVE Announced'
  BY <1>16, AnnouncedUndisturbed DEF NetEnds
<1>17. ASSUME NEW i \in Rooms, NetPolls(i) PROVE Announced'
  BY <1>17, AnnouncedUndisturbed DEF NetPolls
<1>18. ASSUME NEW i \in Rooms, NetForwards(i) PROVE Announced'
  BY <1>18, AnnouncedUndisturbed DEF NetForwards
<1>19. ASSUME NEW i \in Rooms, Forward(i) PROVE Announced'
  BY <1>19, AnnouncedUndisturbed DEF Forward
<1>20. ASSUME NEW i \in Rooms, JoinThread(i) PROVE Announced'
  BY <1>20, AnnouncedUndisturbed DEF JoinThread
<1>21. ASSUME NEW u \in Users, NEW i \in Rooms, LookUp(u, i) PROVE Announced'
  BY <1>21, NobodyAssumption DEF LookUp, TypeOK, Announced, BeginsQuiet, LosersReported,
     JoinersReported, BeingReported, StillAnnouncing, IsQuiet, Quiet
<1>22. ASSUME GetRoom PROVE Announced'
  BY <1>22, NobodyAssumption DEF GetRoom, TypeOK, Announced, BeginsQuiet, LosersReported,
     JoinersReported, BeingReported, StillAnnouncing, IsQuiet, Quiet
<1>23. ASSUME WrongPassword PROVE Announced'
  BY <1>23, NobodyAssumption DEF WrongPassword, TypeOK, Announced, BeginsQuiet, LosersReported,
     JoinersReported, BeingReported, StillAnnouncing, IsQuiet, Quiet
<1>33. ASSUME Attach PROVE Announced'
  <2>1. /\ wsPC = "inside" /\ wsPC' = "attached" /\ wsRoom \in Rooms /\ wsUser \in Users
        /\ UNCHANGED <<stage, tick, wsUser, wsRoom, reported, lastAnnounce, announcing>>
        /\ visitors' = [visitors EXCEPT ![wsRoom] = @ \cup {wsUser}]
    BY <1>33 DEF Attach, TypeOK
  <2>2. BeginsQuiet'
    BY <2>1 DEF Announced, BeginsQuiet, IsQuiet
  <2>3. LosersReported'
    BY <2>1 DEF TypeOK, LosersReported
  <2>4. StillAnnouncing(wsRoom, wsUser)'
    BY <2>1 DEF StillAnnouncing
  <2>5. \A j \in Rooms : BeingReported(j) => BeingReported(j)'
    BY <2>1 DEF BeingReported
  <2>6. JoinersReported'
    BY <2>1, <2>4, <2>5 DEF TypeOK, Announced, JoinersReported, StillAnnouncing
  <2>7. QED  BY <2>2, <2>3, <2>6 DEF Announced
<1>24. ASSUME Enter PROVE Announced'
  <2>1. /\ wsPC = "attached" /\ wsPC' = "telling" /\ wsRoom \in Rooms /\ wsUser \in Users
        /\ UNCHANGED <<stage, tick, wsUser, wsRoom, visitors, reported, lastAnnounce>>
        /\ wsUser \in visitors[wsRoom]
    BY <1>24 DEF Enter, TypeOK, Announced, LosersReported
  <2>2. BeginAnnounce(<<"join", wsRoom>>, TRUE) /\ IsQuiet(<<"join", wsRoom>>)
    BY <1>24, <2>1 DEF Enter, Announced, BeginsQuiet
  <2>3. \A j \in Rooms : BeingReported(j) => BeingReported(j)'
    BY <2>1, <2>2, BeginKeepsReports
  <2>4. /\ announcing'[<<"join", wsRoom>>].step = "exchange"
        /\ announcing'[<<"join", wsRoom>>].saved = lastAnnounce[wsRoom]
        /\ \A q \in Announcers : q # <<"join", wsRoom>> => announcing'[q] = announcing[q]
    BY <2>1, <2>2, BeginType
  <2>5. BeginsQuiet'
    <3>1. \A j \in Rooms : /\ announcing'[<<"create", j>>] = announcing[<<"create", j>>]
                           /\ announcing'[<<"tick", j>>] = announcing[<<"tick", j>>]
                           /\ j # wsRoom => announcing'[<<"join", j>>] = announcing[<<"join", j>>]
      BY <2>1, <2>4, KindsApart
    <3>2. SUFFICES ASSUME NEW j \in Rooms
                   PROVE  /\ stage'[j] # "created" => announcing'[<<"create", j>>] = Quiet
                          /\ tick'[j] = "turn" => announcing'[<<"tick", j>>] = Quiet
                          /\ wsPC' # "telling" \/ wsRoom' # j => announcing'[<<"join", j>>] = Quiet
      BY DEF BeginsQuiet, IsQuiet
    <3>3. /\ stage[j] # "created" => announcing[<<"create", j>>] = Quiet
          /\ tick[j] = "turn" => announcing[<<"tick", j>>] = Quiet
          /\ wsPC # "telling" \/ wsRoom # j => announcing[<<"join", j>>] = Quiet
      BY DEF Announced, BeginsQuiet, IsQuiet
    <3>4. QED  BY <2>1, <3>1, <3>3
  <2>6. LosersReported'
    BY <2>1, <2>4 DEF TypeOK, LosersReported
  <2>7. StillAnnouncing(wsRoom, wsUser)'
    BY <2>1, <2>4 DEF StillAnnouncing
  <2>8. JoinersReported'
    BY <2>1, <2>3, <2>7 DEF TypeOK, Announced, JoinersReported, StillAnnouncing
  <2>9. QED  BY <2>5, <2>6, <2>8 DEF Announced
<1>25. ASSUME TellProgram PROVE Announced'
  <2>1. /\ wsPC = "telling" /\ wsPC' = "idle" /\ wsRoom \in Rooms /\ IsQuiet(<<"join", wsRoom>>)
        /\ UNCHANGED <<stage, tick, visitors, reported, lastAnnounce, announcing>>
    BY <1>25 DEF TellProgram, TypeOK
  <2>2. BeginsQuiet'
    BY <2>1 DEF Announced, BeginsQuiet, IsQuiet
  <2>3. LosersReported'
    BY <2>1 DEF LosersReported
  <2>4. \A j \in Rooms, u \in Users : ~StillAnnouncing(j, u)
    BY <2>1 DEF StillAnnouncing, IsQuiet, Quiet
  <2>5. JoinersReported'
    BY <2>1, <2>4 DEF TypeOK, Announced, JoinersReported, BeingReported
  <2>6. QED  BY <2>2, <2>3, <2>5 DEF Announced
<1>26. ASSUME BeginCleanup PROVE Announced'
  BY <1>26, AnnouncedUndisturbed DEF BeginCleanup
<1>27. ASSUME BeginRemovals PROVE Announced'
  BY <1>27, AnnouncedUndisturbed DEF BeginRemovals
<1>28. ASSUME EndCleanup PROVE Announced'
  BY <1>28, AnnouncedUndisturbed DEF EndCleanup
<1>29. ASSUME NEW i \in Rooms, LookAt(i) PROVE Announced'
  BY <1>29, AnnouncedUndisturbed DEF LookAt
<1>34. ASSUME StopRoom PROVE Announced'
  BY <1>34, AnnouncedUndisturbed DEF StopRoom
<1>35. ASSUME NEW i \in Rooms, NEW away \in SUBSET sockets[i], TickPanics(i, away) PROVE Announced'
  BY <1>35 DEF TickPanics, TypeOK, Announced, BeginsQuiet, LosersReported,
     JoinersReported, BeingReported, StillAnnouncing, IsQuiet
<1>30. ASSUME NEW i \in Rooms, RemoveRoom(i) PROVE Announced'
  BY <1>30, AnnouncedUndisturbed DEF RemoveRoom
<1>31. CASE UNCHANGED vars
  BY <1>31, AnnouncedUndisturbed DEF vars
<1>32. QED
  BY <1>1, <1>2, <1>3, <1>4, <1>5, <1>6, <1>7, <1>8, <1>9, <1>10, <1>11,
     <1>12, <1>13, <1>14, <1>15, <1>16, <1>17, <1>18, <1>19, <1>20, <1>21,
     <1>22, <1>23, <1>24, <1>25, <1>26, <1>27, <1>28, <1>29, <1>30, <1>31,
     <1>33, <1>34, <1>35
     DEF Next, Announcing, Creating, Ticking, RunsProgram, Networking, Joining, Cleaning

-----------------------------------------------------------------------------
(* Expiry.                                                                 *)

Expiry == ExpiredAlone /\ SettledNone

\* Steps that leave this state alone keep it so.
LEMMA ExpiryUndisturbed ==
    ASSUME Expiry,
           UNCHANGED <<expired, sockets, tick, wsVars, condemned, settled>>
    PROVE  Expiry'
BY DEF Expiry, ExpiredAlone, SettledNone, Attaching, wsVars

\* An update loop is launched once.
LEMMA StepLaunched == TypeOK /\ LaunchedOnce /\ [Next]_vars => LaunchedOnce'
<1> SUFFICES ASSUME TypeOK, LaunchedOnce, [Next]_vars PROVE LaunchedOnce'
  OBVIOUS
<1> USE DEF roomVars, taskVars, eventVars, wsVars, cleanVars, announceVars
<1>1. ASSUME UNCHANGED <<stage, tick>> PROVE LaunchedOnce'
  BY <1>1 DEF LaunchedOnce
<1>2. ASSUME NEW i \in Rooms, Create(i) \/ Creating(i) PROVE LaunchedOnce'
  <2>1. CASE Create(i)
    BY <2>1 DEF Create, TypeOK, LaunchedOnce
  <2>2. CASE List(i)
    BY <2>2 DEF List, TypeOK, LaunchedOnce
  <2>3. CASE Launch(i)
    BY <2>3 DEF Launch, TypeOK, LaunchedOnce
  <2>4. CASE AnnounceCreated(i)
    BY <2>4 DEF AnnounceCreated, TypeOK, LaunchedOnce
  <2>5. QED  BY <1>2, <2>1, <2>2, <2>3, <2>4 DEF Creating
<1>3. ASSUME NEW i \in Rooms, Ticking(i) PROVE LaunchedOnce'
  <2>1. tick[i] # "none" /\ UNCHANGED stage /\ \E k : tick' = [tick EXCEPT ![i] = k]
    BY <1>3 DEF Ticking, TickChecks, TickEnds, TickTurn, TickPanics
  <2>2. QED  BY <2>1 DEF TypeOK, LaunchedOnce
<1>4. ASSUME NEW p \in Announcers, Announcing(p) PROVE UNCHANGED <<stage, tick>>
  BY <1>4 DEF Announcing, Exchange, Report
<1>5. ASSUME NEW i \in Rooms, Expire(i) \/ RunsProgram(i) \/ Networking(i) \/ Forward(i) \/ JoinThread(i)
      PROVE UNCHANGED <<stage, tick>>
  BY <1>5 DEF Expire, RunsProgram, LoadProject, VMEnds, VMListens, VMSteps, Networking, NetEnds,
              NetPolls, NetForwards, Forward, JoinThread
<1>6. ASSUME NEW u \in Users, NEW i \in Rooms, LookUp(u, i) PROVE UNCHANGED <<stage, tick>>
  BY <1>6 DEF LookUp
<1>7. ASSUME Joining PROVE UNCHANGED <<stage, tick>>
  BY <1>7 DEF Joining, GetRoom, WrongPassword, Attach, Enter, TellProgram
<1>8. ASSUME Cleaning PROVE UNCHANGED <<stage, tick>>
  BY <1>8 DEF Cleaning, BeginCleanup, BeginRemovals, EndCleanup, LookAt, StopRoom, RemoveRoom
<1>9. ASSUME TimePasses \/ UNCHANGED vars PROVE UNCHANGED <<stage, tick>>
  BY <1>9 DEF TimePasses, vars
<1>10. QED
  BY <1>1, <1>2, <1>3, <1>4, <1>5, <1>6, <1>7, <1>8, <1>9 DEF Next

\* Only a room that nobody has settled in counts as expired, and so the cleanup
\* finds nobody settled in a room that it is about to stop; a panicked update loop
\* stays panicked.
LEMMA StepExpiry == TypeOK /\ LaunchedOnce /\ Expiry /\ [Next]_vars => Expiry'
<1> SUFFICES ASSUME TypeOK, LaunchedOnce, Expiry, [Next]_vars PROVE Expiry'
  OBVIOUS
<1> USE DEF roomVars, taskVars, eventVars, wsVars, cleanVars, announceVars
<1>1. ASSUME NEW i \in Rooms, Launch(i) PROVE Expiry'
  BY <1>1 DEF Launch, TypeOK, LaunchedOnce, Expiry, ExpiredAlone, SettledNone, Attaching
<1>2. ASSUME NEW i \in Rooms, TickChecks(i) \/ TickEnds(i) PROVE Expiry'
  BY <1>2 DEF TickChecks, TickEnds, TypeOK, Expiry, ExpiredAlone, SettledNone, Attaching
<1>3. ASSUME NEW i \in Rooms, NEW away \in SUBSET sockets[i], TickTurn(i, away) PROVE Expiry'
  <2>1. ExpiredAlone'
    BY <1>3 DEF TickTurn, TypeOK, Expiry, ExpiredAlone, Attaching
  <2>2. SettledNone'
    BY <1>3 DEF TickTurn, TypeOK, Expiry, SettledNone
  <2>3. QED  BY <2>1, <2>2 DEF Expiry
<1>4. ASSUME NEW i \in Rooms, NEW away \in SUBSET sockets[i], TickPanics(i, away) PROVE Expiry'
  <2>1. ExpiredAlone'
    BY <1>4 DEF TickPanics, TypeOK, Expiry, ExpiredAlone, Attaching
  <2>2. SettledNone'
    BY <1>4 DEF TickPanics, TypeOK, Expiry, SettledNone
  <2>3. QED  BY <2>1, <2>2 DEF Expiry
<1>5. ASSUME NEW i \in Rooms, Expire(i) PROVE Expiry'
  BY <1>5 DEF Expire, TypeOK, Expiry, ExpiredAlone, SettledNone, Attaching
<1>6. ASSUME NEW u \in Users, NEW i \in Rooms, LookUp(u, i) PROVE Expiry'
  BY <1>6 DEF LookUp, TypeOK, Expiry, ExpiredAlone, SettledNone, Attaching
<1>7. ASSUME GetRoom \/ WrongPassword PROVE Expiry'
  BY <1>7 DEF GetRoom, WrongPassword, TypeOK, Expiry, ExpiredAlone, SettledNone, Attaching
<1>8. ASSUME Attach PROVE Expiry'
  BY <1>8 DEF Attach, TypeOK, Expiry, ExpiredAlone, SettledNone, Attaching
<1>9. ASSUME Enter PROVE Expiry'
  BY <1>9 DEF Enter, TypeOK, Expiry, ExpiredAlone, SettledNone, Attaching
<1>10. ASSUME TellProgram PROVE Expiry'
  BY <1>10 DEF TellProgram, TypeOK, Expiry, ExpiredAlone, SettledNone, Attaching
<1>11. ASSUME NEW i \in Rooms, LookAt(i) PROVE Expiry'
  <2>1. ExpiredAlone'
    BY <1>11 DEF LookAt, Expiry, ExpiredAlone, Attaching
  <2>2. SettledNone'
    BY <1>11 DEF LookAt, Expiry, ExpiredAlone, SettledNone
  <2>3. QED  BY <2>1, <2>2 DEF Expiry
<1>12. ASSUME StopRoom PROVE Expiry'
  BY <1>12 DEF StopRoom, Expiry, ExpiredAlone, SettledNone, Attaching
<1>13. ASSUME BeginCleanup \/ BeginRemovals \/ EndCleanup PROVE Expiry'
  BY <1>13 DEF BeginCleanup, BeginRemovals, EndCleanup, Expiry, ExpiredAlone, SettledNone, Attaching
<1>14. ASSUME NEW i \in Rooms, RemoveRoom(i) PROVE Expiry'
  BY <1>14 DEF RemoveRoom, Expiry, ExpiredAlone, SettledNone, Attaching
<1>15. ASSUME NEW i \in Rooms, JoinThread(i) PROVE Expiry'
  BY <1>15, ExpiryUndisturbed DEF JoinThread
<1>16. ASSUME NEW p \in Announcers, Announcing(p) PROVE Expiry'
  BY <1>16, ExpiryUndisturbed DEF Announcing, Exchange, Report
<1>17. ASSUME NEW i \in Rooms, Create(i) \/ List(i) \/ AnnounceCreated(i) PROVE Expiry'
  BY <1>17, ExpiryUndisturbed DEF Create, List, AnnounceCreated
<1>18. ASSUME NEW i \in Rooms, RunsProgram(i) \/ Networking(i) \/ Forward(i) PROVE Expiry'
  BY <1>18, ExpiryUndisturbed DEF RunsProgram, LoadProject, VMEnds, VMListens, VMSteps, Networking,
     NetEnds, NetPolls, NetForwards, Forward
<1>19. ASSUME TimePasses \/ UNCHANGED vars PROVE Expiry'
  BY <1>19, ExpiryUndisturbed DEF TimePasses, vars
<1>20. QED
  BY <1>1, <1>2, <1>3, <1>4, <1>5, <1>6, <1>7, <1>8, <1>9, <1>10, <1>11, <1>12, <1>13, <1>14,
     <1>15, <1>16, <1>17, <1>18, <1>19 DEF Next, Creating, Ticking, Joining, Cleaning

\* The invariant of RoomLifecycle: types, quiet announcements before new ones,
\* joiners counted by whoever announces, and no expiry over anybody who has settled
\* in a room whose update loop lives.
THEOREM LifecycleInvariant == Spec => []LifecycleInv
<1>1. Init => LifecycleInv
  BY InitType, InitAnnounced DEF Init, LifecycleInv, Announced, LaunchedOnce, ExpiredAlone, SettledNone
<1>2. LifecycleInv /\ [Next]_vars => LifecycleInv'
  BY StepType, StepAnnounced, StepLaunched, StepExpiry DEF LifecycleInv, Announced, Expiry
<1>3. QED  BY <1>1, <1>2, PTL DEF Spec

\* Everybody who joined has been told to the API server, or is about to be,
\* although announcements are throttled and a join may lose its own.
THEOREM JoinersAlwaysReported == Spec => []JoinersReported
<1>1. LifecycleInv => JoinersReported
  BY DEF LifecycleInv
<1>2. QED  BY <1>1, LifecycleInvariant, PTL

\* Only the cleanup stops a room, the one that it has found expired.
LEMMA OnlyCleanupStops ==
    ASSUME TypeOK, [Next]_vars, NEW i \in Rooms, alive[i], ~alive'[i]
    PROVE  i = condemned
<1> USE DEF roomVars, taskVars, eventVars, wsVars, cleanVars, announceVars
<1>1. ASSUME StopRoom PROVE i = condemned
  BY <1>1 DEF StopRoom, TypeOK
<1>2. ASSUME NEW j \in Rooms, Create(j) PROVE FALSE
  BY <1>2 DEF Create, TypeOK
<1>3. ASSUME NEW p \in Announcers, Announcing(p) PROVE FALSE
  BY <1>3 DEF Announcing, Exchange, Report
<1>4. ASSUME NEW j \in Rooms, Creating(j) PROVE FALSE
  BY <1>4 DEF Creating, List, Launch, AnnounceCreated
<1>5. ASSUME NEW j \in Rooms, Ticking(j) \/ Expire(j) PROVE FALSE
  BY <1>5 DEF Ticking, TickChecks, TickEnds, TickTurn, TickPanics, Expire
<1>6. ASSUME NEW j \in Rooms, RunsProgram(j) \/ Networking(j) \/ Forward(j) \/ JoinThread(j)
      PROVE FALSE
  BY <1>6 DEF RunsProgram, LoadProject, VMEnds, VMListens, VMSteps, Networking, NetEnds, NetPolls,
              NetForwards, Forward, JoinThread
<1>7. ASSUME NEW u \in Users, NEW j \in Rooms, LookUp(u, j) PROVE FALSE
  BY <1>7 DEF LookUp
<1>8. ASSUME Joining PROVE FALSE
  BY <1>8 DEF Joining, GetRoom, WrongPassword, Attach, Enter, TellProgram
<1>9. ASSUME BeginCleanup \/ BeginRemovals \/ EndCleanup PROVE FALSE
  BY <1>9 DEF BeginCleanup, BeginRemovals, EndCleanup
<1>10. ASSUME NEW j \in Rooms, LookAt(j) \/ RemoveRoom(j) PROVE FALSE
  BY <1>10 DEF LookAt, RemoveRoom
<1>11. ASSUME TimePasses \/ UNCHANGED vars PROVE FALSE
  BY <1>11 DEF TimePasses, vars
<1>12. QED
  BY <1>1, <1>2, <1>3, <1>4, <1>5, <1>6, <1>7, <1>8, <1>9, <1>10, <1>11 DEF Next, Cleaning

\* However joins interleave with the two steps of the cleanup, a room whose update
\* loop lives is stopped only over latecomers: nobody in it had settled when the
\* cleanup looked.
THEOREM OnlyLatecomersAreStopped == Spec => StopsOnlyOverLatecomers
<1>1. ASSUME LifecycleInv, [Next]_vars, NEW i \in Rooms, alive[i], ~alive'[i]
      PROVE  tick[i] = "panicked" \/ sockets[i] \cap settled = {}
  <2>1. i = condemned
    BY <1>1, OnlyCleanupStops DEF LifecycleInv
  <2>2. CASE settled = {}
    BY <2>2
  <2>3. CASE settled # {}
    BY <1>1, <2>1, <2>3 DEF LifecycleInv, SettledNone
  <2>4. QED  BY <2>2, <2>3
<1>2. LifecycleInv /\ [Next]_vars =>
        [\A i \in Rooms : alive[i] /\ ~alive'[i] =>
            tick[i] = "panicked" \/ sockets[i] \cap settled = {}]_vars
  BY <1>1
<1>3. QED  BY <1>2, LifecycleInvariant, PTL DEF Spec, StopsOnlyOverLatecomers

=============================================================================
