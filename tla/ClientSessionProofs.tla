------------------------ MODULE ClientSessionProofs ------------------------
(***************************************************************************)
(* Safety of ClientSession for any flows, WebSockets, rooms and queues.    *)
(***************************************************************************)
EXTENDS ClientSession, TLAPS

Requests == {JoinRoom(r) : r \in Rooms} \cup {CloseFrame}
Answers == [kind : {"info", "state", "hibernating"}, room : Rooms]
Data == [what : {"info", "state"}, over : Sockets, room : Rooms]
States == {"new", "connecting", "open", "closing", "closed", "lost"}

\* What the client knows of a room, and the messages that tell it, are typed.
LEMMA MessageTypes ==
    ASSUME NEW r \in Rooms
    PROVE  /\ RoomInfo(r) \in Answers /\ Update(r) \in Answers /\ Hibernating(r) \in Answers
           /\ JoinRoom(r) \in Requests /\ CloseFrame \in Requests
BY DEF RoomInfo, Update, Hibernating, JoinRoom, CloseFrame, Answers, Requests

\* A request that joins names a room.
LEMMA JoinsNameRooms ==
    ASSUME NEW m \in Requests
    PROVE  m.kind = "join" => m.room \in Rooms
BY DEF Requests, JoinRoom, CloseFrame

\* The queues, typed by the sets above.
LEMMA Typed ==
    ASSUME TypeOK
    PROVE  /\ up \in [Sockets -> Seq(Requests)] /\ down \in [Sockets -> Seq(Answers)]
           /\ holds \subseteq Data /\ sock \in [Sockets -> States]
           /\ Unused \subseteq Sockets
BY DEF TypeOK, Requests, Answers, Data, States, Unused

LEMMA InitType == Init => TypeOK
<1> SUFFICES ASSUME Init PROVE TypeOK
  OBVIOUS
<1>1. Unused = Sockets
  BY DEF Init, Unused
<1>2. Idle \in [pc : {"idle", "asking", "connecting"}, room : Rooms \cup {NoRoom}]
  BY DEF Idle
<1>3. up \in [Sockets -> Seq(Requests)] /\ down \in [Sockets -> Seq(Answers)]
  BY DEF Init
<1>4. QED  BY <1>1, <1>2, <1>3 DEF Init, TypeOK, Requests, Answers

\* What a step does to WebSockets in use leaves the others unused, and the
\* current one and the server's typed.
LEMMA UsedType ==
    ASSUME TypeOK, Unused' = Unused, UNCHANGED websocket,
           conns' \subseteq Sockets \ Unused, joined' \in [Rooms -> SUBSET (Sockets \ Unused)]
    PROVE  /\ websocket' \in IF Unused' = Sockets THEN {NoSocket} ELSE Sockets \ Unused'
           /\ conns' \subseteq Sockets \ Unused'
           /\ joined' \in [Rooms -> SUBSET (Sockets \ Unused')]
BY DEF TypeOK

LEMMA StepType == TypeOK /\ FlowsKnow /\ [Next]_vars => TypeOK'
<1> SUFFICES ASSUME TypeOK, FlowsKnow, [Next]_vars PROVE TypeOK'
  OBVIOUS
<1> USE DEF clientVars, gameVars, serverVars
<1>1. ASSUME NEW f \in Flows, NEW r \in Rooms, Ask(f, r) PROVE TypeOK'
  BY <1>1 DEF Ask, TypeOK, Unused
<1>2. ASSUME NEW f \in Flows, Refused(f) PROVE TypeOK'
  BY <1>2 DEF Refused, Idle, TypeOK, Unused
<1>3. ASSUME NEW f \in Flows, NEW s \in Sockets, Connect(f, s) PROVE TypeOK'
  <2>1. s \in Unused /\ websocket' = s
    BY <1>3 DEF Connect
  <2>2. sock' \in [Sockets -> States] /\ Unused' = Unused \ {s}
    <3>1. CASE inRoom
      <4>1. websocket \in Sockets \ Unused
        BY <2>1, <3>1 DEF FlowsKnow, TypeOK
      <4>2. QED  BY <1>3, <2>1, <3>1, <4>1, Typed DEF Connect, States, Unused
    <3>2. CASE ~inRoom
      BY <1>3, <2>1, <3>2, Typed DEF Connect, States, Unused
    <3>3. QED  BY <3>1, <3>2
  <2>3. up' \in [Sockets -> Seq(Requests)]
    <3>1. CASE inRoom
      <4>1. websocket \in Sockets /\ CloseFrame \in Requests
        BY <2>1, <3>1 DEF FlowsKnow, TypeOK, Requests
      <4>2. Append(up[websocket], CloseFrame) \in Seq(Requests)
        BY <4>1, Typed
      <4>3. up' = [up EXCEPT ![websocket] = Append(@, CloseFrame)] \/ up' = up
        BY <1>3, <3>1 DEF Connect, Closing
      <4>4. QED  BY <4>2, <4>3, Typed
    <3>2. CASE ~inRoom
      BY <1>3, <3>2, Typed DEF Connect
    <3>3. QED  BY <3>1, <3>2
  <2>4. flow' \in [Flows -> [pc : {"idle", "asking", "connecting"}, room : Rooms \cup {NoRoom}]]
    <3>1. flow' = [flow EXCEPT ![f] = [@ EXCEPT !.pc = "connecting"]]
      BY <1>3 DEF Connect
    <3>2. [flow[f] EXCEPT !.pc = "connecting"] \in
            [pc : {"idle", "asking", "connecting"}, room : Rooms \cup {NoRoom}]
      BY DEF TypeOK
    <3>3. QED  BY <3>1, <3>2 DEF TypeOK
  <2>5. holds' \subseteq Data /\ models' \subseteq Rooms /\ loading' \subseteq Rooms
    BY <1>3, Typed DEF Connect, Cleanup, TypeOK
  <2>6. UNCHANGED <<inRoom, down, conns, joined>>
    BY <1>3 DEF Connect
  <2>7. QED
    BY <2>1, <2>2, <2>3, <2>4, <2>5, <2>6 DEF TypeOK, States, Requests, Data
<1>4. ASSUME NEW f \in Flows, Enter(f) PROVE TypeOK'
  <2>1. JoinRoom(flow[f].room) \in Requests
    BY <1>4, MessageTypes DEF Enter, FlowsKnow
  <2>2. up' \in [Sockets -> Seq(Requests)]
    <3>1. websocket \in Sockets
      BY <1>4 DEF Enter, FlowsKnow, TypeOK, Unused
    <3>2. Append(up[websocket], JoinRoom(flow[f].room)) \in Seq(Requests)
      BY <2>1, <3>1, Typed
    <3>3. \/ up' = [up EXCEPT ![websocket] = Append(@, JoinRoom(flow[f].room))]
          \/ up' = up
      BY <1>4 DEF Enter
    <3>4. QED  BY <3>2, <3>3, Typed
  <2>3. QED  BY <1>4, <2>2 DEF Enter, Idle, TypeOK, Unused, Requests
<1>5. ASSUME NEW s \in Sockets, Accept(s) PROVE TypeOK'
  <2>1. sock' \in [Sockets -> States] /\ Unused' = Unused /\ s \notin Unused
    BY <1>5, Typed DEF Accept, States, Unused
  <2>2. QED  BY <1>5, <2>1 DEF Accept, TypeOK, States
<1>6. ASSUME NEW s \in Sockets, CloseDone(s) \/ Fails(s) PROVE TypeOK'
  <2>1. PICK how \in {"closed", "lost"} : OnClose(s, how) /\ sock[s] \in {"connecting", "open", "closing"}
    BY <1>6 DEF CloseDone, Fails
  <2>2. sock' \in [Sockets -> States] /\ Unused' = Unused
    BY <2>1, Typed DEF OnClose, States, Unused
  <2>3. up' \in [Sockets -> Seq(Requests)] /\ down' \in [Sockets -> Seq(Answers)]
    <3>1. <<>> \in Seq(Requests) /\ <<>> \in Seq(Answers)
      OBVIOUS
    <3>2. down' = [down EXCEPT ![s] = <<>>]
      BY <2>1 DEF OnClose
    <3>3. up' = up \/ up' = [up EXCEPT ![s] = <<>>]
      BY <1>6 DEF CloseDone, Fails
    <3>4. QED  BY <3>1, <3>2, <3>3, Typed
  <2>4. UNCHANGED <<flow, inRoom, websocket, conns, joined, loading>> /\ holds' = {} /\ models' = {}
    BY <1>6, <2>1 DEF CloseDone, Fails, OnClose, Cleanup
  <2>5. QED  BY <2>2, <2>3, <2>4 DEF TypeOK, States, Requests, Answers
<1>7. ASSUME NEW s \in Sockets, Receive(s) PROVE TypeOK'
  <2> DEFINE m == Head(down[s])
  <2>1. m \in Answers /\ Tail(down[s]) \in Seq(Answers)
    BY <1>7, Typed DEF Receive
  <2>2. down' \in [Sockets -> Seq(Answers)]
    BY <1>7, <2>1, Typed DEF Receive
  <2>3. holds' \subseteq Data /\ models' \subseteq Rooms /\ loading' \subseteq Rooms
    <3>1. CASE m.kind = "hibernating"
      BY <1>7, <3>1 DEF Receive, Cleanup, TypeOK
    <3>2. CASE m.kind # "hibernating"
      <4>1. [what |-> m.kind, over |-> s, room |-> m.room] \in Data /\ m.room \in Rooms
        BY <2>1, <3>2 DEF Answers, Data
      <4>2. QED  BY <1>7, <3>2, <4>1, Typed DEF Receive, TypeOK
    <3>3. QED  BY <3>1, <3>2
  <2>4. UNCHANGED <<flow, inRoom, websocket, sock, up, conns, joined>>
    BY <1>7 DEF Receive
  <2>5. QED  BY <2>2, <2>3, <2>4 DEF TypeOK, Unused, Answers, Data
<1>8. ASSUME NEW r \in Rooms, MeshArrives(r) \/ MeshFails(r) PROVE TypeOK'
  BY <1>8 DEF MeshArrives, MeshFails, TypeOK, Unused
<1>9. ASSUME NEW s \in Sockets, Reads(s) PROVE TypeOK'
  <2> DEFINE m == Head(up[s])
  <2>1. m \in Requests /\ up' \in [Sockets -> Seq(Requests)]
    BY <1>9, Typed DEF Reads
  <2>2. s \in Sockets \ Unused
    BY <1>9 DEF Reads, TypeOK
  <2>3. UNCHANGED <<flow, inRoom, websocket, sock, holds, models, loading>>
    BY <1>9 DEF Reads
  <2>4. CASE /\ m.kind = "join"
             /\ joined' = [joined EXCEPT ![m.room] = @ \cup {s}]
             /\ down' = IF sock[s] = "open"
                        THEN [down EXCEPT ![s] = @ \o <<RoomInfo(m.room), Update(m.room)>>]
                        ELSE down
             /\ UNCHANGED conns
    <3>1. m.room \in Rooms
      BY <2>1, <2>4, JoinsNameRooms
    <3>2. down[s] \o <<RoomInfo(m.room), Update(m.room)>> \in Seq(Answers)
      BY <3>1, MessageTypes, Typed
    <3>3. down' \in [Sockets -> Seq(Answers)]
      BY <2>4, <3>2, Typed
    <3>4. joined' \in [Rooms -> SUBSET (Sockets \ Unused)]
      BY <2>2, <2>4, <3>1 DEF TypeOK
    <3>5. QED  BY <2>1, <2>3, <2>4, <3>3, <3>4 DEF TypeOK, Unused, Requests, Answers
  <2>5. CASE UNCHANGED <<down, joined>> /\ conns' \subseteq conns
    BY <2>1, <2>3, <2>5 DEF TypeOK, Unused, Requests
  <2>6. QED  BY <1>9, <2>4, <2>5 DEF Reads
<1>10. ASSUME NEW r \in Rooms, SendsState(r) \/ Kicks(r) PROVE TypeOK'
  <2>1. PICK m \in Answers : Tell(r, m)
    BY <1>10, MessageTypes DEF SendsState, Kicks
  <2>2. down' \in [Sockets -> Seq(Answers)]
    BY <2>1, Typed DEF Tell
  <2>3. joined' \in [Rooms -> SUBSET (Sockets \ Unused)]
    BY <1>10 DEF SendsState, Kicks, TypeOK
  <2>4. UNCHANGED <<flow, inRoom, websocket, sock, holds, models, loading, up, conns>>
    BY <1>10 DEF SendsState, Kicks
  <2>5. QED  BY <2>2, <2>3, <2>4 DEF TypeOK, Unused, Answers
<1>11. ASSUME NEW r \in Rooms, Prunes(r) PROVE TypeOK'
  BY <1>11 DEF Prunes, TypeOK, Unused
<1>12. CASE UNCHANGED vars
  BY <1>12 DEF vars, TypeOK, Unused
<1>13. QED
  BY <1>1, <1>2, <1>3, <1>4, <1>5, <1>6, <1>7, <1>8, <1>9, <1>10, <1>11, <1>12 DEF Next, Flowing

\* A request that was sent earlier is no join, if none that waits is.
LEMMA TailsKeepSilence ==
    ASSUME NEW q \in Seq(Requests), q # <<>>, \A n \in DOMAIN q : q[n].kind # "join"
    PROVE  /\ Head(q).kind # "join"
           /\ \A n \in DOMAIN Tail(q) : Tail(q)[n].kind # "join"
<1>1. Head(q) = q[1] /\ 1 \in DOMAIN q
  OBVIOUS
<1>2. \A n \in DOMAIN Tail(q) : Tail(q)[n] = q[n + 1] /\ n + 1 \in DOMAIN q
  OBVIOUS
<1>3. QED  BY <1>1, <1>2

LEMMA InitSession == Init => FlowsKnow /\ SilentUntilCurrent /\ HoldsOnlyCurrent
BY DEF Init, FlowsKnow, SilentUntilCurrent, HoldsOnlyCurrent, Silent, Joins, Idle

LEMMA StepFlowsKnow == TypeOK /\ FlowsKnow /\ [Next]_vars => FlowsKnow'
<1> SUFFICES ASSUME TypeOK, FlowsKnow, [Next]_vars PROVE FlowsKnow'
  OBVIOUS
<1> USE DEF clientVars, gameVars, serverVars
<1>1. ASSUME NEW f \in Flows, NEW r \in Rooms, Ask(f, r) PROVE FlowsKnow'
  BY <1>1 DEF Ask, TypeOK, FlowsKnow
<1>2. ASSUME NEW f \in Flows, Refused(f) PROVE FlowsKnow'
  BY <1>2 DEF Refused, Idle, TypeOK, FlowsKnow
<1>3. ASSUME NEW f \in Flows, NEW s \in Sockets, Connect(f, s) PROVE FlowsKnow'
  BY <1>3, NothingAssumption DEF Connect, TypeOK, FlowsKnow
<1>4. ASSUME NEW f \in Flows, Enter(f) PROVE FlowsKnow'
  BY <1>4 DEF Enter, Idle, TypeOK, FlowsKnow
<1>5. ASSUME UNCHANGED clientVars PROVE FlowsKnow'
  BY <1>5 DEF FlowsKnow
<1>6. ASSUME NEW s \in Sockets, Accept(s) \/ CloseDone(s) \/ Fails(s) \/ Receive(s) \/ Reads(s)
      PROVE  UNCHANGED clientVars
  BY <1>6 DEF Accept, CloseDone, Fails, Receive, Reads
<1>7. ASSUME NEW r \in Rooms, MeshArrives(r) \/ MeshFails(r) \/ SendsState(r) \/ Kicks(r) \/ Prunes(r)
      PROVE  UNCHANGED clientVars
  BY <1>7 DEF MeshArrives, MeshFails, SendsState, Kicks, Prunes
<1>8. CASE UNCHANGED vars
  BY <1>5, <1>8 DEF vars
<1>9. QED  BY <1>1, <1>2, <1>3, <1>4, <1>5, <1>6, <1>7, <1>8 DEF Next, Flowing

Quietness == SilentUntilCurrent /\ HoldsOnlyCurrent

LEMMA StepQuietness == TypeOK /\ FlowsKnow /\ Quietness /\ [Next]_vars => Quietness'
<1> SUFFICES ASSUME TypeOK, FlowsKnow, Quietness, [Next]_vars PROVE Quietness'
  OBVIOUS
<1> USE DEF clientVars, gameVars, serverVars
<1>1. ASSUME UNCHANGED <<inRoom, websocket, sock, holds, up, down, joined>> PROVE Quietness'
  BY <1>1 DEF Quietness, SilentUntilCurrent, HoldsOnlyCurrent, MustBeSilent, Silent, Joins
<1>2. ASSUME NEW f \in Flows, NEW s \in Sockets, Connect(f, s) PROVE Quietness'
  <2>1. s \in Sockets /\ sock[s] = "new" /\ websocket' = s /\ UNCHANGED <<inRoom, down, joined>>
    BY <1>2 DEF Connect, Unused
  <2>2. CASE inRoom
    <3>1. websocket \in Sockets /\ websocket # s
      BY <2>1, <2>2 DEF FlowsKnow, TypeOK, Unused
    <3>2. /\ sock' = [sock EXCEPT ![s] = "connecting",
                           ![websocket] = IF @ \in {"open", "connecting"} THEN "closing" ELSE @]
          /\ holds' = {}
          /\ up' = up \/ up' = [up EXCEPT ![websocket] = Append(@, CloseFrame)]
      BY <1>2, <2>2 DEF Connect, Cleanup, Closing
    <3>3. ASSUME NEW w \in Sockets, w = websocket PROVE ~MustBeSilent(w)'
      <4>1. sock[w] # "new"
        BY <2>2, <3>3 DEF FlowsKnow, TypeOK, Unused
      <4>2. sock'[w] = IF sock[w] \in {"open", "connecting"} THEN "closing" ELSE sock[w]
        BY <3>1, <3>2, <3>3, Typed
      <4>3. QED  BY <2>1, <2>2, <4>1, <4>2 DEF MustBeSilent
    <3>4. ASSUME NEW t \in Sockets, t # websocket, MustBeSilent(t)' PROVE Silent(t)'
      <4>1. MustBeSilent(t)
        BY <2>1, <2>2, <3>1, <3>2, <3>4, Typed DEF MustBeSilent
      <4>2. up'[t] = up[t]
        BY <3>2, <3>4, Typed
      <4>3. QED  BY <2>1, <4>1, <4>2 DEF Quietness, SilentUntilCurrent, Silent, Joins
    <3>5. QED  BY <2>1, <2>2, <3>2, <3>3, <3>4 DEF Quietness, SilentUntilCurrent, HoldsOnlyCurrent
  <2>3. CASE ~inRoom
    <3>1. UNCHANGED <<holds, up>>
      BY <1>2, <2>3 DEF Connect
    <3>2. QED  BY <2>1, <2>3, <3>1
               DEF Quietness, SilentUntilCurrent, HoldsOnlyCurrent, MustBeSilent, Silent, Joins
  <2>4. QED  BY <2>2, <2>3
<1>3. ASSUME NEW f \in Flows, Enter(f) PROVE Quietness'
  <2>1. websocket \in Sockets
    BY <1>3 DEF Enter, FlowsKnow, TypeOK, Unused
  <2>2. UNCHANGED <<websocket, sock, holds, down, joined>> /\ inRoom'
    BY <1>3 DEF Enter
  <2>3. ASSUME NEW t \in Sockets, MustBeSilent(t)' PROVE Silent(t)'
    <3>1. MustBeSilent(t) /\ (t # websocket \/ sock[websocket] # "open")
      BY <2>2, <2>3 DEF MustBeSilent
    <3>2. up'[t] = up[t]
      BY <1>3, <2>1, <3>1, Typed DEF Enter
    <3>3. QED  BY <2>2, <3>1, <3>2 DEF Quietness, SilentUntilCurrent, Silent, Joins
  <2>4. QED  BY <2>2, <2>3 DEF Quietness, SilentUntilCurrent, HoldsOnlyCurrent
<1>4. ASSUME NEW s \in Sockets, Accept(s) PROVE Quietness'
  <2>1. /\ sock[s] = "connecting" /\ sock' = [sock EXCEPT ![s] = "open"]
        /\ UNCHANGED <<inRoom, websocket, holds, up, down, joined>>
    BY <1>4 DEF Accept
  <2>2. \A t \in Sockets : MustBeSilent(t)' => MustBeSilent(t)
    BY <2>1, Typed DEF MustBeSilent
  <2>3. QED  BY <2>1, <2>2 DEF Quietness, SilentUntilCurrent, HoldsOnlyCurrent, Silent, Joins
<1>5. ASSUME NEW s \in Sockets, CloseDone(s) \/ Fails(s) PROVE Quietness'
  <2>1. PICK how \in {"closed", "lost"} : OnClose(s, how)
    BY <1>5 DEF CloseDone, Fails
  <2>2. /\ holds' = {} /\ sock' = [sock EXCEPT ![s] = how] /\ down' = [down EXCEPT ![s] = <<>>]
        /\ up' = up \/ up' = [up EXCEPT ![s] = <<>>]
        /\ UNCHANGED <<inRoom, websocket, joined>>
    BY <1>5, <2>1 DEF CloseDone, Fails, OnClose, Cleanup
  <2>3. ASSUME NEW t \in Sockets, MustBeSilent(t)' PROVE Silent(t)'
    <3>1. MustBeSilent(t)
      BY <2>2, <2>3, Typed DEF MustBeSilent
    <3>2. Silent(t)
      BY <3>1 DEF Quietness, SilentUntilCurrent
    <3>3. down'[t] = <<>> /\ (up'[t] = up[t] \/ up'[t] = <<>>)
      BY <2>2, <3>2, Typed DEF Silent
    <3>4. QED  BY <2>2, <3>2, <3>3 DEF Silent, Joins
  <2>4. QED  BY <2>2, <2>3 DEF SilentUntilCurrent, HoldsOnlyCurrent, Quietness
<1>6. ASSUME NEW s \in Sockets, Receive(s) PROVE Quietness'
  <2> DEFINE m == Head(down[s])
  <2>1. down[s] # <<>> /\ sock[s] = "open" /\ UNCHANGED <<inRoom, websocket, sock, up, joined>>
    BY <1>6 DEF Receive
  <2>2. ~MustBeSilent(s)
    BY <2>1 DEF Quietness, SilentUntilCurrent, Silent
  <2>3. s = websocket /\ inRoom
    BY <2>1, <2>2 DEF MustBeSilent
  <2>4. \A h \in holds' : h \in holds \/ h.over = s
    BY <1>6 DEF Receive, Cleanup
  <2>5. \A t \in Sockets : t # s => down'[t] = down[t]
    BY <1>6, Typed DEF Receive
  <2>6. ASSUME NEW t \in Sockets, MustBeSilent(t)' PROVE Silent(t)'
    <3>1. MustBeSilent(t) /\ t # s
      BY <2>1, <2>2, <2>6 DEF MustBeSilent
    <3>2. QED  BY <2>1, <2>5, <3>1 DEF Quietness, SilentUntilCurrent, Silent, Joins
  <2>7. QED  BY <2>1, <2>3, <2>4, <2>6 DEF Quietness, SilentUntilCurrent, HoldsOnlyCurrent
<1>7. ASSUME NEW s \in Sockets, Reads(s) PROVE Quietness'
  <2> DEFINE m == Head(up[s])
  <2>1. /\ up[s] # <<>> /\ up' = [up EXCEPT ![s] = Tail(@)]
        /\ UNCHANGED <<inRoom, websocket, sock, holds>>
    BY <1>7 DEF Reads
  <2>2. m \in Requests
    BY <2>1, Typed
  <2>3. /\ \A t \in Sockets : t # s => down'[t] = down[t]
        /\ \A r \in Rooms : joined'[r] \subseteq joined[r] \cup {s}
    BY <1>7, <2>2, Typed DEF Reads, TypeOK
  <2>4. ASSUME NEW t \in Sockets, MustBeSilent(t)' PROVE Silent(t)'
    <3>1. Silent(t)
      BY <2>1, <2>4 DEF MustBeSilent, Quietness, SilentUntilCurrent
    <3>2. CASE t # s
      <4>1. up'[t] = up[t]
        BY <2>1, <3>2, Typed
      <4>2. QED  BY <2>3, <3>1, <3>2, <4>1 DEF Silent, Joins
    <3>3. CASE t = s
      <4>1. m.kind # "join" /\ \A n \in DOMAIN Tail(up[s]) : Tail(up[s])[n].kind # "join"
        BY <2>1, <3>1, <3>3, Typed, TailsKeepSilence DEF Silent, Joins
      <4>2. UNCHANGED <<down, joined>>
        BY <1>7, <4>1 DEF Reads
      <4>3. up'[s] = Tail(up[s])
        BY <2>1, Typed
      <4>4. QED  BY <3>1, <3>3, <4>1, <4>2, <4>3 DEF Silent, Joins
    <3>4. QED  BY <3>2, <3>3
  <2>5. QED  BY <2>1, <2>4 DEF Quietness, SilentUntilCurrent, HoldsOnlyCurrent
<1>8. ASSUME NEW r \in Rooms, SendsState(r) \/ Kicks(r) \/ Prunes(r) PROVE Quietness'
  <2>1. UNCHANGED <<inRoom, websocket, sock, holds, up>>
    BY <1>8 DEF SendsState, Kicks, Prunes
  <2>2. \A t \in Sockets : t \notin joined[r] => down'[t] = down[t]
    BY <1>8 DEF SendsState, Kicks, Prunes, Tell, Listeners, TypeOK
  <2>3. \A i \in Rooms : joined'[i] \subseteq joined[i]
    BY <1>8 DEF SendsState, Kicks, Prunes, TypeOK
  <2>4. QED  BY <2>1, <2>2, <2>3
             DEF Quietness, SilentUntilCurrent, HoldsOnlyCurrent, MustBeSilent, Silent, Joins
<1>9. ASSUME NEW f \in Flows, Refused(f) \/ (\E r \in Rooms : Ask(f, r)) PROVE Quietness'
  BY <1>1, <1>9 DEF Refused, Ask
<1>10. ASSUME NEW r \in Rooms, MeshArrives(r) \/ MeshFails(r) PROVE Quietness'
  BY <1>1, <1>10 DEF MeshArrives, MeshFails
<1>11. CASE UNCHANGED vars
  BY <1>1, <1>11 DEF vars
<1>12. QED
  BY <1>2, <1>3, <1>4, <1>5, <1>6, <1>7, <1>8, <1>9, <1>10, <1>11 DEF Next, Flowing

\* The invariant of ClientSession: types, flows that know what they wait for, and
\* WebSockets that are silent until they are the current one.
THEOREM SessionInvariant == Spec => []SessionInv
<1>1. Init => SessionInv
  BY InitType, InitSession DEF SessionInv
<1>2. SessionInv /\ [Next]_vars => SessionInv'
  BY StepType, StepFlowsKnow, StepQuietness DEF SessionInv, Quietness
<1>3. QED  BY <1>1, <1>2, PTL DEF Spec

\* What the client shows of rooms came over its current WebSocket, however many
\* flows overlap and however late the old ones close.
THEOREM AlwaysHoldsOnlyCurrent == Spec => []HoldsOnlyCurrent
<1>1. SessionInv => HoldsOnlyCurrent
  BY DEF SessionInv
<1>2. QED  BY <1>1, SessionInvariant, PTL

=============================================================================
