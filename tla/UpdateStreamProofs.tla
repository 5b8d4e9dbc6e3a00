-------------------------- MODULE UpdateStreamProofs --------------------------
(***************************************************************************)
(* Safety of UpdateStream, and its refinement of RoomView, for any         *)
(* objects, clients, places and queues.                                    *)
(***************************************************************************)
EXTENDS UpdateStream, WellFoundedInduction, TLAPS

ModelAssumptions ==
    MaxPlace \in Nat \ {0} /\ MaxQueue \in Nat /\ NoClient \notin Clients

LEMMA ConstantsFit == ModelAssumptions
BY BoundsAssumption, NoClientAssumption DEF ModelAssumptions

-----------------------------------------------------------------------------
(* Induction over a queue: what HandleAll computes, by the least number of *)
(* messages for which it would be otherwise.                               *)

\* A set of naturals has a least element.
LEMMA NatLeast ==
    ASSUME NEW T \in SUBSET Nat, T # {}
    PROVE  \E n \in T : \A m \in T : n <= m
<1>1. \E n \in T : \A m \in T : ~(<<m, n>> \in OpToRel(<, Nat))
  BY NatLessThanWellFounded, WFMin
<1>2. PICK n \in T : \A m \in T : ~(<<m, n>> \in OpToRel(<, Nat))
  BY <1>1
<1>3. \A m \in T : ~(m < n)
  BY <1>2 DEF OpToRel
<1>4. QED  BY <1>3

\* A set that holds 0 and with each number the next one holds them all.
LEMMA NatSteps ==
    ASSUME NEW S, 0 \in S, \A n \in Nat : n \in S => n + 1 \in S
    PROVE  Nat \subseteq S
<1> DEFINE T == Nat \ S
<1>1. SUFFICES ASSUME T # {} PROVE FALSE
  OBVIOUS
<1>2. PICK n \in T : \A m \in T : n <= m
  BY <1>1, NatLeast
<1>3. n # 0 /\ n - 1 \in Nat /\ n - 1 \notin T
  BY <1>2
<1>4. (n - 1) + 1 \in S
  BY <1>3
<1>5. QED  BY <1>2, <1>4

\* The screens after each of the first `most` messages.
Screens(after, screen, queue, positions, most) ==
    after = [n \in 0 .. most |->
                IF n = 0 THEN screen
                ELSE IF n \in positions THEN Handle(after[n - 1], queue[n])
                ELSE after[n - 1]]

LEMMA ScreensExist ==
    ASSUME NEW screen, NEW queue, NEW positions, NEW most \in Nat
    PROVE  \E after : Screens(after, screen, queue, positions, most)
<1> DEFINE S == {n \in Nat : \E after : Screens(after, screen, queue, positions, n)}
<1>1. 0 \in S
  <2>1. Screens([n \in 0 .. 0 |-> screen], screen, queue, positions, 0)
    BY DEF Screens
  <2>2. QED  BY <2>1
<1>2. ASSUME NEW n \in Nat, n \in S PROVE n + 1 \in S
  <2>1. PICK after : Screens(after, screen, queue, positions, n)
    BY <1>2
  <2> DEFINE last == IF n + 1 \in positions THEN Handle(after[n], queue[n + 1]) ELSE after[n]
             more == [k \in 0 .. n + 1 |-> IF k = n + 1 THEN last ELSE after[k]]
  <2>2. ASSUME NEW k \in 0 .. n + 1
        PROVE  more[k] = IF k = 0 THEN screen
                         ELSE IF k \in positions THEN Handle(more[k - 1], queue[k])
                         ELSE more[k - 1]
    <3>1. CASE k = n + 1
      <4>1. more[k] = last /\ more[k - 1] = after[n] /\ k # 0
        BY <3>1
      <4>2. QED  BY <3>1, <4>1
    <3>2. CASE k # n + 1
      <4>1. k \in 0 .. n /\ (k # 0 => k - 1 \in 0 .. n)
        BY <3>2
      <4>2. more[k] = after[k] /\ (k # 0 => more[k - 1] = after[k - 1])
        BY <3>2, <4>1
      <4>3. after[k] = IF k = 0 THEN screen
                       ELSE IF k \in positions THEN Handle(after[k - 1], queue[k])
                       ELSE after[k - 1]
        BY <2>1, <4>1 DEF Screens
      <4>4. QED  BY <4>2, <4>3
    <3>3. QED  BY <3>1, <3>2
  <2>3. Screens(more, screen, queue, positions, n + 1)
    BY <2>2 DEF Screens
  <2>4. QED  BY <2>3
<1>3. Nat \subseteq S
  BY <1>1, <1>2, NatSteps
<1>4. QED  BY <1>3

LEMMA HandleAllIs ==
    ASSUME NEW screen, NEW queue, NEW positions, Len(queue) \in Nat
    PROVE  \E after : /\ Screens(after, screen, queue, positions, Len(queue))
                      /\ HandleAll(screen, queue, positions) = after[Len(queue)]
<1>1. \E after : Screens(after, screen, queue, positions, Len(queue))
  BY ScreensExist
<1>2. QED  BY <1>1, Zenon DEF HandleAll, Screens

\* A screen that is in G[0] and that each message leads from one set of G to the
\* next is in the last one when all are handled.
LEMMA HandleAllStays ==
    ASSUME NEW screen, NEW queue, NEW positions, Len(queue) \in Nat,
           NEW G, screen \in G[0],
           \A n \in 1 .. Len(queue) : \A scr \in G[n - 1] :
               IF n \in positions THEN Handle(scr, queue[n]) \in G[n] ELSE scr \in G[n]
    PROVE  HandleAll(screen, queue, positions) \in G[Len(queue)]
<1>1. PICK after : /\ Screens(after, screen, queue, positions, Len(queue))
                   /\ HandleAll(screen, queue, positions) = after[Len(queue)]
  BY HandleAllIs
<1> DEFINE S == {n \in Nat : n <= Len(queue) => after[n] \in G[n]}
<1>2. 0 \in S
  <2>1. after[0] = screen
    BY <1>1 DEF Screens
  <2>2. QED  BY <2>1
<1>3. ASSUME NEW n \in Nat, n \in S PROVE n + 1 \in S
  <2> SUFFICES ASSUME n + 1 <= Len(queue) PROVE after[n + 1] \in G[n + 1]
    BY <1>3
  <2>1. after[n] \in G[n]
    BY <1>3
  <2>2. n + 1 \in 1 .. Len(queue) /\ n + 1 \in 0 .. Len(queue) /\ (n + 1) - 1 = n /\ n + 1 # 0
    OBVIOUS
  <2>3. after[n + 1] = IF n + 1 \in positions THEN Handle(after[n], queue[n + 1]) ELSE after[n]
    BY <1>1, <2>2 DEF Screens
  <2>4. QED  BY <2>1, <2>2, <2>3
<1>4. Nat \subseteq S
  BY <1>2, <1>3, NatSteps
<1>5. QED  BY <1>1, <1>4

-----------------------------------------------------------------------------
(* The inductive invariant: StreamInv, and what follows a removal.         *)

\* After the removal of an object nothing tells a client of it any more.
GoneFrom(q, scr, o) ==
    \/ \E i \in DOMAIN q : Removes(q[i], o) /\ \A j \in DOMAIN q : j > i => ~Mentions(q[j], o)
    \/ o \notin scr.models /\ \A j \in DOMAIN q : ~Mentions(q[j], o)

GoneInv ==
    \A c \in sockets \ lossy : \A o \in told[c] \ objects :
        look[o] = "shape" /\ ~client[c].panicked => GoneFrom(rx1[c], client[c], o)

-----------------------------------------------------------------------------
(* Types.                                                                  *)

LEMMA NoScreenType == NoScreen \in Screen
BY ConstantsFit DEF NoScreen, Screen, ModelAssumptions

\* A state, of some of the objects.
LEMMA StatesType ==
    ASSUME NEW data
    PROVE  data \in States <=>
             DOMAIN data \in SUBSET Objects /\ data \in [DOMAIN data -> 1 .. MaxPlace]
BY DEF States

LEMMA MessageType ==
    /\ \A data \in States : /\ FullState(data) \in Messages
                            /\ FirstState(data) \in Messages
                            /\ Incremental(data) \in Messages
    /\ \A o \in Objects : RemoveObject(o) \in Messages
    /\ RemoveAllObjects \in Messages /\ Hibernating \in Messages
    /\ \A m \in Messages : /\ IsState(m) => m.data \in States
                           /\ m.kind = "remove" => m.object \in Objects
                           /\ m.kind \in {"full", "first", "incremental", "remove", "removeAll", "hibernating"}
BY DEF Messages, FullState, FirstState, Incremental, RemoveObject, RemoveAllObjects, Hibernating, IsState

LEMMA ScreenFields ==
    ASSUME NEW models \in SUBSET Objects, NEW loading \in SUBSET Objects,
           NEW state \in [Objects -> 0 .. MaxPlace], NEW greeted \in BOOLEAN, NEW panicked \in BOOLEAN
    PROVE  [models |-> models, loading |-> loading, state |-> state,
            greeted |-> greeted, panicked |-> panicked] \in Screen
BY DEF Screen

LEMMA ScreenType ==
    ASSUME NEW scr \in Screen
    PROVE  /\ scr.models \in SUBSET Objects /\ scr.loading \in SUBSET Objects
           /\ scr.state \in [Objects -> 0 .. MaxPlace]
           /\ scr.greeted \in BOOLEAN /\ scr.panicked \in BOOLEAN
BY DEF Screen

\* What each handler makes of a screen.
LEMMA TakeStateIs ==
    ASSUME NEW scr \in Screen, NEW m \in Messages, IsState(m)
    PROVE  LET taken == TakeState(scr, m) IN
           /\ taken \in Screen
           /\ taken.models \subseteq scr.models \cup {o \in DOMAIN m.data : look[o] = "shape"}
           /\ taken.loading \subseteq scr.loading \cup {o \in DOMAIN m.data : look[o] = "mesh"}
           /\ taken.state = [o \in Objects |-> IF o \in DOMAIN m.data THEN m.data[o] ELSE scr.state[o]]
           /\ taken.greeted = (scr.greeted \/ m.kind = "first")
           /\ taken.panicked = scr.panicked
<1> DEFINE new == IF IsIncremental(m) THEN {} ELSE DOMAIN m.data \ scr.models
           models == scr.models \cup {o \in new : look[o] = "shape"}
           loading == scr.loading \cup {o \in new : look[o] = "mesh"}
           state == [o \in Objects |-> IF o \in DOMAIN m.data THEN m.data[o] ELSE scr.state[o]]
           greeted == scr.greeted \/ m.kind = "first"
<1>1. TakeState(scr, m) = [models |-> models, loading |-> loading, state |-> state,
                           greeted |-> greeted, panicked |-> scr.panicked]
  BY DEF TakeState
<1>2. m.data \in States
  BY MessageType
<1>3. DOMAIN m.data \in SUBSET Objects /\ m.data \in [DOMAIN m.data -> 1 .. MaxPlace]
  BY <1>2, StatesType
<1>4. new \subseteq DOMAIN m.data
  OBVIOUS
<1>5. models \in SUBSET Objects /\ loading \in SUBSET Objects
  BY <1>3, <1>4, ScreenType
<1>6. state \in [Objects -> 0 .. MaxPlace]
  <2>1. \A p \in 1 .. MaxPlace : p \in 0 .. MaxPlace
    BY ConstantsFit DEF ModelAssumptions
  <2>2. QED  BY <1>3, <2>1, ScreenType
<1>7. greeted \in BOOLEAN /\ scr.panicked \in BOOLEAN
  BY ScreenType
<1>8. models \subseteq scr.models \cup {o \in DOMAIN m.data : look[o] = "shape"}
  BY <1>4
<1>9. loading \subseteq scr.loading \cup {o \in DOMAIN m.data : look[o] = "mesh"}
  BY <1>4
<1> HIDE DEF models, loading, state, greeted
<1>10. TakeState(scr, m) \in Screen
  BY <1>1, <1>5, <1>6, <1>7, ScreenFields
<1>11. QED  BY <1>1, <1>8, <1>9, <1>10 DEF state, greeted

LEMMA ForgetIs ==
    ASSUME NEW scr \in Screen, NEW gone \in SUBSET Objects
    PROVE  LET left == Forget(scr, gone) IN
           /\ left \in Screen
           /\ left.loading = scr.loading /\ left.greeted = scr.greeted
           /\ \/ /\ left.panicked = TRUE /\ left.models = scr.models /\ left.state = scr.state
              \/ /\ left.panicked = scr.panicked
                 /\ left.models = scr.models \ gone
                 /\ left.state = [o \in Objects |-> IF o \in gone THEN 0 ELSE scr.state[o]]
<1>1. CASE scr.loading # {}
  <2>1. Forget(scr, gone) = [scr EXCEPT !.panicked = TRUE]
    BY <1>1 DEF Forget
  <2>2. QED  BY <2>1 DEF Screen
<1>2. CASE scr.loading = {}
  <2> DEFINE models == scr.models \ gone
             state == [o \in Objects |-> IF o \in gone THEN 0 ELSE scr.state[o]]
  <2>1. Forget(scr, gone) = [scr EXCEPT !.models = models, !.state = state]
    BY <1>2, ScreenType DEF Forget
  <2>2. models \in SUBSET Objects /\ state \in [Objects -> 0 .. MaxPlace]
    BY ScreenType, ConstantsFit DEF ModelAssumptions
  <2> HIDE DEF models, state
  <2>3. [scr EXCEPT !.models = models, !.state = state] \in Screen
    BY <2>2 DEF Screen
  <2>4. /\ Forget(scr, gone).loading = scr.loading /\ Forget(scr, gone).greeted = scr.greeted
        /\ Forget(scr, gone).panicked = scr.panicked
        /\ Forget(scr, gone).models = models /\ Forget(scr, gone).state = state
    BY <2>1 DEF Screen
  <2>5. QED  BY <2>1, <2>3, <2>4 DEF models, state
<1>3. QED  BY <1>1, <1>2

LEMMA CleanupIs ==
    ASSUME NEW scr \in Screen
    PROVE  LET left == Cleanup(scr) IN
           /\ left \in Screen
           /\ left.loading = scr.loading /\ left.panicked = scr.panicked
           /\ left.models = {} /\ left.greeted = FALSE
           /\ left.state = [o \in Objects |-> 0]
<1> DEFINE zero == [o \in Objects |-> 0]
<1>1. NoScreen = [models |-> {}, loading |-> {}, state |-> zero, greeted |-> FALSE, panicked |-> FALSE]
  BY DEF NoScreen
<1>2. zero \in [Objects -> 0 .. MaxPlace]
  BY ConstantsFit DEF ModelAssumptions
<1> HIDE DEF zero
<1>3. /\ Cleanup(scr).loading = scr.loading /\ Cleanup(scr).panicked = scr.panicked
      /\ Cleanup(scr).models = {} /\ Cleanup(scr).greeted = FALSE /\ Cleanup(scr).state = zero
  BY <1>1 DEF Cleanup
<1>4. NoScreen \in Screen /\ scr.loading \in SUBSET Objects /\ scr.panicked \in BOOLEAN
  BY NoScreenType, ScreenType
<1>5. Cleanup(scr) \in Screen
  BY <1>4 DEF Cleanup, Screen
<1>6. QED  BY <1>3, <1>5 DEF zero

LEMMA HandleCases ==
    ASSUME NEW scr \in Screen, NEW m \in Messages
    PROVE  \/ IsState(m) /\ Handle(scr, m) = TakeState(scr, m)
           \/ m.kind = "remove" /\ m.object \in Objects /\ Handle(scr, m) = Forget(scr, {m.object})
           \/ m.kind = "removeAll" /\ Handle(scr, m) = Forget(scr, scr.models)
           \/ m.kind = "hibernating" /\ Handle(scr, m) = Cleanup(scr)
BY MessageType DEF Handle, IsState

LEMMA HandleType ==
    ASSUME NEW scr \in Screen, NEW m \in Messages
    PROVE  Handle(scr, m) \in Screen
<1>1. ASSUME IsState(m) PROVE TakeState(scr, m) \in Screen
  BY <1>1, TakeStateIs
<1>2. ASSUME m.object \in Objects PROVE Forget(scr, {m.object}) \in Screen
  BY <1>2, ForgetIs
<1>3. Forget(scr, scr.models) \in Screen
  BY ScreenType, ForgetIs
<1>4. Cleanup(scr) \in Screen
  BY CleanupIs
<1>5. QED  BY <1>1, <1>2, <1>3, <1>4, HandleCases

LEMMA HandleAllType ==
    ASSUME NEW scr \in Screen, NEW q \in Seq(Messages), NEW fed
    PROVE  HandleAll(scr, q, fed) \in Screen
<1> DEFINE G == [n \in 0 .. Len(q) |-> Screen]
<1>1. Len(q) \in Nat /\ \A n \in 1 .. Len(q) : q[n] \in Messages
  OBVIOUS
<1>2. \A n \in 0 .. Len(q) : G[n] = Screen
  OBVIOUS
<1>3. scr \in G[0]
  BY <1>1, <1>2
<1>4. \A n \in 1 .. Len(q) : \A x \in G[n - 1] :
          IF n \in fed THEN Handle(x, q[n]) \in G[n] ELSE x \in G[n]
  BY <1>1, <1>2, HandleType
<1> HIDE DEF G
<1>5. HandleAll(scr, q, fed) \in G[Len(q)]
  BY <1>1, <1>3, <1>4, HandleAllStays
<1>6. QED  BY <1>1, <1>2, <1>5

\* The rest of what TypeOK says, with the sets that it names.
LEMMA Typed ==
    TypeOK <=> /\ objects \subseteq named /\ named \subseteq Objects
               /\ look \in [Objects -> {"shape", "mesh", "none"}]
               /\ place \in [Objects -> 0 .. MaxPlace]
               /\ updated \subseteq objects
               /\ fullDue \in BOOLEAN /\ hibernating \in BOOLEAN /\ kicking \in BOOLEAN
               /\ sockets \subseteq Clients
               /\ joinPC \in {"idle", "collect", "send"}
               /\ joinPC = "idle" => joiner = NoClient
               /\ joinPC # "idle" => joiner \in Clients
               /\ snapshot \in States
               /\ rx1 \in [Clients -> Seq(Messages)]
               /\ client \in [Clients -> Screen]
               /\ lossy \subseteq Clients
               /\ told \in [Clients -> SUBSET Objects]
BY DEF TypeOK

\* No objects make a state; so do objects that all have a place.
LEMMA StateOf ==
    ASSUME NEW some \in SUBSET Objects, NEW at, \A o \in some : at[o] \in 1 .. MaxPlace
    PROVE  [o \in some |-> at[o]] \in States
BY StatesType

LEMMA EmptyState == <<>> \in States
<1>1. DOMAIN <<>> = {} /\ <<>> \in [{} -> 1 .. MaxPlace]
  OBVIOUS
<1>2. QED  BY <1>1, StatesType

\* What a broadcast leaves in the queues.
LEMMA BroadcastIs ==
    ASSUME TypeOK, NEW m \in Messages, Broadcast(m)
    PROVE  /\ rx1' \in [Clients -> Seq(Messages)]
           /\ \A c \in Clients : rx1'[c] = IF c \in sockets THEN Append(rx1[c], m) ELSE rx1[c]
BY DEF Broadcast, TypeOK

LEMMA InitType == Init => TypeOK
<1> SUFFICES ASSUME Init PROVE TypeOK
  OBVIOUS
<1>1. place \in [Objects -> 0 .. MaxPlace]
  BY ConstantsFit DEF Init, ModelAssumptions
<1>2. client \in [Clients -> Screen]
  BY NoScreenType DEF Init
<1>3. rx1 \in [Clients -> Seq(Messages)] /\ told \in [Clients -> SUBSET Objects] /\ snapshot \in States
  BY EmptyState DEF Init
<1>4. objects \subseteq named /\ named \subseteq Objects /\ updated \subseteq objects
  BY DEF Init
<1>5. QED  BY <1>1, <1>2, <1>3, <1>4, Typed DEF Init

\* Places move on by one, and what has a place keeps one.
LEMMA MovesIs ==
    ASSUME TypeOK, PlaceInv, NEW moved \in SUBSET objects, Moves(moved)
    PROVE  /\ place' \in [Objects -> 0 .. MaxPlace]
           /\ \A o \in Objects : place[o] <= place'[o]
           /\ \A o \in objects : place'[o] \in 1 .. MaxPlace
           /\ \A o \in Objects \ named : place'[o] = 0
<1>1. place \in [Objects -> 0 .. MaxPlace] /\ objects \subseteq Objects /\ objects \subseteq named
  BY DEF TypeOK
<1>2. \A o \in Objects : place'[o] = IF o \in moved THEN place[o] + 1 ELSE place[o]
  BY DEF Moves
<1>3. \A o \in moved : place[o] + 1 \in 1 .. MaxPlace
  BY <1>1, ConstantsFit DEF Moves, ModelAssumptions
<1>4. \A o \in Objects : place'[o] \in 0 .. MaxPlace /\ place[o] <= place'[o]
  BY <1>1, <1>2, <1>3, ConstantsFit DEF ModelAssumptions
<1>5. place' \in [Objects -> 0 .. MaxPlace]
  BY <1>4 DEF Moves
<1>6. \A o \in objects : place'[o] \in 1 .. MaxPlace
  BY <1>1, <1>4, ConstantsFit DEF PlaceInv, ModelAssumptions
<1>7. \A o \in Objects \ named : place'[o] = 0
  BY <1>1, <1>2 DEF PlaceInv
<1>8. QED  BY <1>4, <1>5, <1>6, <1>7

\* What one update of the room sends, if anything.
LEMMA TickSends ==
    ASSUME TypeOK, PlaceInv, NEW moved \in SUBSET objects, Tick(moved)
    PROVE  \/ rx1' = rx1
           \/ \E data \in States : \E m \in {FullState(data), Incremental(data)} :
                 /\ Broadcast(m)
                 /\ DOMAIN data \subseteq objects
                 /\ \A o \in DOMAIN data : data[o] = place'[o]
<1>1. Moves(moved) /\ objects \subseteq Objects
  BY DEF Tick, TypeOK
<1>2. \A o \in objects : place'[o] \in 1 .. MaxPlace
  BY <1>1, MovesIs
<1> DEFINE whole == [o \in objects |-> place'[o]]
           some == [o \in objects \cap (updated \cup moved) |-> place'[o]]
<1>3. whole \in States /\ some \in States
  BY <1>1, <1>2, StateOf
<1>4. CASE Broadcast(FullState(whole))
  BY <1>3, <1>4
<1>5. CASE Broadcast(Incremental(some))
  BY <1>3, <1>5
<1>6. QED  BY <1>4, <1>5 DEF Tick, SentTo

LEMMA StepType == TypeOK /\ PlaceInv /\ [Next]_vars => TypeOK'
<1> SUFFICES ASSUME TypeOK, PlaceInv, [Next]_vars PROVE TypeOK'
  OBVIOUS
<1> USE DEF roomVars, joinVars, historyVars
<1>1. ASSUME NEW o \in Objects, AddObject(o) PROVE TypeOK'
  <2>1. place' \in [Objects -> 0 .. MaxPlace]
    BY <1>1, ConstantsFit DEF AddObject, TypeOK, ModelAssumptions
  <2>2. told' \in [Clients -> SUBSET Objects]
    BY <1>1 DEF AddObject, TypeOK
  <2>3. QED  BY <1>1, <2>1, <2>2, Typed DEF AddObject, TypeOK
<1>2. ASSUME NEW o \in Objects, RemoveEntity(o) PROVE TypeOK'
  <2>1. rx1' \in [Clients -> Seq(Messages)]
    BY <1>2, MessageType, BroadcastIs DEF RemoveEntity
  <2>2. QED  BY <1>2, <2>1 DEF RemoveEntity, TypeOK
<1>3. CASE RemoveAll
  <2>1. rx1' \in [Clients -> Seq(Messages)]
    BY <1>3, MessageType, BroadcastIs DEF RemoveAll
  <2>2. QED  BY <1>3, <2>1 DEF RemoveAll, TypeOK
<1>4. ASSUME NEW moved \in SUBSET objects, Tick(moved) PROVE TypeOK'
  <2>1. place' \in [Objects -> 0 .. MaxPlace]
    BY <1>4, MovesIs DEF Tick
  <2>2. rx1' \in [Clients -> Seq(Messages)]
    <3>1. \A data \in States : \A m \in {FullState(data), Incremental(data)} :
             Broadcast(m) => rx1' \in [Clients -> Seq(Messages)]
      BY MessageType, BroadcastIs
    <3>2. QED  BY <1>4, <3>1, TickSends DEF TypeOK
  <2>3. updated' \subseteq objects /\ fullDue' \in BOOLEAN
    BY <1>4 DEF Tick, SentTo, TypeOK
  <2>4. QED  BY <1>4, <2>1, <2>2, <2>3 DEF Tick, TypeOK
<1>5. CASE MinutePasses
  BY <1>5 DEF MinutePasses, TypeOK
<1>6. CASE Kick
  <2>1. rx1' \in [Clients -> Seq(Messages)]
    BY <1>6, MessageType, BroadcastIs DEF Kick
  <2>2. QED  BY <1>6, <2>1 DEF Kick, TypeOK
<1>7. CASE CheckHibernation
  BY <1>7 DEF CheckHibernation, TypeOK
<1>14. CASE ClearSockets
  BY <1>14 DEF ClearSockets, TypeOK
<1>8. ASSUME NEW c \in Clients, Enter(c) PROVE TypeOK'
  BY <1>8 DEF Enter, TypeOK
<1>9. CASE Collect
  <2>1. WholeRoom \in States
    <3>1. objects \in SUBSET Objects /\ \A o \in objects : place[o] \in 1 .. MaxPlace
      BY ConstantsFit DEF TypeOK, PlaceInv, ModelAssumptions
    <3>2. QED  BY <3>1, StateOf DEF WholeRoom
  <2>2. QED  BY <1>9, <2>1 DEF Collect, TypeOK
<1>10. CASE Greet
  <2>1. joiner \in Clients /\ objects \in SUBSET Objects
    BY <1>10 DEF Greet, TypeOK
  <2>2. FirstState(snapshot) \in Messages
    BY MessageType DEF TypeOK
  <2>3. rx1' \in [Clients -> Seq(Messages)]
    BY <1>10, <2>1, <2>2 DEF Greet, TypeOK
  <2>4. told' \in [Clients -> SUBSET Objects]
    BY <1>10, <2>1 DEF Greet, TypeOK
  <2>5. snapshot' \in States
    BY <1>10, EmptyState DEF Greet
  <2>6. QED  BY <1>10, <2>3, <2>4, <2>5 DEF Greet, TypeOK
<1>11. ASSUME NEW c \in Clients, NEW o \in Objects, MeshLoaded(c, o) \/ MeshFails(c, o) PROVE TypeOK'
  <2>1. client[c] \in Screen
    BY DEF TypeOK
  <2>2. /\ \A left \in {client[c].loading, client[c].loading \ {o}} :
               [client[c] EXCEPT !.loading = left, !.models = @ \cup {o}] \in Screen
        /\ [client[c] EXCEPT !.loading = @ \ {o}] \in Screen
    BY <2>1 DEF Screen
  <2>3. client' \in [Clients -> Screen]
    BY <1>11, <2>2 DEF MeshLoaded, MeshFails, TypeOK
  <2>4. QED  BY <1>11, <2>3 DEF MeshLoaded, MeshFails, TypeOK
<1>12. ASSUME NEW c \in Clients, NEW fed, Transmit(c, fed) PROVE TypeOK'
  <2>1. client[c] \in Screen /\ rx1[c] \in Seq(Messages)
    BY DEF TypeOK
  <2>2. HandleAll(client[c], rx1[c], fed) \in Screen
    BY <2>1, HandleAllType
  <2>3. client' \in [Clients -> Screen]
    BY <1>12, <2>2 DEF Transmit, TypeOK
  <2>4. rx1' \in [Clients -> Seq(Messages)]
    BY <1>12 DEF Transmit, TypeOK
  <2>5. lossy' \subseteq Clients
    BY <1>12 DEF Transmit, TypeOK
  <2>6. QED  BY <1>12, <2>3, <2>4, <2>5 DEF Transmit, TypeOK
<1>13. CASE UNCHANGED vars
  BY <1>13 DEF TypeOK, vars
<1>15. QED
  BY <1>1, <1>2, <1>3, <1>4, <1>5, <1>6, <1>7, <1>8, <1>9, <1>10, <1>11, <1>12, <1>13, <1>14
     DEF Next, RoomStep, JoinStep, ClientStep

LEMMA StepPlace == TypeOK /\ PlaceInv /\ [Next]_vars => PlaceInv'
<1> SUFFICES ASSUME TypeOK, PlaceInv, [Next]_vars PROVE PlaceInv'
  OBVIOUS
<1> USE DEF roomVars, joinVars, historyVars
<1>1. ASSUME NEW o \in Objects, AddObject(o) PROVE PlaceInv'
  BY <1>1 DEF AddObject, TypeOK, PlaceInv
<1>2. ASSUME NEW o \in Objects, RemoveEntity(o) PROVE PlaceInv'
  BY <1>2 DEF RemoveEntity, PlaceInv
<1>3. CASE RemoveAll
  BY <1>3 DEF RemoveAll, PlaceInv
<1>4. ASSUME NEW moved \in SUBSET objects, Tick(moved) PROVE PlaceInv'
  <2>1. Moves(moved) /\ named' = named /\ objects' = objects
    BY <1>4 DEF Tick
  <2>2. QED  BY <2>1, MovesIs DEF PlaceInv
<1>5. ASSUME UNCHANGED <<objects, named, place>> PROVE PlaceInv'
  BY <1>5 DEF PlaceInv
<1>6. QED
  BY <1>1, <1>2, <1>3, <1>4, <1>5
     DEF Next, RoomStep, JoinStep, ClientStep, MinutePasses, Kick, ClearSockets, CheckHibernation, Enter, Collect,
         Greet, MeshLoaded, MeshFails, Transmit, vars

\* The room, the queues, the screens and the histories are always of their types.
THEOREM TypeCorrect == Spec => []TypeOK
<1>1. Init => PlaceInv
  BY DEF Init, PlaceInv
<1>2. QED  BY <1>1, InitType, StepType, StepPlace, PTL DEF Spec

-----------------------------------------------------------------------------
(* What a step does to the room, and to one client.                        *)

\* Objects only move forward, names are never used again, looks never change.
LEMMA RoomMoves ==
    ASSUME TypeOK, PlaceInv, [Next]_vars
    PROVE  /\ named \subseteq named'
           /\ objects' \cap named \subseteq objects
           /\ look' = look
           /\ \A o \in Objects : place[o] <= place'[o]
<1> USE DEF roomVars, joinVars, historyVars
<1>1. place \in [Objects -> Nat]
  BY ConstantsFit DEF TypeOK, ModelAssumptions
<1>2. ASSUME NEW o \in Objects, AddObject(o)
      PROVE  /\ named \subseteq named' /\ objects' \cap named \subseteq objects /\ look' = look
             /\ \A x \in Objects : place[x] <= place'[x]
  BY <1>1, <1>2 DEF AddObject, TypeOK, PlaceInv
<1>3. ASSUME NEW moved \in SUBSET objects, Tick(moved)
      PROVE  /\ named \subseteq named' /\ objects' \cap named \subseteq objects /\ look' = look
             /\ \A x \in Objects : place[x] <= place'[x]
  BY <1>3, MovesIs DEF Tick
<1>4. ASSUME \/ \E o \in Objects : RemoveEntity(o)
             \/ RemoveAll
             \/ UNCHANGED <<objects, named, look, place>>
      PROVE  /\ named \subseteq named' /\ objects' \cap named \subseteq objects /\ look' = look
             /\ \A x \in Objects : place[x] <= place'[x]
  <2>1. named' = named /\ look' = look /\ place' = place /\ objects' \subseteq objects
    BY <1>4 DEF RemoveEntity, RemoveAll
  <2>2. QED  BY <1>1, <2>1
<1>5. QED
  BY <1>2, <1>3, <1>4
     DEF Next, RoomStep, JoinStep, ClientStep, MinutePasses, Kick, ClearSockets, CheckHibernation, Enter, Collect,
         Greet, MeshLoaded, MeshFails, Transmit, vars

\* What the room, or a join, sends to client c.
Sends(m, c) ==
    \/ \E o \in objects : m = RemoveObject(o) /\ o \notin objects'
    \/ m = RemoveAllObjects /\ objects' = {}
    \/ m = Hibernating
    \/ /\ IsState(m) /\ m.kind # "first"
       /\ \A o \in DOMAIN m.data : o \in objects' /\ m.data[o] = place'[o]
    \/ m = FirstState(snapshot) /\ joiner = c /\ joiner' = NoClient

\* What a mesh that was loaded, or was not, does to client c.
Loads(c) ==
    \E o \in client[c].loading :
        \/ \E left \in {client[c].loading, client[c].loading \ {o}} :
              client'[c] = [client[c] EXCEPT !.loading = left, !.models = @ \cup {o}]
        \/ client'[c] = [client[c] EXCEPT !.loading = @ \ {o}]

LEMMA MeshLoads ==
    ASSUME TypeOK, NEW c \in Clients, NEW o \in Objects, MeshLoaded(c, o) \/ MeshFails(c, o)
    PROVE  Loads(c)
<1>1. o \in client[c].loading /\ client \in [Clients -> Screen]
  BY DEF MeshLoaded, MeshFails, TypeOK
<1>2. CASE MeshLoaded(c, o)
  <2>1. PICK left \in {client[c].loading, client[c].loading \ {o}} :
           client' = [client EXCEPT ![c] = [client[c] EXCEPT !.loading = left,
                                                            !.models = client[c].models \cup {o}]]
    BY <1>2 DEF MeshLoaded
  <2>2. client'[c] = [client[c] EXCEPT !.loading = left, !.models = client[c].models \cup {o}]
    BY <1>1, <2>1
  <2>3. QED  BY <1>1, <2>2 DEF Loads
<1>3. CASE MeshFails(c, o)
  <2>1. client'[c] = [client[c] EXCEPT !.loading = client[c].loading \ {o}]
    BY <1>1, <1>3 DEF MeshFails
  <2>2. QED  BY <1>1, <2>1 DEF Loads
<1>4. QED  BY <1>2, <1>3

LEMMA BroadcastSends ==
    ASSUME TypeOK, NEW m \in Messages, Broadcast(m), NEW c \in Clients, Sends(m, c)
    PROVE  \/ rx1'[c] = rx1[c]
           \/ \E x \in Messages : rx1'[c] = Append(rx1[c], x) /\ Sends(x, c)
<1>1. rx1'[c] = rx1[c] \/ rx1'[c] = Append(rx1[c], m)
  BY BroadcastIs
<1>2. QED  BY <1>1

LEMMA StepOf ==
    ASSUME TypeOK, PlaceInv, [Next]_vars, NEW c \in Clients
    PROVE  \/ /\ client'[c] = client[c]
              /\ \/ rx1'[c] = rx1[c]
                 \/ \E m \in Messages : rx1'[c] = Append(rx1[c], m) /\ Sends(m, c)
           \/ rx1'[c] = rx1[c] /\ Loads(c)
           \/ \E fed : Transmit(c, fed)
<1> USE DEF roomVars, joinVars, historyVars
<1> DEFINE Goal == \/ /\ client'[c] = client[c]
                      /\ \/ rx1'[c] = rx1[c]
                         \/ \E m \in Messages : rx1'[c] = Append(rx1[c], m) /\ Sends(m, c)
                   \/ rx1'[c] = rx1[c] /\ Loads(c)
                   \/ \E fed : Transmit(c, fed)
<1>1. ASSUME NEW o \in Objects, RemoveEntity(o) PROVE Goal
  <2>1. Sends(RemoveObject(o), c) /\ RemoveObject(o) \in Messages
    BY <1>1, MessageType DEF RemoveEntity, Sends
  <2>2. QED  BY <1>1, <2>1, BroadcastSends DEF RemoveEntity
<1>2. CASE RemoveAll
  <2>1. Sends(RemoveAllObjects, c) /\ RemoveAllObjects \in Messages
    BY <1>2, MessageType DEF RemoveAll, Sends
  <2>2. QED  BY <1>2, <2>1, BroadcastSends DEF RemoveAll
<1>3. CASE Kick
  <2>1. Sends(Hibernating, c) /\ Hibernating \in Messages
    BY MessageType DEF Sends
  <2>2. QED  BY <1>3, <2>1, BroadcastSends DEF Kick
<1>4. ASSUME NEW moved \in SUBSET objects, Tick(moved) PROVE Goal
  <2>1. client' = client /\ objects' = objects
    BY <1>4 DEF Tick
  <2>2. CASE rx1' = rx1
    BY <2>1, <2>2
  <2>3. ASSUME NEW data \in States, NEW m \in {FullState(data), Incremental(data)}, Broadcast(m),
               DOMAIN data \subseteq objects, \A o \in DOMAIN data : data[o] = place'[o]
        PROVE  Goal
    <3>1. m \in Messages
      BY MessageType
    <3>2. IsState(m) /\ m.kind # "first" /\ m.data = data
      BY DEF FullState, Incremental, IsState
    <3>3. Sends(m, c)
      BY <2>1, <2>3, <3>2 DEF Sends
    <3>4. QED  BY <2>1, <2>3, <3>1, <3>3, BroadcastSends
  <2>4. QED  BY <1>4, <2>2, <2>3, TickSends
<1>5. CASE Greet
  <2>1. joiner \in Clients /\ FirstState(snapshot) \in Messages
    BY <1>5, MessageType DEF Greet, TypeOK
  <2>2. CASE joiner = c
    <3>1. rx1'[c] = Append(rx1[c], FirstState(snapshot)) /\ client' = client
      BY <1>5, <2>2 DEF Greet, TypeOK
    <3>2. Sends(FirstState(snapshot), c)
      BY <1>5, <2>2 DEF Greet, Sends
    <3>3. QED  BY <2>1, <3>1, <3>2
  <2>3. CASE joiner # c
    BY <1>5, <2>1, <2>3 DEF Greet, TypeOK
  <2>4. QED  BY <2>2, <2>3
<1>6. ASSUME NEW d \in Clients, NEW o \in Objects, MeshLoaded(d, o) \/ MeshFails(d, o) PROVE Goal
  <2>1. CASE d = c
    <3>1. Loads(c)
      BY <1>6, <2>1, MeshLoads
    <3>2. QED  BY <1>6, <3>1 DEF MeshLoaded, MeshFails
  <2>2. CASE d # c
    BY <1>6, <2>2 DEF MeshLoaded, MeshFails, TypeOK
  <2>3. QED  BY <2>1, <2>2
<1>7. ASSUME NEW d \in Clients, NEW fed, Transmit(d, fed) PROVE Goal
  BY <1>7 DEF Transmit, TypeOK
<1>8. ASSUME UNCHANGED <<rx1, client>> PROVE Goal
  BY <1>8
<1>9. QED
  BY <1>1, <1>2, <1>3, <1>4, <1>5, <1>6, <1>7, <1>8
     DEF Next, RoomStep, JoinStep, ClientStep, AddObject, MinutePasses, ClearSockets, CheckHibernation, Enter, Collect, vars

\* What the handling of a queue does to a client: nothing else changes with it.
LEMMA TransmitIs ==
    ASSUME TypeOK, NEW c \in Clients, NEW fed, Transmit(c, fed)
    PROVE  /\ rx1[c] \in Seq(Messages) /\ Len(rx1[c]) \in Nat /\ client[c] \in Screen
           /\ \A n \in 1 .. Len(rx1[c]) : n \in DOMAIN rx1[c] /\ rx1[c][n] \in Messages
           /\ rx1'[c] = <<>>
           /\ client'[c] = HandleAll(client[c], rx1[c], fed)
           /\ UNCHANGED <<objects, named, look, place, sockets, joiner, told>>
           /\ \A d \in Clients \ {c} : rx1'[d] = rx1[d] /\ client'[d] = client[d]
<1>1. rx1[c] \in Seq(Messages) /\ client[c] \in Screen
  BY DEF TypeOK
<1>2. Len(rx1[c]) \in Nat /\ \A n \in 1 .. Len(rx1[c]) : n \in DOMAIN rx1[c] /\ rx1[c][n] \in Messages
  BY <1>1
<1>3. QED  BY <1>1, <1>2 DEF Transmit, TypeOK, roomVars, joinVars

-----------------------------------------------------------------------------
(* What is sent and shown is of the past.                                  *)

LEMMA PlacesOrdered ==
    ASSUME TypeOK, PlaceInv, [Next]_vars, NEW o \in Objects
    PROVE  place[o] \in Nat /\ place'[o] \in Nat /\ place[o] <= place'[o]
<1>1. TypeOK'
  BY StepType
<1>2. \A x \in 0 .. MaxPlace : x \in Nat
  BY ConstantsFit DEF ModelAssumptions
<1>3. place[o] \in 0 .. MaxPlace /\ place'[o] \in 0 .. MaxPlace
  BY <1>1 DEF TypeOK
<1>4. QED  BY <1>2, <1>3, RoomMoves

LEMMA DataPlaces ==
    ASSUME NEW data \in States, NEW o \in DOMAIN data
    PROVE  o \in Objects /\ data[o] \in Nat
<1>1. data \in [DOMAIN data -> 1 .. MaxPlace] /\ DOMAIN data \in SUBSET Objects
  BY StatesType
<1>2. data[o] \in 1 .. MaxPlace
  BY <1>1
<1>3. QED  BY <1>1, <1>2, ConstantsFit DEF ModelAssumptions

LEMMA ShownPlaces ==
    ASSUME NEW scr \in Screen, NEW o \in Objects
    PROVE  scr.state[o] \in Nat
<1>1. scr.state[o] \in 0 .. MaxPlace
  BY ScreenType
<1>2. QED  BY <1>1, ConstantsFit DEF ModelAssumptions

\* The past stays the past.
LEMMA PastStays ==
    ASSUME TypeOK, PlaceInv, [Next]_vars
    PROVE  /\ \A data \in States : PastOf(data) => PastOf(data)'
           /\ \A q \in Seq(Messages) : QueuePast(q) => QueuePast(q)'
           /\ \A scr \in Screen : ScreenPast(scr) => ScreenPast(scr)'
<1>1. ASSUME NEW data \in States, PastOf(data) PROVE PastOf(data)'
  <2> SUFFICES ASSUME NEW o \in DOMAIN data PROVE o \in named' /\ data[o] <= place'[o]
    BY DEF PastOf
  <2>1. o \in Objects /\ data[o] \in Nat /\ o \in named /\ data[o] <= place[o]
    BY <1>1, DataPlaces DEF PastOf
  <2>2. QED  BY <2>1, PlacesOrdered, RoomMoves
<1>2. ASSUME NEW q \in Seq(Messages), QueuePast(q) PROVE QueuePast(q)'
  <2> SUFFICES ASSUME NEW i \in DOMAIN q, IsState(q[i]) PROVE PastOf(q[i].data)'
    BY DEF QueuePast
  <2>1. q[i].data \in States /\ PastOf(q[i].data)
    BY <1>2, MessageType DEF QueuePast
  <2>2. QED  BY <1>1, <2>1
<1>3. ASSUME NEW scr \in Screen, ScreenPast(scr) PROVE ScreenPast(scr)'
  <2>1. ASSUME NEW o \in Objects PROVE scr.state[o] <= place'[o]
    BY <1>3, ShownPlaces, PlacesOrdered DEF ScreenPast
  <2>2. QED  BY <1>3, <2>1, RoomMoves DEF ScreenPast
<1>4. QED  BY <1>1, <1>2, <1>3

\* Handling what is of the past leaves a screen of the past.
LEMMA HandlePast ==
    ASSUME TypeOK, NEW scr \in Screen, ScreenPast(scr), NEW m \in Messages, IsState(m) => PastOf(m.data)
    PROVE  ScreenPast(Handle(scr, m))
<1>1. ASSUME IsState(m) PROVE ScreenPast(TakeState(scr, m))
  <2>1. DOMAIN m.data \subseteq named /\ \A o \in DOMAIN m.data : m.data[o] <= place[o]
    BY <1>1 DEF PastOf
  <2> DEFINE taken == TakeState(scr, m)
  <2>2. /\ taken.models \subseteq scr.models \cup {o \in DOMAIN m.data : look[o] = "shape"}
        /\ taken.loading \subseteq scr.loading \cup {o \in DOMAIN m.data : look[o] = "mesh"}
        /\ taken.state = [o \in Objects |-> IF o \in DOMAIN m.data THEN m.data[o] ELSE scr.state[o]]
    BY <1>1, TakeStateIs
  <2> HIDE DEF taken
  <2>3. ScreenPast(taken)
    BY <2>1, <2>2 DEF ScreenPast
  <2>4. QED  BY <2>3 DEF taken
<1>2. \A x \in Objects : 0 <= place[x]
  BY ConstantsFit DEF TypeOK, ModelAssumptions
<1>3. ASSUME NEW gone \in SUBSET Objects PROVE ScreenPast(Forget(scr, gone))
  <2> DEFINE left == Forget(scr, gone)
  <2>1. /\ left.loading = scr.loading
        /\ \/ left.models = scr.models /\ left.state = scr.state
           \/ /\ left.models = scr.models \ gone
              /\ left.state = [o \in Objects |-> IF o \in gone THEN 0 ELSE scr.state[o]]
    BY ForgetIs
  <2> HIDE DEF left
  <2>2. ScreenPast(left)
    BY <1>2, <2>1 DEF ScreenPast
  <2>3. QED  BY <2>2 DEF left
<1>4. ScreenPast(Cleanup(scr))
  <2> DEFINE left == Cleanup(scr)
  <2>1. left.loading = scr.loading /\ left.models = {} /\ left.state = [o \in Objects |-> 0]
    BY CleanupIs
  <2> HIDE DEF left
  <2>2. ScreenPast(left)
    BY <1>2, <2>1 DEF ScreenPast
  <2>3. QED  BY <2>2 DEF left
<1>5. QED  BY <1>1, <1>3, <1>4, HandleCases, ScreenType

LEMMA HandleAllPast ==
    ASSUME TypeOK, NEW scr \in Screen, ScreenPast(scr), NEW q \in Seq(Messages), QueuePast(q), NEW fed
    PROVE  ScreenPast(HandleAll(scr, q, fed))
<1> DEFINE P == {x \in Screen : ScreenPast(x)}
           G == [n \in 0 .. Len(q) |-> P]
<1>1. Len(q) \in Nat /\ \A n \in 1 .. Len(q) : q[n] \in Messages /\ (IsState(q[n]) => PastOf(q[n].data))
  BY DEF QueuePast
<1>2. \A n \in 0 .. Len(q) : G[n] = P
  OBVIOUS
<1>3. scr \in G[0]
  BY <1>1, <1>2
<1>4. \A n \in 1 .. Len(q) : \A x \in P : Handle(x, q[n]) \in P
  BY <1>1, HandlePast, HandleType
<1> HIDE DEF P
<1>5. \A n \in 1 .. Len(q) : \A x \in G[n - 1] :
          IF n \in fed THEN Handle(x, q[n]) \in G[n] ELSE x \in G[n]
  BY <1>1, <1>2, <1>4
<1> HIDE DEF G
<1>6. HandleAll(scr, q, fed) \in G[Len(q)]
  BY <1>1, <1>3, <1>5, HandleAllStays
<1>7. QED  BY <1>1, <1>2, <1>6 DEF P

\* What is sent is of the past by then.
LEMMA SendsPast ==
    ASSUME TypeOK, PlaceInv, PastInv, [Next]_vars, NEW c \in Clients, NEW m \in Messages, Sends(m, c), IsState(m)
    PROVE  PastOf(m.data)'
<1>1. TypeOK'
  BY StepType
<1>2. m.data \in States
  BY MessageType
<1>3. CASE \A o \in DOMAIN m.data : o \in objects' /\ m.data[o] = place'[o]
  <2>1. \A o \in DOMAIN m.data : o \in Objects /\ m.data[o] \in Nat
    BY <1>2, DataPlaces
  <2>2. objects' \subseteq named'
    BY <1>1 DEF TypeOK
  <2>3. QED  BY <1>3, <2>1, <2>2 DEF PastOf
<1>4. CASE m = FirstState(snapshot)
  <2>1. m.data = snapshot
    BY <1>4 DEF FirstState
  <2>2. QED  BY <1>2, <2>1, PastStays DEF PastInv
<1>5. QED
  BY <1>3, <1>4 DEF Sends, IsState, RemoveObject, RemoveAllObjects, Hibernating

LEMMA AppendIs ==
    ASSUME NEW q \in Seq(Messages), NEW m \in Messages
    PROVE  /\ Len(q) \in Nat
           /\ DOMAIN q = 1 .. Len(q) /\ DOMAIN Append(q, m) = 1 .. Len(q) + 1
           /\ \A i \in 1 .. Len(q) : Append(q, m)[i] = q[i] /\ q[i] \in Messages
           /\ Append(q, m)[Len(q) + 1] = m
           /\ \A i \in 1 .. Len(q) + 1 : i \in 1 .. Len(q) \/ i = Len(q) + 1
OBVIOUS

LEMMA StepPast == TypeOK /\ PlaceInv /\ PastInv /\ [Next]_vars => PastInv'
<1> SUFFICES ASSUME TypeOK, PlaceInv, PastInv, [Next]_vars PROVE PastInv'
  OBVIOUS
<1>1. TypeOK'
  BY StepType
<1>2. ASSUME NEW data, data = snapshot' PROVE PastOf(data)'
  <2>1. CASE snapshot' = snapshot
    <3>1. data \in States /\ PastOf(data)
      BY <1>2, <2>1 DEF PastInv, TypeOK
    <3>2. QED  BY <3>1, PastStays
  <2>2. CASE snapshot' = <<>>
    BY <1>2, <2>2 DEF PastOf
  <2>3. CASE Collect
    <3>1. snapshot' = WholeRoom /\ UNCHANGED roomVars
      BY <2>3 DEF Collect
    <3>2. \A o \in objects : o \in named /\ place[o] <= place[o]
      BY ConstantsFit DEF TypeOK, ModelAssumptions
    <3>3. QED  BY <1>2, <3>1, <3>2 DEF roomVars, PastOf, WholeRoom
  <2>4. QED
    BY <2>1, <2>2, <2>3
       DEF Next, RoomStep, JoinStep, ClientStep, AddObject, RemoveEntity, RemoveAll, Tick, Kick,
           MinutePasses, ClearSockets, CheckHibernation, Enter, Greet, MeshLoaded, MeshFails, Transmit, vars, joinVars
<1>3. ASSUME NEW c \in Clients, NEW q, q = rx1'[c] PROVE QueuePast(q)'
  <2>1. PICK old \in Seq(Messages) : old = rx1[c]
    BY DEF TypeOK
  <2>2. QueuePast(old)'
    <3>1. QueuePast(old)
      BY <2>1 DEF PastInv
    <3>2. QED  BY <3>1, PastStays
  <2>3. CASE rx1'[c] = rx1[c]
    <3>1. q = old
      BY <1>3, <2>1, <2>3
    <3>2. QED  BY <2>2, <3>1
  <2>4. CASE rx1'[c] = <<>>
    BY <1>3, <2>4 DEF QueuePast
  <2>5. ASSUME NEW m \in Messages, rx1'[c] = Append(rx1[c], m), Sends(m, c) PROVE QueuePast(q)'
    <3>1. IsState(m) => PastOf(m.data)'
      BY <2>5, SendsPast
    <3>2. q = Append(old, m)
      BY <1>3, <2>1, <2>5
    <3>3. \A i \in 1 .. Len(old) : IsState(old[i]) => PastOf(old[i].data)'
      BY <2>2, AppendIs DEF QueuePast
    <3>4. \A i \in DOMAIN q : IsState(q[i]) => PastOf(q[i].data)'
      BY <3>1, <3>2, <3>3, AppendIs
    <3>5. QED  BY <3>4 DEF QueuePast
  <2>6. QED  BY <2>3, <2>4, <2>5, StepOf, TransmitIs
<1>4. ASSUME NEW c \in Clients, NEW scr, scr = client'[c] PROVE ScreenPast(scr)'
  <2>1. PICK old \in Screen : old = client[c]
    BY DEF TypeOK
  <2>2. ScreenPast(old) /\ scr \in Screen
    BY <1>1, <1>4, <2>1 DEF PastInv, TypeOK
  <2>3. CASE client'[c] = client[c]
    BY <1>4, <2>1, <2>2, <2>3, PastStays
  <2>4. CASE Loads(c)
    <3>1. PICK o \in old.loading :
             \/ \E left \in {old.loading, old.loading \ {o}} :
                   scr = [old EXCEPT !.loading = left, !.models = @ \cup {o}]
             \/ scr = [old EXCEPT !.loading = @ \ {o}]
      BY <1>4, <2>1, <2>4 DEF Loads
    <3>2. scr.models \subseteq old.models \cup {o} /\ scr.loading \subseteq old.loading /\ scr.state = old.state
      BY <3>1 DEF Screen
    <3>3. ScreenPast(scr)
      BY <2>2, <3>2 DEF ScreenPast
    <3>4. QED  BY <2>2, <3>3, PastStays
  <2>5. ASSUME NEW fed, Transmit(c, fed) PROVE ScreenPast(scr)'
    <3>1. ScreenPast(HandleAll(old, rx1[c], fed))
      BY <2>1, <2>2, <2>5, TransmitIs, HandleAllPast DEF PastInv
    <3>2. ScreenPast(scr)
      BY <1>4, <2>1, <2>5, <3>1, TransmitIs
    <3>3. QED  BY <2>2, <3>2, PastStays
  <2>6. QED  BY <2>3, <2>4, <2>5, StepOf
<1>5. QED  BY <1>2, <1>3, <1>4 DEF PastInv, PastOf, QueuePast, ScreenPast

-----------------------------------------------------------------------------
(* The first state is sent once.                                           *)

\* Without a first state a client is not greeted.
LEMMA HandleGreets ==
    ASSUME NEW scr \in Screen, NEW m \in Messages, m.kind # "first", Handle(scr, m).greeted
    PROVE  scr.greeted /\ m.kind # "hibernating"
<1>1. ASSUME IsState(m) PROVE TakeState(scr, m).greeted = scr.greeted
  <2>1. TakeState(scr, m).greeted = (scr.greeted \/ m.kind = "first")
    BY <1>1, TakeStateIs
  <2>2. QED  BY <2>1, ScreenType
<1>2. \A gone \in SUBSET Objects : Forget(scr, gone).greeted = scr.greeted
  BY ForgetIs
<1>3. Cleanup(scr).greeted = FALSE
  BY CleanupIs
<1>4. scr.models \in SUBSET Objects
  BY ScreenType
<1>5. QED  BY <1>1, <1>2, <1>3, <1>4, HandleCases DEF IsState

LEMMA HandleAllGreets ==
    ASSUME NEW scr \in Screen, ~scr.greeted, NEW q \in Seq(Messages),
           \A i \in DOMAIN q : q[i].kind # "first", NEW fed
    PROVE  ~HandleAll(scr, q, fed).greeted
<1> DEFINE P == {x \in Screen : ~x.greeted}
           G == [n \in 0 .. Len(q) |-> P]
<1>1. Len(q) \in Nat /\ \A n \in 1 .. Len(q) : q[n] \in Messages /\ q[n].kind # "first"
  OBVIOUS
<1>2. \A n \in 0 .. Len(q) : G[n] = P
  OBVIOUS
<1>3. scr \in G[0]
  BY <1>1, <1>2
<1>4. \A n \in 1 .. Len(q) : \A x \in P : Handle(x, q[n]) \in P
  BY <1>1, HandleGreets, HandleType
<1> HIDE DEF P
<1>5. \A n \in 1 .. Len(q) : \A x \in G[n - 1] :
          IF n \in fed THEN Handle(x, q[n]) \in G[n] ELSE x \in G[n]
  BY <1>1, <1>2, <1>4
<1> HIDE DEF G
<1>6. HandleAll(scr, q, fed) \in G[Len(q)]
  BY <1>1, <1>3, <1>5, HandleAllStays
<1>7. QED  BY <1>1, <1>2, <1>6 DEF P

LEMMA JoinerMoves ==
    ASSUME TypeOK, [Next]_vars
    PROVE  \/ joiner' = joiner
           \/ joiner' = NoClient
           \/ \E d \in Clients : /\ joiner' = d /\ client[d] = NoScreen /\ rx1[d] = <<>>
                                 /\ UNCHANGED <<client, rx1>>
BY DEF Next, RoomStep, JoinStep, ClientStep, AddObject, RemoveEntity, RemoveAll, Tick, Kick,
       MinutePasses, ClearSockets, CheckHibernation, Enter, Collect, Greet, MeshLoaded, MeshFails, Transmit, vars, joinVars

\* A mesh that is loaded shows no other places.
LEMMA LoadsIs ==
    ASSUME TypeOK, NEW c \in Clients, Loads(c)
    PROVE  /\ client'[c].models \cup client'[c].loading \subseteq client[c].models \cup client[c].loading
           /\ client'[c].models \subseteq client[c].models \cup client[c].loading
           /\ client'[c].loading \subseteq client[c].loading
           /\ client'[c].state = client[c].state
           /\ client'[c].greeted = client[c].greeted
           /\ client'[c].panicked = client[c].panicked
<1>1. PICK old \in Screen : old = client[c]
  BY DEF TypeOK
<1>2. PICK o \in old.loading :
         \/ \E left \in {old.loading, old.loading \ {o}} :
               client'[c] = [old EXCEPT !.loading = left, !.models = @ \cup {o}]
         \/ client'[c] = [old EXCEPT !.loading = @ \ {o}]
  BY <1>1 DEF Loads
<1>3. /\ client'[c].models \subseteq old.models \cup {o}
      /\ client'[c].loading \subseteq old.loading
  BY <1>2 DEF Screen
<1>4. /\ client'[c].state = old.state
      /\ client'[c].greeted = old.greeted
      /\ client'[c].panicked = old.panicked
  BY <1>2 DEF Screen
<1>5. QED  BY <1>1, <1>3, <1>4

\* The first state is the only message to a client that is not sent to others.
LEMMA SendsFirst ==
    ASSUME TypeOK, JoinInv, NEW c \in Clients, NEW m, Sends(m, c), m.kind = "first"
    PROVE  joiner = c /\ joiner' = NoClient /\ ~client[c].greeted
BY DEF Sends, JoinInv, RemoveObject, RemoveAllObjects, Hibernating

LEMMA StepJoin == TypeOK /\ PlaceInv /\ JoinInv /\ [Next]_vars => JoinInv'
<1> SUFFICES ASSUME TypeOK, PlaceInv, JoinInv, [Next]_vars, NEW c \in Clients
             PROVE  /\ client'[c].greeted => joiner' # c
                    /\ client'[c].greeted \/ joiner' = c =>
                          \A i \in DOMAIN rx1'[c] : rx1'[c][i].kind # "first"
  BY DEF JoinInv
<1>1. NoClient # c
  BY ConstantsFit DEF ModelAssumptions
<1>2. client[c] \in Screen /\ rx1[c] \in Seq(Messages)
  BY DEF TypeOK
<1>3. CASE joiner' = c /\ client[c] = NoScreen /\ rx1[c] = <<>> /\ UNCHANGED <<client, rx1>>
  BY <1>3 DEF NoScreen
<1>4. CASE joiner' # c \/ joiner' = joiner
  <2>1. joiner' = c => joiner = c
    BY <1>4
  <2>2. ASSUME client'[c].greeted = client[c].greeted, rx1'[c] = rx1[c]
        PROVE  /\ client'[c].greeted => joiner' # c
               /\ client'[c].greeted \/ joiner' = c =>
                     \A i \in DOMAIN rx1'[c] : rx1'[c][i].kind # "first"
    BY <2>1, <2>2 DEF JoinInv
  <2>3. ASSUME NEW m \in Messages, rx1'[c] = Append(rx1[c], m), Sends(m, c), client'[c] = client[c]
        PROVE  /\ client'[c].greeted => joiner' # c
               /\ client'[c].greeted \/ joiner' = c =>
                     \A i \in DOMAIN rx1'[c] : rx1'[c][i].kind # "first"
    <3>1. m.kind = "first" => joiner' # c /\ ~client'[c].greeted
      BY <1>1, <2>3, SendsFirst
    <3>2. client'[c].greeted \/ joiner' = c => \A i \in 1 .. Len(rx1[c]) : rx1[c][i].kind # "first"
      BY <1>2, <2>1, <2>3, AppendIs DEF JoinInv
    <3>3. client'[c].greeted \/ joiner' = c =>
              \A i \in DOMAIN rx1'[c] : rx1'[c][i].kind # "first"
      BY <1>2, <2>3, <3>1, <3>2, AppendIs
    <3>4. QED  BY <2>1, <2>3, <3>3 DEF JoinInv
  <2>4. ASSUME NEW fed, Transmit(c, fed)
        PROVE  /\ client'[c].greeted => joiner' # c
               /\ client'[c].greeted \/ joiner' = c =>
                     \A i \in DOMAIN rx1'[c] : rx1'[c][i].kind # "first"
    <3>1. joiner = c => ~client'[c].greeted
      BY <1>2, <2>4, TransmitIs, HandleAllGreets DEF JoinInv
    <3>2. QED  BY <2>4, <3>1, TransmitIs
  <2>5. QED  BY <2>2, <2>3, <2>4, StepOf, LoadsIs
<1>5. QED  BY <1>1, <1>3, <1>4, JoinerMoves

-----------------------------------------------------------------------------
(* Nothing older than what it shows is sent to a client.                   *)

LEMMA StepOrder == TypeOK /\ PlaceInv /\ PastInv /\ JoinInv /\ OrderInv /\ [Next]_vars => OrderInv'
<1> SUFFICES ASSUME TypeOK, PlaceInv, PastInv, JoinInv, OrderInv, [Next]_vars,
                    NEW c \in Clients, client'[c].greeted
             PROVE  \A i \in DOMAIN rx1'[c] : IsState(rx1'[c][i]) =>
                       \A o \in DOMAIN rx1'[c][i].data : client'[c].state[o] <= rx1'[c][i].data[o]
  BY DEF OrderInv, QueueAfter
<1>1. client[c] \in Screen /\ rx1[c] \in Seq(Messages)
  BY DEF TypeOK
<1>2. CASE client'[c].greeted = client[c].greeted /\ client'[c].state = client[c].state /\ rx1'[c] = rx1[c]
  BY <1>2 DEF OrderInv, QueueAfter
<1>3. ASSUME NEW m \in Messages, rx1'[c] = Append(rx1[c], m), Sends(m, c), client'[c] = client[c]
      PROVE  \A i \in DOMAIN rx1'[c] : IsState(rx1'[c][i]) =>
                \A o \in DOMAIN rx1'[c][i].data : client'[c].state[o] <= rx1'[c][i].data[o]
  <2>1. m.kind # "first"
    BY <1>3, SendsFirst
  <2>2. IsState(m) => \A o \in DOMAIN m.data : m.data[o] = place'[o]
    BY <2>1, <1>3 DEF Sends, IsState, RemoveObject, RemoveAllObjects, Hibernating, FirstState
  <2>3. ASSUME IsState(m), NEW o \in DOMAIN m.data PROVE client[c].state[o] <= m.data[o]
    <3>1. o \in Objects
      BY <2>3, MessageType, DataPlaces
    <3>2. client[c].state[o] \in Nat /\ client[c].state[o] <= place[o]
      BY <1>1, <3>1, ShownPlaces DEF PastInv, ScreenPast
    <3>3. m.data[o] = place'[o]
      BY <2>2, <2>3
    <3>4. QED  BY <3>1, <3>2, <3>3, PlacesOrdered
  <2>4. \A i \in 1 .. Len(rx1[c]) : IsState(rx1[c][i]) =>
           \A o \in DOMAIN rx1[c][i].data : client[c].state[o] <= rx1[c][i].data[o]
    BY <1>1, <1>3, AppendIs DEF OrderInv, QueueAfter
  <2>5. QED  BY <1>1, <1>3, <2>3, <2>4, AppendIs
<1>4. CASE rx1'[c] = <<>>
  BY <1>4
<1>5. QED  BY <1>2, <1>3, <1>4, StepOf, LoadsIs, TransmitIs

-----------------------------------------------------------------------------
(* Removals are of what has left the room.                                 *)

LEMMA StepRemoval ==
    TypeOK /\ PlaceInv /\ PastInv /\ RemovalInv /\ [Next]_vars => RemovalInv'
<1> SUFFICES ASSUME TypeOK, PlaceInv, PastInv, RemovalInv, [Next]_vars, NEW c \in Clients
             PROVE  QueueRemoves(rx1[c], client[c])'
  BY DEF RemovalInv
<1>1. client[c] \in Screen /\ rx1[c] \in Seq(Messages)
  BY DEF TypeOK
<1>2. client[c].models \cup client[c].loading \subseteq named /\ QueuePast(rx1[c])
  BY DEF PastInv, ScreenPast
<1>3. \A i \in DOMAIN rx1[c] : \A o : Mentions(rx1[c][i], o) => o \in named
  BY <1>2 DEF QueuePast, PastOf, Mentions
<1>4. named \subseteq named' /\ objects' \cap named \subseteq objects
  BY RoomMoves
\* What is in the queue already.
<1>5. ASSUME NEW i \in DOMAIN rx1[c]
      PROVE  /\ rx1[c][i].kind = "remove" => rx1[c][i].object \in named' \ objects'
             /\ rx1[c][i].kind = "removeAll" =>
                  \A o \in objects' : /\ o \notin client[c].models \cup client[c].loading
                                      /\ \A j \in 1 .. i : ~Mentions(rx1[c][j], o)
  <2>1. rx1[c][i].kind = "remove" => rx1[c][i].object \in named' \ objects'
    BY <1>4 DEF RemovalInv, QueueRemoves
  <2>2. ASSUME rx1[c][i].kind = "removeAll", NEW o \in objects'
        PROVE  o \notin client[c].models \cup client[c].loading /\ \A j \in 1 .. i : ~Mentions(rx1[c][j], o)
    <3>1. CASE o \in named
      BY <1>4, <2>2, <3>1 DEF RemovalInv, QueueRemoves
    <3>2. CASE o \notin named
      <4>1. \A j \in 1 .. i : j \in DOMAIN rx1[c]
        BY <1>1
      <4>2. QED  BY <1>2, <1>3, <3>2, <4>1
    <3>3. QED  BY <3>1, <3>2
  <2>3. QED  BY <2>1, <2>2
<1>6. CASE rx1'[c] = rx1[c] /\ client'[c].models \cup client'[c].loading \subseteq client[c].models \cup client[c].loading
  BY <1>5, <1>6 DEF QueueRemoves, Mentions, IsState
<1>7. ASSUME NEW m \in Messages, rx1'[c] = Append(rx1[c], m), Sends(m, c), client'[c] = client[c]
      PROVE  QueueRemoves(rx1[c], client[c])'
  <2>1. m.kind = "remove" => m.object \in named' \ objects'
    <3>1. objects \subseteq named
      BY DEF TypeOK
    <3>2. QED
      BY <1>4, <1>7, <3>1 DEF Sends, IsState, RemoveObject, RemoveAllObjects, Hibernating, FirstState
  <2>2. m.kind = "removeAll" => objects' = {}
    BY <1>7 DEF Sends, IsState, RemoveObject, RemoveAllObjects, Hibernating, FirstState
  <2>3. \A i \in 1 .. Len(rx1[c]) : \A j \in 1 .. i : rx1'[c][j] = rx1[c][j]
    BY <1>1, <1>7, AppendIs
  <2>4. ASSUME NEW i \in DOMAIN rx1'[c]
        PROVE  /\ rx1'[c][i].kind = "remove" => rx1'[c][i].object \in named' \ objects'
               /\ rx1'[c][i].kind = "removeAll" =>
                    \A o \in objects' : /\ o \notin client[c].models \cup client[c].loading
                                        /\ \A j \in 1 .. i : ~Mentions(rx1'[c][j], o)
    <3>1. CASE i = Len(rx1[c]) + 1
      <4>1. rx1'[c][i] = m
        BY <1>1, <1>7, <3>1, AppendIs
      <4>2. QED  BY <2>1, <2>2, <4>1
    <3>2. CASE i \in 1 .. Len(rx1[c])
      <4>1. i \in DOMAIN rx1[c] /\ rx1'[c][i] = rx1[c][i] /\ \A j \in 1 .. i : rx1'[c][j] = rx1[c][j]
        BY <1>1, <1>7, <2>3, <3>2, AppendIs
      <4>2. QED  BY <1>5, <4>1
    <3>3. QED  BY <1>1, <1>7, <3>1, <3>2, AppendIs
  <2>5. QED  BY <1>7, <2>4 DEF QueueRemoves, Mentions, IsState
<1>8. CASE rx1'[c] = <<>>
  BY <1>8 DEF QueueRemoves
<1>9. QED  BY <1>6, <1>7, <1>8, StepOf, LoadsIs, TransmitIs

-----------------------------------------------------------------------------
(* The refinement of RoomView.                                             *)

\* A place that a screen may show next, when it has shown object o at `before`.
MayShow(before, now, o) ==
    \/ before <= now /\ now <= place[o]
    \/ now = 0 /\ o \notin objects

\* Of a client that stays greeted, the screens while it handles its queue: each
\* shows what the client may show next, and nothing that is in the room but yet
\* to be sent, after a RemoveAll.
MoreShown(before, q, n) ==
    {scr \in Screen :
        /\ scr.greeted => \A o \in Objects : MayShow(before[o], scr.state[o], o)
        /\ \A o \in objects : (\E i \in n + 1 .. Len(q) : q[i].kind = "removeAll") => o \notin scr.models}

LEMMA TakeShows ==
    ASSUME TypeOK, NEW before, NEW q \in Seq(Messages), NEW n \in 1 .. Len(q),
           NEW scr \in MoreShown(before, q, n - 1), IsState(q[n]), q[n].kind # "first", PastOf(q[n].data),
           \A o \in DOMAIN q[n].data : before[o] <= q[n].data[o],
           \A i \in DOMAIN q : q[i].kind = "removeAll" => \A o \in objects : \A j \in 1 .. i : ~Mentions(q[j], o)
    PROVE  TakeState(scr, q[n]) \in MoreShown(before, q, n)
<1>1. scr \in Screen /\ q[n] \in Messages /\ Len(q) \in Nat
  BY DEF MoreShown
<1> DEFINE taken == TakeState(scr, q[n])
<1>2. /\ taken \in Screen
      /\ taken.models \subseteq scr.models \cup {o \in DOMAIN q[n].data : look[o] = "shape"}
      /\ taken.state = [o \in Objects |-> IF o \in DOMAIN q[n].data THEN q[n].data[o] ELSE scr.state[o]]
      /\ taken.greeted = (scr.greeted \/ q[n].kind = "first")
  BY <1>1, TakeStateIs
<1>3. taken.greeted => scr.greeted
  BY <1>1, <1>2, ScreenType
<1> HIDE DEF taken
<1>4. ASSUME taken.greeted, NEW o \in Objects PROVE MayShow(before[o], taken.state[o], o)
  <2>1. CASE o \in DOMAIN q[n].data
    BY <1>2, <2>1 DEF MayShow, PastOf
  <2>2. CASE o \notin DOMAIN q[n].data
    BY <1>2, <1>3, <1>4, <2>2 DEF MayShow, MoreShown
  <2>3. QED  BY <2>1, <2>2
<1>5. ASSUME NEW o \in objects, NEW i \in n + 1 .. Len(q), q[i].kind = "removeAll"
      PROVE  o \notin taken.models
  <2>1. i \in DOMAIN q /\ n \in 1 .. i /\ i \in (n - 1) + 1 .. Len(q)
    BY <1>1
  <2>2. ~Mentions(q[n], o) /\ o \notin scr.models
    BY <1>5, <2>1 DEF MoreShown
  <2>3. QED  BY <1>2, <2>2 DEF Mentions
<1>6. taken \in MoreShown(before, q, n)
  BY <1>2, <1>4, <1>5 DEF MoreShown
<1>7. QED  BY <1>6 DEF taken

LEMMA ForgetShows ==
    ASSUME TypeOK, NEW before, NEW q \in Seq(Messages), NEW n \in 1 .. Len(q),
           NEW scr \in MoreShown(before, q, n - 1),
           NEW gone \in SUBSET Objects, gone \cap objects = {}
    PROVE  Forget(scr, gone) \in MoreShown(before, q, n)
<1>1. scr \in Screen /\ Len(q) \in Nat
  BY DEF MoreShown
<1> DEFINE left == Forget(scr, gone)
<1>2. /\ left \in Screen /\ left.greeted = scr.greeted
      /\ left.models \subseteq scr.models
      /\ \A o \in Objects : left.state[o] = scr.state[o] \/ (o \in gone /\ left.state[o] = 0)
  <2>1. /\ left \in Screen /\ left.greeted = scr.greeted
        /\ \/ left.models = scr.models /\ left.state = scr.state
           \/ /\ left.models = scr.models \ gone
              /\ left.state = [o \in Objects |-> IF o \in gone THEN 0 ELSE scr.state[o]]
    BY <1>1, ForgetIs
  <2> HIDE DEF left
  <2>2. QED  BY <2>1
<1> HIDE DEF left
<1>3. ASSUME left.greeted, NEW o \in Objects PROVE MayShow(before[o], left.state[o], o)
  <2>1. scr.greeted
    BY <1>2, <1>3
  <2>2. CASE left.state[o] = scr.state[o]
    BY <2>1, <2>2 DEF MoreShown
  <2>3. CASE o \in gone /\ left.state[o] = 0
    BY <2>3 DEF MayShow
  <2>4. QED  BY <1>2, <2>2, <2>3
<1>4. ASSUME NEW o \in objects, NEW i \in n + 1 .. Len(q), q[i].kind = "removeAll"
      PROVE  o \notin left.models
  <2>1. i \in (n - 1) + 1 .. Len(q)
    BY <1>1
  <2>2. QED  BY <1>2, <1>4, <2>1 DEF MoreShown
<1>5. left \in MoreShown(before, q, n)
  BY <1>2, <1>3, <1>4 DEF MoreShown
<1>6. QED  BY <1>5 DEF left

\* What a client that is greeted shows when it has handled its queue.
LEMMA HandleAllShows ==
    ASSUME TypeOK, PastInv, JoinInv, OrderInv, RemovalInv, NEW c \in Clients, client[c].greeted, NEW fed
    PROVE  HandleAll(client[c], rx1[c], fed).greeted =>
             \A o \in Objects : MayShow(client[c].state[o], HandleAll(client[c], rx1[c], fed).state[o], o)
<1> DEFINE q == rx1[c]
           before == client[c].state
           G == [n \in 0 .. Len(q) |-> MoreShown(before, q, n)]
<1>1. q \in Seq(Messages) /\ Len(q) \in Nat /\ client[c] \in Screen
  BY DEF TypeOK
<1>2. \A n \in 1 .. Len(q) : n \in DOMAIN q /\ q[n] \in Messages /\ q[n].kind # "first"
  BY <1>1 DEF JoinInv
<1>3. \A n \in 1 .. Len(q) : IsState(q[n]) => PastOf(q[n].data) /\ \A o \in DOMAIN q[n].data : before[o] <= q[n].data[o]
  BY <1>2 DEF PastInv, QueuePast, OrderInv, QueueAfter
<1>4. \A i \in DOMAIN q : q[i].kind = "removeAll" => \A o \in objects : \A j \in 1 .. i : ~Mentions(q[j], o)
  BY DEF RemovalInv, QueueRemoves
<1>5. \A n \in 0 .. Len(q) : G[n] = MoreShown(before, q, n)
  OBVIOUS
<1>6. client[c] \in G[0]
  <2>1. ASSUME NEW o \in Objects PROVE MayShow(before[o], client[c].state[o], o)
    BY <1>1, ShownPlaces DEF MayShow, PastInv, ScreenPast
  <2>2. ASSUME NEW o \in objects, NEW i \in 0 + 1 .. Len(q), q[i].kind = "removeAll"
        PROVE  o \notin client[c].models
    BY <1>2, <2>2 DEF RemovalInv, QueueRemoves
  <2>3. client[c] \in MoreShown(before, q, 0)
    BY <1>1, <2>1, <2>2 DEF MoreShown
  <2>4. QED  BY <1>1, <1>5, <2>3
<1>7. ASSUME NEW n \in 1 .. Len(q), NEW scr \in MoreShown(before, q, n - 1)
      PROVE  /\ Handle(scr, q[n]) \in MoreShown(before, q, n)
             /\ n \notin fed => scr \in MoreShown(before, q, n)
  <2>1. scr \in Screen /\ q[n] \in Messages /\ q[n].kind # "first"
    BY <1>2 DEF MoreShown
  <2>2. ASSUME IsState(q[n]) PROVE TakeState(scr, q[n]) \in MoreShown(before, q, n)
    BY <1>1, <1>2, <1>3, <1>4, <2>2, TakeShows
  <2>3. ASSUME q[n].kind = "remove", q[n].object \in Objects
        PROVE  Forget(scr, {q[n].object}) \in MoreShown(before, q, n)
    <3>1. q[n].object \notin objects
      BY <1>2, <2>3 DEF RemovalInv, QueueRemoves
    <3>2. {q[n].object} \in SUBSET Objects /\ {q[n].object} \cap objects = {}
      BY <2>3, <3>1
    <3>3. QED  BY <1>1, <3>2, ForgetShows
  <2>4. ASSUME q[n].kind = "removeAll" PROVE Forget(scr, scr.models) \in MoreShown(before, q, n)
    <3>1. n \in (n - 1) + 1 .. Len(q)
      BY <1>1
    <3>2. scr.models \cap objects = {} /\ scr.models \in SUBSET Objects
      BY <2>1, <2>4, <3>1, ScreenType DEF MoreShown
    <3>3. QED  BY <1>1, <3>2, ForgetShows
  <2>5. Cleanup(scr) \in MoreShown(before, q, n)
    <3>1. Cleanup(scr) \in Screen /\ Cleanup(scr).models = {} /\ Cleanup(scr).greeted = FALSE
      BY <2>1, CleanupIs
    <3>2. QED  BY <3>1 DEF MoreShown
  <2>6. Handle(scr, q[n]) \in MoreShown(before, q, n)
    BY <2>1, <2>2, <2>3, <2>4, <2>5, HandleCases
  <2>7. \A i \in n + 1 .. Len(q) : i \in (n - 1) + 1 .. Len(q)
    BY <1>1
  <2>8. scr \in MoreShown(before, q, n)
    BY <2>1, <2>7 DEF MoreShown
  <2>9. QED  BY <2>6, <2>8
<1> HIDE DEF q
<1>8. \A n \in 1 .. Len(q) : \A scr \in G[n - 1] :
          IF n \in fed THEN Handle(scr, q[n]) \in G[n] ELSE scr \in G[n]
  BY <1>1, <1>5, <1>7
<1> HIDE DEF G
<1>9. HandleAll(client[c], q, fed) \in G[Len(q)]
  BY <1>1, <1>6, <1>8, HandleAllStays
<1>10. HandleAll(client[c], q, fed) \in MoreShown(before, q, Len(q))
  BY <1>1, <1>5, <1>9
<1>11. QED  BY <1>10 DEF MoreShown, q

Inv == TypeOK /\ PlaceInv /\ PastInv /\ JoinInv /\ OrderInv /\ RemovalInv

LEMMA InitInv == Init => Inv
<1> SUFFICES ASSUME Init PROVE Inv
  OBVIOUS
<1>1. PlaceInv
  BY DEF Init, PlaceInv
<1>2. PastInv
  <2>1. PastOf(<<>>)
    BY DEF PastOf
  <2>2. ScreenPast(NoScreen)
    BY ConstantsFit DEF ScreenPast, NoScreen, Init, ModelAssumptions
  <2>3. QueuePast(<<>>)
    BY DEF QueuePast
  <2>4. QED  BY <2>1, <2>2, <2>3 DEF PastInv, Init
<1>3. JoinInv /\ OrderInv /\ RemovalInv
  BY ConstantsFit DEF Init, JoinInv, OrderInv, RemovalInv, QueueRemoves, NoScreen, ModelAssumptions
<1>4. QED  BY <1>1, <1>2, <1>3, InitType DEF Inv

LEMMA StepInv == Inv /\ [Next]_vars => Inv'
BY StepType, StepPlace, StepPast, StepJoin, StepOrder, StepRemoval DEF Inv

LEMMA AlwaysInv == Spec => []Inv
BY InitInv, StepInv, PTL DEF Spec

\* A step that changes no screen and greets nobody is one of the room.
LEMMA RoomRefines ==
    ASSUME Inv, [Next]_vars,
           \A c \in Clients : client'[c].state = client[c].state /\ client'[c].greeted = client[c].greeted
    PROVE  View!RoomChanges
<1>1. TypeOK'
  BY StepInv DEF Inv
<1>2. objects' \in SUBSET Objects /\ place' \in [Objects -> 0 .. MaxPlace]
  BY <1>1 DEF TypeOK
<1>3. \A o \in Objects : place'[o] >= place[o]
  BY PlacesOrdered DEF Inv
<1>4. Greeted' = Greeted
  BY DEF Greeted
<1>5. [c \in Clients |-> client[c].state]' = [c \in Clients |-> client[c].state]
  OBVIOUS
<1>6. QED  BY <1>2, <1>3, <1>4, <1>5 DEF View!RoomChanges

\* A client that handles its queue begins to watch, ends to watch, or shows more.
LEMMA TransmitRefines ==
    ASSUME Inv, [Next]_vars, NEW c \in Clients, NEW fed, Transmit(c, fed)
    PROVE  View!Turn(c) \/ View!ShowMore(c) \/ View!ShowEarly(c)
<1> DEFINE shown == [d \in Clients |-> client[d].state]
<1>1. TypeOK /\ TypeOK'
  BY StepInv DEF Inv
<1>2. shown' \in [Clients -> [Objects -> 0 .. MaxPlace]]
  <2>1. \A d \in Clients : client'[d] \in Screen
    BY <1>1 DEF TypeOK
  <2>2. \A d \in Clients : client'[d].state \in [Objects -> 0 .. MaxPlace]
    BY <2>1, ScreenType
  <2>3. QED  BY <2>2
<1>3. \A d \in Clients \ {c} : shown'[d] = shown[d] /\ client'[d].greeted = client[d].greeted
  BY <1>1, TransmitIs
<1>4. UNCHANGED <<objects, place>>
  BY <1>1, TransmitIs
<1>5. client[c].greeted \in BOOLEAN /\ client'[c].greeted \in BOOLEAN
  BY <1>1, ScreenType DEF TypeOK
<1>6. CASE client[c].greeted # client'[c].greeted
  <2>1. Greeted' = IF c \in Greeted THEN Greeted \ {c} ELSE Greeted \cup {c}
    BY <1>3, <1>5, <1>6 DEF Greeted
  <2>2. QED  BY <1>2, <1>3, <1>4, <2>1 DEF View!Turn
<1>7. CASE client[c].greeted = client'[c].greeted /\ ~client[c].greeted
  <2>1. Greeted' = Greeted /\ c \notin Greeted
    BY <1>3, <1>7 DEF Greeted
  <2>2. QED  BY <1>2, <1>3, <1>4, <2>1 DEF View!ShowEarly
<1>8. CASE client[c].greeted = client'[c].greeted /\ client[c].greeted
  <2>1. Greeted' = Greeted /\ c \in Greeted
    BY <1>3, <1>8 DEF Greeted
  <2>2. \A o \in Objects : MayShow(client[c].state[o], client'[c].state[o], o)
    BY <1>1, <1>8, HandleAllShows, TransmitIs DEF Inv
  <2>3. ASSUME NEW o \in Objects
        PROVE  \/ shown'[c][o] >= shown[c][o] /\ shown'[c][o] <= place[o]
               \/ shown'[c][o] = 0 /\ o \notin objects
    <3>1. client[c].state[o] \in Nat /\ client'[c].state[o] \in Nat
      BY <1>1, ShownPlaces DEF TypeOK
    <3>2. QED  BY <2>2, <3>1 DEF MayShow
  <2>4. QED  BY <1>2, <1>3, <1>4, <2>1, <2>3 DEF View!ShowMore
<1>9. QED  BY <1>5, <1>6, <1>7, <1>8

\* Rooms and clients do what RoomView promises: screens move only forward.
THEOREM RefinesRoomView == Spec => ShowsThePast
<1>1. Init => View!Init
  <2> SUFFICES ASSUME Init PROVE View!Init
    OBVIOUS
  <2>1. place \in [Objects -> 0 .. 1]
    BY DEF Init
  <2>2. Greeted = {} /\ [c \in Clients |-> client[c].state] = [c \in Clients |-> [o \in Objects |-> 0]]
    BY DEF Init, Greeted, NoScreen
  <2>3. QED  BY <2>1, <2>2 DEF Init, View!Init
<1>2. Inv /\ [Next]_vars => [View!Next]_(View!vars)
  <2> SUFFICES ASSUME Inv, [Next]_vars PROVE View!Next
    BY DEF View!vars
  <2>1. ASSUME NEW c \in Clients, NEW fed, Transmit(c, fed) PROVE View!Next
    BY <2>1, TransmitRefines DEF View!Next
  <2>2. CASE \A c \in Clients : ~\E fed : Transmit(c, fed)
    <3>1. \A c \in Clients : client'[c].state = client[c].state /\ client'[c].greeted = client[c].greeted
      BY <2>2, StepOf, LoadsIs DEF Inv
    <3>2. QED  BY <3>1, RoomRefines DEF View!Next
  <2>3. QED  BY <2>1, <2>2
<1>3. QED  BY <1>1, <1>2, AlwaysInv, PTL DEF Spec, View!Spec, ShowsThePast

-----------------------------------------------------------------------------
(* Inside one batch, too.                                                  *)

LEMMA StepInOrder == Inv /\ SentInOrder /\ [Next]_vars => SentInOrder'
<1> SUFFICES ASSUME Inv, SentInOrder, [Next]_vars PROVE SentInOrder'
  OBVIOUS
<1>0. \A d \in Clients : \A k \in DOMAIN rx1'[d] : \A x \in Objects : Mentions(rx1'[d][k], x) =>
          /\ client'[d].greeted => client'[d].state[x] <= rx1'[d][k].data[x]
          /\ rx1'[d][k].data[x] <= place'[x]
  BY StepInv DEF Inv, OrderInv, QueueAfter, PastInv, QueuePast, PastOf, Mentions, IsState
<1> SUFFICES ASSUME NEW c \in Clients,
                    NEW i \in DOMAIN rx1'[c], NEW o \in Objects, Mentions(rx1'[c][i], o),
                    NEW j \in DOMAIN rx1'[c], j > i, Mentions(rx1'[c][j], o), rx1'[c][j].kind # "first"
             PROVE  rx1'[c][i].data[o] <= rx1'[c][j].data[o]
  BY <1>0 DEF SentInOrder, Mentions, IsState
<1>1. TypeOK /\ PlaceInv /\ client[c] \in Screen /\ rx1[c] \in Seq(Messages)
  BY DEF Inv, TypeOK
<1>2. CASE rx1'[c] = rx1[c]
  BY <1>2 DEF SentInOrder
<1>3. ASSUME NEW m \in Messages, rx1'[c] = Append(rx1[c], m), Sends(m, c), client'[c] = client[c]
      PROVE  rx1'[c][i].data[o] <= rx1'[c][j].data[o]
  <2>1. i \in 1 .. Len(rx1[c]) /\ rx1'[c][i] = rx1[c][i]
    BY <1>1, <1>3, AppendIs
  <2>2. CASE j \in 1 .. Len(rx1[c])
    <3>1. rx1'[c][j] = rx1[c][j] /\ i \in DOMAIN rx1[c] /\ j \in DOMAIN rx1[c]
      BY <1>1, <1>3, <2>1, <2>2, AppendIs
    <3>2. QED  BY <1>3, <2>1, <3>1 DEF SentInOrder
  <2>3. CASE j = Len(rx1[c]) + 1
    <3>1. rx1'[c][j] = m
      BY <1>1, <1>3, <2>3, AppendIs
    <3>2. m.kind # "first"
      BY <3>1
    <3>3. m.data[o] = place'[o]
      BY <1>3, <3>1, <3>2
         DEF Sends, Mentions, IsState, RemoveObject, RemoveAllObjects, Hibernating, FirstState
    <3>4. i \in DOMAIN rx1[c] /\ IsState(rx1[c][i]) /\ o \in DOMAIN rx1[c][i].data /\ rx1[c][i] \in Messages
      BY <1>1, <2>1, AppendIs DEF Mentions
    <3>5. rx1[c][i].data[o] <= place[o] /\ rx1[c][i].data[o] \in Nat
      BY <3>4, MessageType, DataPlaces DEF Inv, PastInv, QueuePast, PastOf
    <3>6. QED  BY <1>1, <2>1, <3>1, <3>3, <3>5, PlacesOrdered
  <2>4. QED  BY <1>1, <1>3, <2>2, <2>3, AppendIs
<1>4. CASE rx1'[c] = <<>>
  BY <1>4
<1>5. QED  BY <1>1, <1>2, <1>3, <1>4, StepOf, LoadsIs, TransmitIs

\* Neither coalescing nor refused messages put the places of an object out of
\* order on the way to a client.
THEOREM AlwaysSentInOrder == Spec => []SentInOrder
<1>1. Init => SentInOrder
  BY DEF Init, SentInOrder
<1>2. QED  BY <1>1, AlwaysInv, StepInOrder, PTL DEF Spec

\* What clients hold and what waits for them is of the past of the room, in the
\* order of that past, and of objects that were not removed since, for any
\* objects, clients and queues.
THEOREM StreamInvariant == Spec => []StreamInv
<1>1. Inv /\ SentInOrder => StreamInv
  BY DEF Inv, StreamInv
<1>2. QED  BY <1>1, AlwaysInv, AlwaysSentInOrder, PTL

-----------------------------------------------------------------------------
(* What a client is fed it shows: the safety part of ClientsCatchUp.       *)

\* What one message that does not remove an object does to it.
LEMMA HandleShows ==
    ASSUME NEW scr \in Screen, NEW m \in Messages, NEW o \in Objects, ~Removes(m, o)
    PROVE  /\ Handle(scr, m).state[o] = IF Mentions(m, o) THEN m.data[o] ELSE scr.state[o]
           /\ o \in scr.models => o \in Handle(scr, m).models
           /\ Mentions(m, o) /\ look[o] = "shape" /\ ~IsIncremental(m) => o \in Handle(scr, m).models
<1>1. CASE IsState(m) /\ Handle(scr, m) = TakeState(scr, m)
  <2>1. Handle(scr, m).state = [x \in Objects |-> IF x \in DOMAIN m.data THEN m.data[x] ELSE scr.state[x]]
    BY <1>1, TakeStateIs
  <2>2. Handle(scr, m).models =
            scr.models \cup {x \in (IF IsIncremental(m) THEN {} ELSE DOMAIN m.data \ scr.models) : look[x] = "shape"}
    BY <1>1 DEF TakeState
  <2>3. QED  BY <1>1, <2>1, <2>2 DEF Mentions
<1>2. CASE m.kind = "remove" /\ m.object \in Objects /\ Handle(scr, m) = Forget(scr, {m.object})
  <2> DEFINE left == Forget(scr, {m.object})
  <2>1. \/ left.models = scr.models /\ left.state = scr.state
        \/ /\ left.models = scr.models \ {m.object}
           /\ left.state = [x \in Objects |-> IF x \in {m.object} THEN 0 ELSE scr.state[x]]
    <3>1. {m.object} \in SUBSET Objects
      BY <1>2
    <3>2. QED  BY <3>1, ForgetIs
  <2>2. o # m.object /\ ~Mentions(m, o)
    BY <1>2 DEF Removes, Mentions, IsState
  <2>3. QED  BY <1>2, <2>1, <2>2
<1>3. QED  BY <1>1, <1>2, HandleCases DEF Removes

\* The screens of a client from the message at i on.
ShownSince(q, i, n, o) ==
    {scr \in Screen : n >= i =>
        /\ scr.state[o] >= q[i].data[o]
        /\ look[o] = "shape" /\ ~IsIncremental(q[i]) => o \in scr.models}

\* What comes after message i takes nothing of o back.
OnwardFrom(q, i, o) ==
    \A j \in DOMAIN q : j > i =>
        ~Removes(q[j], o) /\ (Mentions(q[j], o) => q[j].data[o] >= q[i].data[o])

LEMMA HandleAllKeepsShown ==
    ASSUME NEW scr \in Screen, NEW q \in Seq(Messages), NEW fed, NEW o \in Objects,
           NEW i \in DOMAIN q, i \in fed, Mentions(q[i], o), OnwardFrom(q, i, o)
    PROVE  HandleAll(scr, q, fed) \in ShownSince(q, i, Len(q), o)
<1> DEFINE G == [n \in 0 .. Len(q) |-> ShownSince(q, i, n, o)]
<1>1. /\ Len(q) \in Nat /\ DOMAIN q = 1 .. Len(q) /\ i \in 1 .. Len(q)
      /\ \A n \in 1 .. Len(q) : q[n] \in Messages
  OBVIOUS
<1>2. \A n \in 0 .. Len(q) : G[n] = ShownSince(q, i, n, o)
  OBVIOUS
<1>3. scr \in G[0]
  BY <1>1, <1>2 DEF ShownSince
<1>4. q[i].data[o] \in Nat /\ ~Removes(q[i], o)
  BY <1>1, MessageType, DataPlaces DEF Mentions, IsState, Removes
<1>5. ASSUME NEW n \in 1 .. Len(q), NEW x \in ShownSince(q, i, n - 1, o)
      PROVE  IF n \in fed THEN Handle(x, q[n]) \in ShownSince(q, i, n, o) ELSE x \in ShownSince(q, i, n, o)
  <2>1. x \in Screen /\ q[n] \in Messages
    BY <1>1 DEF ShownSince
  <2>2. CASE n \in fed
    <3> DEFINE next == Handle(x, q[n])
    <3>1. next \in Screen
      BY <2>1, HandleType
    <3>2. ~Removes(q[n], o) =>
            /\ next.state[o] = IF Mentions(q[n], o) THEN q[n].data[o] ELSE x.state[o]
            /\ o \in x.models => o \in next.models
            /\ Mentions(q[n], o) /\ look[o] = "shape" /\ ~IsIncremental(q[n]) => o \in next.models
      BY <2>1, HandleShows
    <3> HIDE DEF next
    <3>3. n \in Nat /\ i \in Nat
      BY <1>1
    <3>4. ASSUME n >= i
          PROVE  /\ next.state[o] >= q[i].data[o]
                 /\ look[o] = "shape" /\ ~IsIncremental(q[i]) => o \in next.models
      <4>1. CASE n = i
        <5>1. next.state[o] = q[i].data[o]
          BY <1>4, <3>2, <4>1
        <5>2. look[o] = "shape" /\ ~IsIncremental(q[i]) => o \in next.models
          BY <1>4, <3>2, <4>1
        <5>3. QED  BY <1>4, <5>1, <5>2
      <4>2. CASE n > i
        <5>1. ~Removes(q[n], o) /\ (Mentions(q[n], o) => q[n].data[o] >= q[i].data[o])
          BY <1>1, <4>2 DEF OnwardFrom
        <5>2. n - 1 >= i
          BY <3>3, <4>2
        <5>3. /\ x.state[o] >= q[i].data[o]
              /\ look[o] = "shape" /\ ~IsIncremental(q[i]) => o \in x.models
          BY <5>2 DEF ShownSince
        <5>4. QED  BY <3>2, <5>1, <5>3
      <4>3. QED  BY <3>3, <3>4, <4>1, <4>2
    <3>5. next \in ShownSince(q, i, n, o)
      BY <3>1, <3>4 DEF ShownSince
    <3>6. QED  BY <2>2, <3>5 DEF next
  <2>3. CASE n \notin fed
    <3>1. n # i /\ (n >= i => n - 1 >= i)
      BY <1>1, <2>3
    <3>2. QED  BY <2>3, <3>1 DEF ShownSince
  <2>4. QED  BY <2>2, <2>3
<1>6. \A n \in 1 .. Len(q) : \A x \in G[n - 1] :
          IF n \in fed THEN Handle(x, q[n]) \in G[n] ELSE x \in G[n]
  BY <1>1, <1>2, <1>5
<1> HIDE DEF G
<1>7. HandleAll(scr, q, fed) \in G[Len(q)]
  BY <1>1, <1>3, <1>6, HandleAllStays
<1>8. QED  BY <1>1, <1>2, <1>7

\* What a state that the WebSocket takes tells of an object is on the screen when
\* the batch has been handled, or something newer is, unless a later message of
\* the batch removes the object or is the first state.  If it is a full state, the
\* object has its shape.
FedIsShown ==
    [][\A c \in Clients : \A fed \in SUBSET (1 .. MaxQueue) : Transmit(c, fed) =>
          \A i \in fed : \A o \in Objects :
              /\ Mentions(rx1[c][i], o)
              /\ \A j \in DOMAIN rx1[c] : j > i => ~Removes(rx1[c][j], o) /\ rx1[c][j].kind # "first"
              => /\ client'[c].state[o] >= rx1[c][i].data[o]
                 /\ look[o] = "shape" /\ ~IsIncremental(rx1[c][i]) => o \in client'[c].models]_vars

LEMMA TransmitShows ==
    ASSUME Inv, SentInOrder, NEW c \in Clients, NEW fed, Transmit(c, fed), NEW i \in fed, NEW o \in Objects,
           Mentions(rx1[c][i], o),
           \A j \in DOMAIN rx1[c] : j > i => ~Removes(rx1[c][j], o) /\ rx1[c][j].kind # "first"
    PROVE  /\ client'[c].state[o] >= rx1[c][i].data[o]
           /\ look[o] = "shape" /\ ~IsIncremental(rx1[c][i]) => o \in client'[c].models
<1> DEFINE q == rx1[c]
<1>1. /\ q \in Seq(Messages) /\ Len(q) \in Nat /\ client[c] \in Screen
      /\ \A n \in 1 .. Len(q) : q[n] \in Messages
      /\ client'[c] = HandleAll(client[c], q, fed)
  BY TransmitIs DEF Inv
<1>2. i \in DOMAIN q
  BY DEF Transmit, Kept
<1>3. OnwardFrom(q, i, o)
  <2> SUFFICES ASSUME NEW j \in DOMAIN q, j > i
               PROVE  ~Removes(q[j], o) /\ (Mentions(q[j], o) => q[j].data[o] >= q[i].data[o])
    BY DEF OnwardFrom
  <2>1. ~Removes(q[j], o) /\ q[j].kind # "first"
    OBVIOUS
  <2>2. ASSUME Mentions(q[j], o) PROVE q[j].data[o] >= q[i].data[o]
    <3>1. q[i].data[o] <= q[j].data[o]
      BY <1>2, <2>1, <2>2 DEF SentInOrder
    <3>2. q[i].data[o] \in Nat /\ q[j].data[o] \in Nat
      BY <1>1, <1>2, <2>2, MessageType, DataPlaces DEF Mentions
    <3>3. QED  BY <3>1, <3>2
  <2>3. QED  BY <2>1, <2>2
<1>4. HandleAll(client[c], q, fed) \in ShownSince(q, i, Len(q), o)
  BY <1>1, <1>2, <1>3, HandleAllKeepsShown
<1>5. Len(q) >= i
  BY <1>1, <1>2
<1>6. QED  BY <1>1, <1>4, <1>5 DEF ShownSince

\* A client catches up with every state that its WebSocket takes, however many
\* messages were left out before it: so a full state repairs whatever coalescing
\* and refused messages have lost.
THEOREM AlwaysShowsWhatIsFed == Spec => FedIsShown
<1>1. Init => SentInOrder
  BY DEF Init, SentInOrder
<1>2. Inv /\ SentInOrder /\ [Next]_vars =>
        [\A c \in Clients : \A fed \in SUBSET (1 .. MaxQueue) : Transmit(c, fed) =>
          \A i \in fed : \A o \in Objects :
              /\ Mentions(rx1[c][i], o)
              /\ \A j \in DOMAIN rx1[c] : j > i => ~Removes(rx1[c][j], o) /\ rx1[c][j].kind # "first"
              => /\ client'[c].state[o] >= rx1[c][i].data[o]
                 /\ look[o] = "shape" /\ ~IsIncremental(rx1[c][i]) => o \in client'[c].models]_vars
  BY TransmitShows
<1>3. QED  BY <1>1, <1>2, AlwaysInv, StepInOrder, PTL DEF Spec, FedIsShown

-----------------------------------------------------------------------------
(* What was removed leaves the screens.                                    *)

\* What one message does to the mesh of an object.
LEMMA HandleModels ==
    ASSUME NEW scr \in Screen, NEW m \in Messages, NEW o, ~Handle(scr, m).panicked
    PROVE  /\ ~scr.panicked
           /\ o \notin scr.models /\ ~Mentions(m, o) => o \notin Handle(scr, m).models
           /\ Removes(m, o) => o \notin Handle(scr, m).models
<1>1. scr.panicked \in BOOLEAN /\ scr.models \in SUBSET Objects
  BY ScreenType
<1>2. CASE IsState(m) /\ Handle(scr, m) = TakeState(scr, m)
  <2>1. /\ Handle(scr, m).models \subseteq scr.models \cup {x \in DOMAIN m.data : look[x] = "shape"}
        /\ Handle(scr, m).panicked = scr.panicked
    <3> DEFINE taken == TakeState(scr, m)
    <3>1. /\ taken.models \subseteq scr.models \cup {x \in DOMAIN m.data : look[x] = "shape"}
          /\ taken.panicked = scr.panicked
      BY <1>2, TakeStateIs
    <3>2. Handle(scr, m) = taken
      BY <1>2
    <3> HIDE DEF taken
    <3>3. QED  BY <3>1, <3>2
  <2>2. ~Removes(m, o)
    BY <1>2 DEF IsState, Removes
  <2>3. QED  BY <1>1, <1>2, <2>1, <2>2 DEF Mentions
<1>3. ASSUME NEW gone \in SUBSET Objects, Handle(scr, m) = Forget(scr, gone), Removes(m, o) => (o \in gone \/ o \notin scr.models)
      PROVE  /\ ~scr.panicked
             /\ o \notin scr.models /\ ~Mentions(m, o) => o \notin Handle(scr, m).models
             /\ Removes(m, o) => o \notin Handle(scr, m).models
  <2> DEFINE left == Forget(scr, gone)
  <2>1. \/ left.panicked = TRUE
        \/ left.panicked = scr.panicked /\ left.models = scr.models \ gone
    BY ForgetIs
  <2>2. left.panicked # TRUE
    BY <1>3
  <2>3. left.panicked = scr.panicked /\ left.models = scr.models \ gone
    BY <2>1, <2>2
  <2>4. QED  BY <1>3, <2>3
<1>4. CASE m.kind = "remove" /\ m.object \in Objects /\ Handle(scr, m) = Forget(scr, {m.object})
  BY <1>3, <1>4 DEF Removes
<1>5. CASE m.kind = "removeAll" /\ Handle(scr, m) = Forget(scr, scr.models)
  BY <1>1, <1>3, <1>5
<1>6. CASE m.kind = "hibernating" /\ Handle(scr, m) = Cleanup(scr)
  <2>1. Handle(scr, m).models = {} /\ Handle(scr, m).panicked = scr.panicked
    BY <1>6, CleanupIs
  <2>2. QED  BY <2>1
<1>7. QED  BY <1>2, <1>4, <1>5, <1>6, HandleCases

\* The screens of a client while it handles a queue that has a removal of o, or
\* after it, and nothing of o later.
WithoutLater(q, n, o) ==
    {scr \in Screen : ~scr.panicked =>
        \/ \E i \in n + 1 .. Len(q) : Removes(q[i], o) /\ \A j \in i + 1 .. Len(q) : ~Mentions(q[j], o)
        \/ o \notin scr.models /\ \A j \in n + 1 .. Len(q) : ~Mentions(q[j], o)}

\* Every removal is kept, and what is not kept brings nothing to a screen.
LEMMA HandleAllForgets ==
    ASSUME NEW scr \in Screen, NEW q \in Seq(Messages), NEW o,
           ~scr.panicked => GoneFrom(q, scr, o),
           ~HandleAll(scr, q, Kept(q)).panicked
    PROVE  o \notin HandleAll(scr, q, Kept(q)).models
<1> DEFINE G == [n \in 0 .. Len(q) |-> WithoutLater(q, n, o)]
<1>1. Len(q) \in Nat /\ DOMAIN q = 1 .. Len(q) /\ \A n \in 1 .. Len(q) : q[n] \in Messages
  OBVIOUS
<1>2. \A n \in 0 .. Len(q) : G[n] = WithoutLater(q, n, o)
  OBVIOUS
<1>3. scr \in G[0]
  <2>1. \A i \in DOMAIN q : i \in 0 + 1 .. Len(q) /\ \A j \in i + 1 .. Len(q) : j \in DOMAIN q /\ j > i
    BY <1>1
  <2>2. \A j \in 0 + 1 .. Len(q) : j \in DOMAIN q
    BY <1>1
  <2>3. scr \in WithoutLater(q, 0, o)
    BY <2>1, <2>2 DEF GoneFrom, WithoutLater
  <2>4. QED  BY <1>1, <1>2, <2>3
<1>4. ASSUME NEW n \in 1 .. Len(q), NEW x \in WithoutLater(q, n - 1, o)
      PROVE  IF n \in Kept(q) THEN Handle(x, q[n]) \in WithoutLater(q, n, o) ELSE x \in WithoutLater(q, n, o)
  <2>1. x \in Screen /\ q[n] \in Messages
    BY <1>1 DEF WithoutLater
  <2>2. \A i \in (n - 1) + 1 .. Len(q) : i = n \/ i \in n + 1 .. Len(q)
    BY <1>1
  <2>3. n \in (n - 1) + 1 .. Len(q) /\ \A j \in n + 1 .. Len(q) : j \in (n - 1) + 1 .. Len(q)
    BY <1>1
  <2>4. ~x.panicked =>
          \/ \E i \in n + 1 .. Len(q) : Removes(q[i], o) /\ \A j \in i + 1 .. Len(q) : ~Mentions(q[j], o)
          \/ Removes(q[n], o) /\ \A j \in n + 1 .. Len(q) : ~Mentions(q[j], o)
          \/ o \notin x.models /\ ~Mentions(q[n], o) /\ \A j \in n + 1 .. Len(q) : ~Mentions(q[j], o)
    BY <2>2, <2>3 DEF WithoutLater
  <2>5. CASE n \in Kept(q)
    <3> DEFINE next == Handle(x, q[n])
    <3>1. next \in Screen
      BY <2>1, HandleType
    <3>2. ~next.panicked => /\ ~x.panicked
                            /\ o \notin x.models /\ ~Mentions(q[n], o) => o \notin next.models
                            /\ Removes(q[n], o) => o \notin next.models
      BY <2>1, HandleModels
    <3> HIDE DEF next
    <3>3. next \in WithoutLater(q, n, o)
      BY <2>4, <3>1, <3>2 DEF WithoutLater
    <3>4. QED  BY <2>5, <3>3 DEF next
  <2>6. CASE n \notin Kept(q)
    <3>1. ~Removes(q[n], o)
      BY <1>1, <2>6 DEF Kept, IsIncremental, Removes
    <3>2. x \in WithoutLater(q, n, o)
      BY <2>1, <2>4, <3>1 DEF WithoutLater
    <3>3. QED  BY <2>6, <3>2
  <2>7. QED  BY <2>5, <2>6
<1>5. \A n \in 1 .. Len(q) : \A x \in G[n - 1] :
          IF n \in Kept(q) THEN Handle(x, q[n]) \in G[n] ELSE x \in G[n]
  BY <1>1, <1>2, <1>4
<1> HIDE DEF G
<1>6. HandleAll(scr, q, Kept(q)) \in G[Len(q)]
  BY <1>1, <1>3, <1>5, HandleAllStays
<1>7. HandleAll(scr, q, Kept(q)) \in WithoutLater(q, Len(q), o)
  BY <1>1, <1>2, <1>6
<1>8. Len(q) + 1 .. Len(q) = {}
  BY <1>1
<1>9. QED  BY <1>7, <1>8 DEF WithoutLater

\* A removal that is sent comes last; a state that is sent does not bring back
\* what is not in it.
LEMMA GoneAppend ==
    ASSUME NEW q \in Seq(Messages), NEW m \in Messages, NEW scr, NEW o
    PROVE  /\ Removes(m, o) => GoneFrom(Append(q, m), scr, o)
           /\ GoneFrom(q, scr, o) /\ ~Mentions(m, o) => GoneFrom(Append(q, m), scr, o)
<1>1. ASSUME Removes(m, o) PROVE GoneFrom(Append(q, m), scr, o)
  <2>1. /\ Len(q) + 1 \in DOMAIN Append(q, m)
        /\ \A j \in DOMAIN Append(q, m) : ~(j > Len(q) + 1)
    BY AppendIs
  <2>2. QED  BY <1>1, <2>1, AppendIs DEF GoneFrom
<1>2. ASSUME GoneFrom(q, scr, o), ~Mentions(m, o) PROVE GoneFrom(Append(q, m), scr, o)
  <2> DEFINE r == Append(q, m)
  <2>1. /\ DOMAIN q = 1 .. Len(q) /\ DOMAIN r = 1 .. Len(q) + 1
        /\ \A j \in DOMAIN r : r[j] = m \/ (j \in DOMAIN q /\ r[j] = q[j])
        /\ \A i \in DOMAIN q : i \in DOMAIN r /\ r[i] = q[i]
    BY AppendIs
  <2> HIDE DEF r
  <2>2. GoneFrom(r, scr, o)
    BY <1>2, <2>1 DEF GoneFrom
  <2>3. QED  BY <2>2 DEF r
<1>3. QED  BY <1>1, <1>2

\* How GoneInv fares for one client and one object when neither is new to it.
LEMMA GoneStays ==
    ASSUME TypeOK, GoneInv, NEW c \in sockets \ lossy, NEW o \in told[c] \ objects,
           look[o] = "shape", ~client'[c].panicked, client'[c].panicked = client[c].panicked,
           o \in client'[c].models => o \in client[c].models,
           \/ rx1'[c] = rx1[c]
           \/ \E m \in Messages : rx1'[c] = Append(rx1[c], m) /\ ~Mentions(m, o)
    PROVE  GoneFrom(rx1'[c], client'[c], o)
<1>1. rx1[c] \in Seq(Messages)
  BY DEF TypeOK
<1>2. GoneFrom(rx1[c], client[c], o)
  BY DEF GoneInv
<1>3. GoneFrom(rx1[c], client'[c], o)
  BY <1>2 DEF GoneFrom
<1>4. QED  BY <1>1, <1>3, GoneAppend

LEMMA StepGone == Inv /\ GoneInv /\ [Next]_vars => GoneInv'
<1> SUFFICES ASSUME Inv, GoneInv, [Next]_vars,
                    NEW c \in sockets' \ lossy', NEW o \in told'[c] \ objects',
                    look'[o] = "shape", ~client'[c].panicked
             PROVE  GoneFrom(rx1'[c], client'[c], o)
  BY DEF GoneInv, GoneFrom, Removes, Mentions, IsState
<1> USE DEF roomVars, joinVars, historyVars
<1>1. TypeOK /\ TypeOK' /\ look' = look
  BY StepInv, RoomMoves DEF Inv
<1>2. c \in Clients /\ rx1[c] \in Seq(Messages) /\ client[c] \in Screen
  BY <1>1 DEF TypeOK
<1>3. ASSUME UNCHANGED <<objects, sockets, lossy, told, rx1, client>> PROVE GoneFrom(rx1'[c], client'[c], o)
  BY <1>1, <1>3, GoneStays
<1>4. ASSUME NEW x \in Objects, AddObject(x) PROVE GoneFrom(rx1'[c], client'[c], o)
  <2>1. c \in sockets \ lossy /\ o \in told[c] \ objects /\ client' = client /\ rx1' = rx1
    BY <1>1, <1>4 DEF AddObject, TypeOK
  <2>2. QED  BY <1>1, <2>1, GoneStays
<1>5. ASSUME NEW x \in Objects, RemoveEntity(x) PROVE GoneFrom(rx1'[c], client'[c], o)
  <2>1. c \in sockets \ lossy /\ o \in told[c] /\ client' = client /\ objects' = objects \ {x}
    BY <1>5 DEF RemoveEntity
  <2>2. RemoveObject(x) \in Messages /\ Broadcast(RemoveObject(x))
    BY <1>5, MessageType DEF RemoveEntity
  <2>3. rx1'[c] = Append(rx1[c], RemoveObject(x))
    BY <1>1, <1>2, <2>1, <2>2, BroadcastIs
  <2>4. CASE o = x
    <3>1. Removes(RemoveObject(x), o)
      BY <2>4 DEF Removes, RemoveObject
    <3>2. QED  BY <1>2, <2>2, <2>3, <3>1, GoneAppend
  <2>5. CASE o # x
    <3>1. ~Mentions(RemoveObject(x), o)
      BY DEF Mentions, IsState, RemoveObject
    <3>2. QED  BY <1>1, <2>1, <2>2, <2>3, <2>5, <3>1, GoneStays
  <2>6. QED  BY <2>4, <2>5
<1>6. CASE RemoveAll
  <2>1. c \in sockets /\ Broadcast(RemoveAllObjects) /\ RemoveAllObjects \in Messages
    BY <1>6, MessageType DEF RemoveAll
  <2>2. rx1'[c] = Append(rx1[c], RemoveAllObjects)
    BY <1>1, <1>2, <2>1, BroadcastIs
  <2>3. Removes(RemoveAllObjects, o)
    BY DEF Removes, RemoveAllObjects
  <2>4. QED  BY <1>2, <2>1, <2>2, <2>3, GoneAppend
<1>7. ASSUME NEW moved \in SUBSET objects, Tick(moved) PROVE GoneFrom(rx1'[c], client'[c], o)
  <2>1. c \in sockets \ lossy /\ o \in told[c] \ objects /\ client' = client
    BY <1>7 DEF Tick
  <2>2. ASSUME NEW data \in States, NEW m \in {FullState(data), Incremental(data)}, Broadcast(m),
               DOMAIN data \subseteq objects
        PROVE  GoneFrom(rx1'[c], client'[c], o)
    <3>1. m \in Messages /\ ~Mentions(m, o)
      <4>1. m \in Messages
        BY MessageType
      <4>2. m.data = data
        BY DEF FullState, Incremental
      <4>3. QED  BY <2>1, <2>2, <4>1, <4>2 DEF Mentions
    <3>2. rx1'[c] = Append(rx1[c], m)
      BY <1>1, <1>2, <2>1, <2>2, <3>1, BroadcastIs
    <3>3. QED  BY <1>1, <2>1, <3>1, <3>2, GoneStays
  <2>3. CASE rx1' = rx1
    BY <1>1, <2>1, <2>3, GoneStays
  <2>4. QED  BY <1>7, <2>2, <2>3, TickSends DEF Inv
<1>8. CASE Kick \/ ClearSockets
  <2>1. c \in sockets /\ Broadcast(Hibernating) /\ Hibernating \in Messages
    BY <1>8, MessageType DEF Kick, ClearSockets
  <2>2. rx1'[c] = Append(rx1[c], Hibernating)
    BY <1>1, <1>2, <2>1, BroadcastIs
  <2>3. Removes(Hibernating, o)
    BY DEF Removes, Hibernating
  <2>4. QED  BY <1>2, <2>1, <2>2, <2>3, GoneAppend
<1>9. ASSUME NEW d \in Clients, Enter(d) PROVE GoneFrom(rx1'[c], client'[c], o)
  <2>1. c # d
    BY <1>9 DEF Enter
  <2>2. c \in sockets \ lossy /\ o \in told[c] \ objects /\ client' = client /\ rx1' = rx1
    BY <1>9, <2>1 DEF Enter
  <2>3. QED  BY <1>1, <2>2, GoneStays
<1>10. CASE Greet
  <2>1. c # joiner
    BY <1>1, <1>10 DEF Greet, TypeOK
  <2>2. c \in sockets \ lossy /\ o \in told[c] \ objects /\ client' = client /\ rx1'[c] = rx1[c]
    BY <1>1, <1>2, <1>10, <2>1 DEF Greet, TypeOK
  <2>3. QED  BY <1>1, <2>2, GoneStays
<1>11. ASSUME NEW d \in Clients, NEW x \in Objects, MeshLoaded(d, x) \/ MeshFails(d, x)
       PROVE  GoneFrom(rx1'[c], client'[c], o)
  <2>1. c \in sockets \ lossy /\ o \in told[c] \ objects /\ rx1' = rx1
    BY <1>11 DEF MeshLoaded, MeshFails
  <2>2. client'[c].panicked = client[c].panicked /\ (o \in client'[c].models => o \in client[c].models)
    <3>1. CASE c # d
      BY <1>1, <1>2, <1>11, <3>1 DEF MeshLoaded, MeshFails, TypeOK
    <3>2. CASE c = d
      <4>1. Loads(c)
        BY <1>1, <1>2, <1>11, <3>2, MeshLoads
      <4>2. o \notin client[c].loading
        BY <1>1, <1>2 DEF Inv, PastInv, ScreenPast
      <4>3. QED  BY <1>1, <1>2, <4>1, <4>2, LoadsIs
    <3>3. QED  BY <3>1, <3>2
  <2>3. QED  BY <1>1, <2>1, <2>2, GoneStays
<1>12. ASSUME NEW d \in Clients, NEW fed, Transmit(d, fed) PROVE GoneFrom(rx1'[c], client'[c], o)
  <2>1. c \in sockets /\ o \in told[c] \ objects
    BY <1>1, <1>12, TransmitIs
  <2>2. CASE c # d
    <3>1. rx1'[c] = rx1[c] /\ client'[c] = client[c]
      BY <1>1, <1>2, <1>12, <2>2, TransmitIs
    <3>2. c \notin lossy
      BY <1>12 DEF Transmit
    <3>3. QED  BY <1>1, <2>1, <3>1, <3>2, GoneStays
  <2>3. CASE c = d
    <3>1. c \notin lossy /\ fed = Kept(rx1[c])
      BY <1>12, <2>3 DEF Transmit
    <3>2. rx1'[c] = <<>> /\ client'[c] = HandleAll(client[c], rx1[c], Kept(rx1[c]))
      BY <1>1, <1>12, <2>3, <3>1, TransmitIs
    <3>3. ~client[c].panicked => GoneFrom(rx1[c], client[c], o)
      BY <1>1, <2>1, <3>1 DEF GoneInv
    <3>4. o \notin client'[c].models
      BY <1>2, <3>2, <3>3, HandleAllForgets
    <3>5. QED  BY <3>2, <3>4 DEF GoneFrom
  <2>4. QED  BY <2>2, <2>3
<1>13. QED
  BY <1>3, <1>4, <1>5, <1>6, <1>7, <1>8, <1>9, <1>10, <1>11, <1>12
     DEF Next, RoomStep, JoinStep, ClientStep, MinutePasses, ClearSockets, CheckHibernation, Collect, vars

\* A shape that a client was told of and that left the room is not on its screen,
\* or its removal is in its queue, as long as no message to it was refused and no
\* handler of it panicked.
THEOREM RemovedAlwaysLeaveScreen == Spec => []RemovedLeaveScreen
<1>1. Init => GoneInv
  BY DEF Init, GoneInv
<1>2. GoneInv => RemovedLeaveScreen
  BY DEF GoneInv, GoneFrom, RemovedLeaveScreen
<1>3. QED  BY <1>1, <1>2, AlwaysInv, StepGone, PTL DEF Spec

=============================================================================
