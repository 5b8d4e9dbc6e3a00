------------------------- MODULE RoomSessionProofs -------------------------
(***************************************************************************)
(* Safety of RoomSession for any users, connections, robots and timeout.   *)
(***************************************************************************)
EXTENDS RoomSession, TLAPS

ModelAssumptions ==
    /\ NoUser \notin Users
    /\ NoConn \notin Conns
    /\ UserOf \in [Conns -> Users]
    /\ Claimable \subseteq Robots
    /\ Inputs \subseteq Messages
    /\ Timeout \in Nat
    /\ MaxRx \in Nat

LEMMA ConstantsFit == ModelAssumptions
BY UsersAssumption, ConnsAssumption, RobotsAssumption, BoundsAssumption DEF ModelAssumptions

\* A claim broadcast keeps what clients know typed.
LEMMA BroadcastType ==
    ASSUME TypeOK, NEW r \in Robots, NEW u \in Users \cup {NoUser}, BroadcastClaim(r, u)
    PROVE  view' \in [Conns -> [Robots -> Users \cup {NoUser}]]
<1> DEFINE V == Users \cup {NoUser}
<1>1. \A c \in Conns : view[c] \in [Robots -> V]
  BY DEF TypeOK
<1>2. \A c \in Conns : [view[c] EXCEPT ![r] = u] \in [Robots -> V]
  BY <1>1
<1>3. QED  BY <1>1, <1>2 DEF BroadcastClaim

\* What a message does to the claims keeps them, and what clients know, typed.
LEMMA HandleMessageType ==
    ASSUME TypeOK, NEW c \in Conns, NEW m \in Messages, HandleMessage(c, m)
    PROVE  /\ claimedBy' \in [Robots -> Users \cup {NoUser}]
           /\ view' \in [Conns -> [Robots -> Users \cup {NoUser}]]
           /\ needsReset' \in BOOLEAN
<1>1. CASE m = ResetAll
  BY <1>1 DEF HandleMessage, TypeOK, ResetAll, ClaimRobot, UnclaimRobot
<1>2. CASE m \in RobotMessages
  <2>1. m.robot \in Robots /\ UserOf[c] \in Users
    BY <1>2, ConstantsFit DEF RobotMessages, ModelAssumptions
  <2>2. CASE m.type \in {"ResetRobot", "EncryptRobot"}
    BY <1>2, <2>2 DEF HandleMessage, TypeOK, ResetAll, RobotMessages
  <2>3. CASE m.type = "ClaimRobot"
    <3>1. ClaimRobot(c, m.robot) /\ UNCHANGED needsReset
      BY <1>2, <2>3 DEF HandleMessage, ResetAll, RobotMessages
    <3>2. QED  BY <2>1, <3>1, BroadcastType DEF ClaimRobot, TypeOK
  <2>4. CASE m.type = "UnclaimRobot"
    <3>1. UnclaimRobot(c, m.robot) /\ UNCHANGED needsReset
      BY <1>2, <2>4 DEF HandleMessage, ResetAll, RobotMessages
    <3>2. QED  BY <2>1, <3>1, BroadcastType DEF UnclaimRobot, TypeOK
  <2>5. QED  BY <1>2, <2>2, <2>3, <2>4 DEF RobotMessages
<1>3. QED  BY <1>1, <1>2 DEF Messages

LEMMA InitType == Init => TypeOK
<1> SUFFICES ASSUME Init PROVE TypeOK
  OBVIOUS
<1>1. rx \in [Conns -> Seq(Messages)] /\ inbox \in [Conns -> Seq(Messages)]
  BY DEF Init
<1>2. view \in [Conns -> [Robots -> Users \cup {NoUser}]]
  BY DEF Init, NoClaims
<1>3. claimedBy \in [Robots -> Users \cup {NoUser}]
  BY DEF Init, NoClaims
<1>4. conn \in [Conns -> {"new", "open", "closed"}] /\ session \in [Conns -> {"none", "in", "hibernated"}]
  BY DEF Init
<1>5. peers \in [Users -> SUBSET Conns] /\ \A u \in Users \ users : peers[u] = {}
  BY DEF Init
<1>6. idle \in 0 .. Timeout + 1
  BY ConstantsFit DEF Init, ModelAssumptions
<1>7. QED  BY <1>1, <1>2, <1>3, <1>4, <1>5, <1>6 DEF Init, TypeOK

LEMMA StepType == TypeOK /\ [Next]_vars => TypeOK'
<1> SUFFICES ASSUME TypeOK, [Next]_vars PROVE TypeOK'
  OBVIOUS
<1> USE ConstantsFit DEF ModelAssumptions, sockVars, wsVars, roomVars, outVars
<1>1. ASSUME NEW c \in Conns, Accept(c) PROVE TypeOK'
  BY <1>1 DEF Accept, TypeOK
<1>2. ASSUME NEW c \in Conns, Close(c) PROVE TypeOK'
  BY <1>2 DEF Close, TypeOK
<1>3. ASSUME NEW c \in Conns, JoinEntry(c) PROVE TypeOK'
  BY <1>3 DEF JoinEntry, TypeOK
<1>4. ASSUME NEW c \in Conns, NEW m \in Inputs, Receive(c, m) PROVE TypeOK'
  BY <1>4 DEF Receive, TypeOK
<1>5. ASSUME Clock PROVE TypeOK'
  BY <1>5 DEF Clock, TypeOK
<1>6. ASSUME JoinAttach PROVE TypeOK'
  <2>1. joining \in Conns /\ UserOf[joining] \in Users
    BY <1>6 DEF JoinAttach, TypeOK
  <2>2. CASE EntryThere
    <3>1. peers' = [peers EXCEPT ![UserOf[joining]] = @ \cup {joining}] /\ wsPC' = "touch"
      BY <1>6, <2>2 DEF JoinAttach
    <3>2. peers' \in [Users -> SUBSET Conns]
      BY <2>1, <3>1 DEF TypeOK
    <3>3. \A u \in Users \ users : peers'[u] = {}
      BY <2>1, <2>2, <3>1 DEF EntryThere, TypeOK
    <3>4. QED  BY <1>6, <2>1, <3>1, <3>2, <3>3 DEF JoinAttach, TypeOK
  <2>3. CASE ~EntryThere
    BY <1>6, <2>3 DEF JoinAttach, TypeOK
  <2>4. QED  BY <2>2, <2>3
<1>7. ASSUME JoinTouch PROVE TypeOK'
  BY <1>7 DEF JoinTouch, TypeOK
<1>8. ASSUME JoinInfo PROVE TypeOK'
  BY <1>8 DEF JoinInfo, ReportedRobots, TypeOK
<1>9. ASSUME JoinDone PROVE TypeOK'
  BY <1>9 DEF JoinDone, TypeOK
<1>10. ASSUME NEW r \in Robots, JoinClaim(r) PROVE TypeOK'
  BY <1>10 DEF JoinClaim, TypeOK
<1>11. ASSUME TickBegin PROVE TypeOK'
  BY <1>11 DEF TickBegin, TypeOK
<1>12. ASSUME ClearSockets PROVE TypeOK'
  BY <1>12 DEF ClearSockets, TypeOK
<1>13. ASSUME CollectGone PROVE TypeOK'
  BY <1>13 DEF CollectGone, Attached, TypeOK
<1>14. ASSUME DropUser PROVE TypeOK'
  BY <1>14 DEF DropUser, TypeOK
<1>15. ASSUME GetMessages PROVE TypeOK'
  BY <1>15 DEF GetMessages, TypeOK
<1>16. ASSUME ApplyResets PROVE TypeOK'
  <2>1. idle' \in 0 .. Timeout + 1
    BY <1>16 DEF ApplyResets, TypeOK
  <2>2. QED  BY <1>16, <2>1 DEF ApplyResets, TypeOK
<1>17. ASSUME RobotsDone PROVE TypeOK'
  BY <1>17 DEF RobotsDone, TypeOK
<1>18. ASSUME CheckHibernation PROVE TypeOK'
  BY <1>18 DEF CheckHibernation, MustSleep, TypeOK
<1>19. ASSUME NEW u \in Users, NotifyHibernating(u) PROVE TypeOK'
  BY <1>19 DEF NotifyHibernating, NoClaims, TypeOK
<1>20. ASSUME NEW c \in Conns, PruneConn(c) PROVE TypeOK'
  BY <1>20 DEF PruneConn, KeyGoes, TypeOK
<1>21. ASSUME NEW c \in Conns, Handle(c) PROVE TypeOK'
  <2>1. /\ inbox[c] \in Seq(Messages)
        /\ Head(inbox[c]) \in Messages
        /\ inbox' \in [Conns -> Seq(Messages)]
    BY <1>21 DEF Handle, TypeOK
  <2>2. /\ claimedBy' \in [Robots -> Users \cup {NoUser}]
        /\ view' \in [Conns -> [Robots -> Users \cup {NoUser}]]
        /\ needsReset' \in BOOLEAN
    <3>1. CASE conn[c] = "open"
      BY <1>21, <2>1, <3>1, HandleMessageType DEF Handle
    <3>2. CASE conn[c] # "open"
      BY <1>21, <3>2 DEF Handle, TypeOK
    <3>3. QED  BY <3>1, <3>2
  <2>3. QED  BY <1>21, <2>1, <2>2 DEF Handle, TypeOK
<1>22. ASSUME NEW r \in Robots, UpdateRobot(r) PROVE TypeOK'
  <2>1. CASE Abandoned(r)
    <3>1. view' \in [Conns -> [Robots -> Users \cup {NoUser}]]
      BY <1>22, <2>1, BroadcastType DEF UpdateRobot
    <3>2. QED  BY <1>22, <2>1, <3>1 DEF UpdateRobot, TypeOK
  <2>2. CASE ~Abandoned(r)
    BY <1>22, <2>2 DEF UpdateRobot, TypeOK
  <2>3. QED  BY <2>1, <2>2
<1>23. ASSUME NEW c \in Conns, EncryptPanics(c) PROVE TypeOK'
  BY <1>23 DEF EncryptPanics, TypeOK
<1>24. CASE UNCHANGED vars
  BY <1>24 DEF vars, TypeOK
<1>25. QED
  BY <1>1, <1>2, <1>3, <1>4, <1>5, <1>6, <1>7, <1>8, <1>9, <1>10, <1>11, <1>12, <1>13, <1>14,
     <1>15, <1>16, <1>17, <1>18, <1>19, <1>20, <1>21, <1>22, <1>23, <1>24
     DEF Next, Environment, JoinStep, RoomStep

\* The variables keep their types, and a user without a key in sockets has
\* no peers, whatever the two tasks interleave.
THEOREM TypeCorrect == Spec => []TypeOK
BY InitType, StepType, PTL DEF Spec

-----------------------------------------------------------------------------
(* One lemma per part of RoomInv: a step that starts in RoomInv keeps it.  *)

\* A join adds the connection it was called for to sockets, and no other.
LEMMA JoinStepMembers ==
    RoomInv /\ JoinStep =>
        /\ \A u \in Users : peers[u] \subseteq peers'[u] /\ peers'[u] \subseteq peers[u] \cup {joining}
        /\ Attached' \subseteq Attached \cup {joining}
<1> SUFFICES ASSUME RoomInv, JoinStep
             PROVE  /\ \A u \in Users : /\ peers[u] \subseteq peers'[u]
                                       /\ peers'[u] \subseteq peers[u] \cup {joining}
                    /\ Attached' \subseteq Attached \cup {joining}
  OBVIOUS
<1>1. \/ UNCHANGED peers
      \/ peers' = [peers EXCEPT ![UserOf[joining]] = peers[UserOf[joining]] \cup {joining}]
  BY DEF sockVars, JoinStep, JoinAttach, JoinTouch, JoinInfo, JoinDone, JoinClaim
<1>2. \A u \in Users : /\ peers[u] \subseteq peers'[u]
                      /\ peers'[u] \subseteq peers[u] \cup {joining}
  <2> TAKE u \in Users
  <2>1. CASE u = UserOf[joining]
    BY <1>1, <2>1 DEF RoomInv, TypeOK
  <2>2. CASE u # UserOf[joining]
    BY <1>1, <2>2 DEF RoomInv, TypeOK
  <2>3. QED  BY <2>1, <2>2
<1>3. QED  BY <1>2, ConstantsFit DEF Attached, ModelAssumptions

\* Only pruning and hibernating shrink sockets, and they never run while
\* the robots are visited; a visited robot has no absent claimant.
LEMMA VisitedRobotsStep == RoomInv /\ [Next]_vars => VisitedRobots'
<1> SUFFICES ASSUME RoomInv, [Next]_vars PROVE VisitedRobots'
  OBVIOUS
<1> USE DEF sockVars, wsVars, roomVars, outVars, VisitedRobots
<1>1. CASE Environment
  BY <1>1 DEF RoomInv, Environment, Accept, Close, JoinEntry, Receive, Clock
<1>2. CASE JoinStep
  BY <1>2 DEF RoomInv, JoinStep, JoinAttach, JoinTouch, JoinInfo, JoinDone, JoinClaim
<1>3. CASE RoomStep
  BY <1>3 DEF RoomInv, RoomStep, TickBegin, ClearSockets, CollectGone, DropUser,
     GetMessages, ApplyResets, RobotsDone, CheckHibernation, NotifyHibernating, PruneConn,
     Handle, EncryptPanics, UpdateRobot, Abandoned, TypeOK
<1>4. CASE UNCHANGED vars
  BY <1>4 DEF RoomInv, vars
<1>5. QED  BY <1>1, <1>2, <1>3, <1>4 DEF Next

\* The notices begin with the step that sets hibernating.
LEMMA NotifyAsleepStep == RoomInv /\ [Next]_vars => NotifyAsleep'
<1> SUFFICES ASSUME RoomInv, [Next]_vars PROVE NotifyAsleep'
  OBVIOUS
<1> USE DEF sockVars, wsVars, roomVars, outVars, NotifyAsleep
<1>1. CASE Environment
  BY <1>1 DEF RoomInv, Environment, Accept, Close, JoinEntry, Receive, Clock
<1>2. CASE JoinStep
  BY <1>2 DEF RoomInv, JoinStep, JoinAttach, JoinTouch, JoinInfo, JoinDone, JoinClaim
<1>3. CASE RoomStep
  BY <1>3 DEF RoomInv, RoomStep, TickBegin, ClearSockets, CollectGone, DropUser,
     GetMessages, ApplyResets, RobotsDone, CheckHibernation, NotifyHibernating, PruneConn,
     Handle, EncryptPanics, UpdateRobot
<1>4. CASE UNCHANGED vars
  BY <1>4 DEF RoomInv, vars
<1>5. QED  BY <1>1, <1>2, <1>3, <1>4 DEF Next

\* The check follows either a sleep or a visit to every robot.
LEMMA ClaimantsPresentStep == RoomInv /\ [Next]_vars => ClaimantsPresent'
<1> SUFFICES ASSUME RoomInv, [Next]_vars PROVE ClaimantsPresent'
  OBVIOUS
<1> USE DEF sockVars, wsVars, roomVars, outVars, ClaimantsPresent
<1>1. CASE Environment
  BY <1>1 DEF RoomInv, Environment, Accept, Close, JoinEntry, Receive, Clock
<1>2. CASE JoinStep
  BY <1>2 DEF RoomInv, JoinStep, JoinAttach, JoinTouch, JoinInfo, JoinDone, JoinClaim
<1>3. CASE RoomStep
  BY <1>3 DEF RoomInv, RoomStep, TickBegin, ClearSockets, CollectGone, DropUser,
     GetMessages, ApplyResets, RobotsDone, CheckHibernation, NotifyHibernating, PruneConn,
     Handle, EncryptPanics, UpdateRobot, VisitedRobots, NotifyAsleep, TypeOK
<1>4. CASE UNCHANGED vars
  BY <1>4 DEF RoomInv, vars
<1>5. QED  BY <1>1, <1>2, <1>3, <1>4 DEF Next

\* get_messages reads only from clients listed under a key of sockets.
LEMMA HandledPresentStep == RoomInv /\ [Next]_vars => HandledPresent'
<1> SUFFICES ASSUME RoomInv, [Next]_vars PROVE HandledPresent'
  OBVIOUS
<1> USE DEF sockVars, wsVars, roomVars, outVars, HandledPresent
<1>1. CASE Environment
  BY <1>1 DEF RoomInv, Environment, Accept, Close, JoinEntry, Receive, Clock
<1>2. CASE JoinStep
  BY <1>2 DEF RoomInv, JoinStep, JoinAttach, JoinTouch, JoinInfo, JoinDone, JoinClaim
<1>3. CASE RoomStep
  <2>1. CASE GetMessages
    BY <2>1, ConstantsFit
       DEF GetMessages, RoomInv, TypeOK, Readers, Reachable, Attached, ModelAssumptions
  <2>2. ASSUME NEW c \in Conns, Handle(c) PROVE HandledPresent'
    BY <2>2 DEF Handle, RoomInv, TypeOK
  <2>3. CASE RoomStep /\ ~GetMessages /\ ~\E c \in Conns : Handle(c)
    BY <2>3 DEF RoomInv, RoomStep, TickBegin, ClearSockets, CollectGone, DropUser, ApplyResets,
       RobotsDone, CheckHibernation, NotifyHibernating, PruneConn, EncryptPanics, UpdateRobot
  <2>4. QED  BY <1>3, <2>1, <2>2, <2>3
<1>4. CASE UNCHANGED vars
  BY <1>4 DEF RoomInv, vars
<1>5. QED  BY <1>1, <1>2, <1>3, <1>4 DEF Next

\* Pruning one id leaves the others that are to be pruned where they are.
LEMMA PruneFindsEntryStep == RoomInv /\ [Next]_vars => PruneFindsEntry'
<1> SUFFICES ASSUME RoomInv, [Next]_vars PROVE PruneFindsEntry'
  OBVIOUS
<1> USE DEF sockVars, wsVars, roomVars, outVars, PruneFindsEntry
<1>1. CASE Environment
  BY <1>1 DEF RoomInv, Environment, Accept, Close, JoinEntry, Receive, Clock
<1>2. CASE JoinStep
  <2>1. UNCHANGED <<users, roomPC, gone>>
    BY <1>2 DEF JoinStep, JoinAttach, JoinTouch, JoinInfo, JoinDone, JoinClaim
  <2>2. QED  BY <1>2, <2>1, JoinStepMembers, ConstantsFit DEF RoomInv, TypeOK, ModelAssumptions
<1>3. CASE RoomStep
  <2>1. CASE CollectGone
    BY <2>1, ConstantsFit DEF CollectGone, RoomInv, TypeOK, Attached, ModelAssumptions
  <2>2. CASE DropUser
    BY <2>2 DEF DropUser, RoomInv, TypeOK, VictimPresent
  <2>3. ASSUME NEW c \in Conns, PruneConn(c) PROVE PruneFindsEntry'
    BY <2>3, ConstantsFit DEF PruneConn, RoomInv, TypeOK, ModelAssumptions
  <2>4. CASE RoomStep /\ ~CollectGone /\ ~DropUser /\ ~\E c \in Conns : PruneConn(c)
    BY <2>4 DEF RoomInv, RoomStep, TickBegin, ClearSockets, GetMessages, ApplyResets,
       RobotsDone, CheckHibernation, NotifyHibernating, Handle, EncryptPanics, UpdateRobot
  <2>5. QED  BY <1>3, <2>1, <2>2, <2>3, <2>4
<1>4. CASE UNCHANGED vars
  BY <1>4 DEF RoomInv, vars
<1>5. QED  BY <1>1, <1>2, <1>3, <1>4 DEF Next

\* A key goes only when none of its ids is left to prune.
LEMMA VictimPresentStep == RoomInv /\ [Next]_vars => VictimPresent'
<1> SUFFICES ASSUME RoomInv, [Next]_vars PROVE VictimPresent'
  OBVIOUS
<1> USE DEF sockVars, wsVars, roomVars, outVars, VictimPresent
<1>1. CASE Environment
  BY <1>1 DEF RoomInv, Environment, Accept, Close, JoinEntry, Receive, Clock
<1>2. CASE JoinStep
  BY <1>2 DEF RoomInv, JoinStep, JoinAttach, JoinTouch, JoinInfo, JoinDone, JoinClaim
<1>3. CASE RoomStep
  BY <1>3 DEF RoomInv, RoomStep, TickBegin, ClearSockets, CollectGone, DropUser,
     GetMessages, ApplyResets, RobotsDone, CheckHibernation, NotifyHibernating, PruneConn,
     Handle, EncryptPanics, UpdateRobot, PruneFindsEntry, KeyGoes, TypeOK
<1>4. CASE UNCHANGED vars
  BY <1>4 DEF RoomInv, vars
<1>5. QED  BY <1>1, <1>2, <1>3, <1>4 DEF Next

\* A key is without peers only between two steps of a join or a removal.
LEMMA NoGhostUserStep == RoomInv /\ [Next]_vars => NoGhostUser'
<1> SUFFICES ASSUME RoomInv, [Next]_vars PROVE NoGhostUser'
  OBVIOUS
<1> USE DEF sockVars, wsVars, roomVars, outVars, NoGhostUser
<1>1. CASE Environment
  BY <1>1 DEF RoomInv, Environment, Accept, Close, JoinEntry, Receive, Clock, TypeOK
<1>2. CASE JoinStep
  <2>1. CASE JoinAttach
    <3>1. CASE EntryThere
      BY <2>1, <3>1 DEF JoinAttach, RoomInv, TypeOK
    <3>2. CASE ~EntryThere
      BY <2>1, <3>2 DEF JoinAttach, EntryThere, RoomInv
    <3>3. QED  BY <3>1, <3>2
  <2>2. CASE JoinStep /\ ~JoinAttach
    BY <2>2 DEF RoomInv, JoinStep, JoinTouch, JoinInfo, JoinDone, JoinClaim
  <2>3. QED  BY <1>2, <2>1, <2>2
<1>3. CASE RoomStep
  BY <1>3 DEF RoomInv, RoomStep, TickBegin, ClearSockets, CollectGone, DropUser,
     GetMessages, ApplyResets, RobotsDone, CheckHibernation, NotifyHibernating, PruneConn,
     Handle, EncryptPanics, UpdateRobot, KeyGoes, VictimPresent, PruneFindsEntry, TypeOK
<1>4. CASE UNCHANGED vars
  BY <1>4 DEF RoomInv, vars
<1>5. QED  BY <1>1, <1>2, <1>3, <1>4 DEF Next

-----------------------------------------------------------------------------
(* What clients know of the claims.                                        *)

\* A step of the room task changes the claims and what clients know of them
\* together, for every client listed and open, or forgets them on a kick.
ClaimsAndViewsMove ==
    \/ UNCHANGED <<claimedBy, view>>
    \/ /\ roomPC' = "notify"
       /\ UNCHANGED claimedBy
       /\ \A c \in Conns : view'[c] = view[c] \/ (c \in Attached /\ view'[c] = NoClaims)
    \/ /\ roomPC # "notify"
       /\ \E r \in Robots, u \in Users \cup {NoUser} :
             claimedBy' = [claimedBy EXCEPT ![r] = u] /\ BroadcastClaim(r, u)

LEMMA RoomStepClaims == RoomInv /\ RoomStep => ClaimsAndViewsMove
<1> SUFFICES ASSUME RoomInv, RoomStep PROVE ClaimsAndViewsMove
  OBVIOUS
<1> USE DEF ClaimsAndViewsMove
<1>1. ASSUME NEW c \in Conns, Handle(c) PROVE ClaimsAndViewsMove
  <2>1. roomPC = "handle" /\ Head(inbox[c]) \in Messages
    BY <1>1 DEF Handle, RoomInv, TypeOK
  <2>2. CASE conn[c] = "open" /\ Head(inbox[c]) \in RobotMessages
    <3> DEFINE m == Head(inbox[c])
    <3>1. m.robot \in Robots /\ UserOf[c] \in Users /\ m # ResetAll
      BY <2>2, ConstantsFit DEF RobotMessages, ResetAll, ModelAssumptions
    <3>2. HandleMessage(c, m)
      BY <1>1, <2>2 DEF Handle
    <3>3. \/ UNCHANGED <<claimedBy, view>>
          \/ ClaimRobot(c, m.robot)
          \/ UnclaimRobot(c, m.robot)
      BY <3>1, <3>2 DEF HandleMessage
    <3>4. QED  BY <2>1, <3>1, <3>3 DEF ClaimRobot, UnclaimRobot
  <2>3. CASE conn[c] # "open" \/ Head(inbox[c]) \notin RobotMessages
    <3>1. Head(inbox[c]) = ResetAll \/ conn[c] # "open"
      BY <2>1, <2>3 DEF Messages
    <3>2. QED  BY <1>1, <3>1 DEF Handle, HandleMessage, ResetAll
  <2>4. QED  BY <2>2, <2>3
<1>2. ASSUME NEW r \in Robots, UpdateRobot(r) PROVE ClaimsAndViewsMove
  BY <1>2 DEF UpdateRobot
<1>3. ASSUME NEW u \in Users, NotifyHibernating(u) PROVE ClaimsAndViewsMove
  BY <1>3 DEF NotifyHibernating, Reachable, RoomInv, TypeOK
<1>4. CASE TickBegin \/ ClearSockets \/ CollectGone \/ DropUser \/ GetMessages
  BY <1>4 DEF TickBegin, ClearSockets, CollectGone, DropUser, GetMessages, outVars
<1>5. CASE ApplyResets \/ RobotsDone \/ CheckHibernation
           \/ \E c \in Conns : PruneConn(c) \/ EncryptPanics(c)
  BY <1>5 DEF ApplyResets, RobotsDone, CheckHibernation, PruneConn, EncryptPanics, outVars
<1>6. QED  BY <1>1, <1>2, <1>3, <1>4, <1>5 DEF RoomStep

\* It lists nobody new, unlists everybody when a kick ends, and leaves the
\* join in progress alone.
LEMMA RoomStepMembers ==
    RoomInv /\ RoomStep =>
        /\ UNCHANGED <<conn, wsPC, joining, toSend>>
        /\ Attached' \subseteq Attached
        /\ roomPC = "notify" /\ roomPC' # "notify" => Attached' = {}
        /\ \A c \in Conns : session'[c] \in {session[c], "hibernated"}
        /\ \A c \in Conns \ Attached : session'[c] = session[c]
<1> SUFFICES ASSUME RoomInv, RoomStep
             PROVE  /\ UNCHANGED <<conn, wsPC, joining, toSend>>
                    /\ Attached' \subseteq Attached
                    /\ roomPC = "notify" /\ roomPC' # "notify" => Attached' = {}
                    /\ \A c \in Conns : session'[c] \in {session[c], "hibernated"}
                    /\ \A c \in Conns \ Attached : session'[c] = session[c]
  OBVIOUS
<1>1. UNCHANGED <<conn, wsPC, joining, toSend>>
  BY DEF wsVars, RoomStep, TickBegin, ClearSockets, CollectGone, DropUser, GetMessages,
     ApplyResets, RobotsDone, CheckHibernation, NotifyHibernating, PruneConn, Handle,
     EncryptPanics, UpdateRobot
<1>2. \A c \in Conns : session'[c] = session[c] \/ (c \in Attached /\ session'[c] = "hibernated")
  BY DEF outVars, RoomStep, TickBegin, ClearSockets, CollectGone, DropUser, GetMessages,
     ApplyResets, RobotsDone, CheckHibernation, NotifyHibernating, PruneConn, Handle,
     EncryptPanics, UpdateRobot, Reachable, RoomInv, TypeOK
<1>3. \A u \in Users : peers'[u] \subseteq peers[u]
  <2>1. CASE DropUser
    BY <2>1 DEF DropUser, RoomInv, TypeOK
  <2>2. ASSUME NEW c \in Conns, PruneConn(c) PROVE \A u \in Users : peers'[u] \subseteq peers[u]
    BY <2>2 DEF PruneConn, RoomInv, TypeOK
  <2>3. CASE RoomStep /\ ~DropUser /\ ~\E c \in Conns : PruneConn(c)
    BY <2>3 DEF sockVars, RoomStep, TickBegin, ClearSockets, CollectGone, GetMessages,
       ApplyResets, RobotsDone, CheckHibernation, NotifyHibernating, Handle, EncryptPanics,
       UpdateRobot
  <2>4. QED  BY <2>1, <2>2, <2>3
<1>4. Attached' \subseteq Attached
  BY <1>3, ConstantsFit DEF Attached, ModelAssumptions
<1>5. roomPC = "notify" /\ roomPC' # "notify" => Attached' = {}
  BY ConstantsFit DEF Attached, ModelAssumptions, roomVars, RoomStep, TickBegin, ClearSockets,
     CollectGone, DropUser, GetMessages, ApplyResets, RobotsDone, CheckHibernation,
     NotifyHibernating, PruneConn, Handle, EncryptPanics, UpdateRobot
<1>6. QED  BY <1>1, <1>2, <1>4, <1>5

\* Nobody closes a connection while ws_rx is inside join_room.
LEMMA JoinerOpenStep == RoomInv /\ [Next]_vars => JoinerOpen'
<1> SUFFICES ASSUME RoomInv, [Next]_vars PROVE JoinerOpen'
  OBVIOUS
<1> USE DEF sockVars, wsVars, roomVars, outVars, JoinerOpen
<1>1. CASE Environment
  BY <1>1, ConstantsFit
     DEF RoomInv, Environment, Accept, Close, JoinEntry, Receive, Clock, TypeOK, ModelAssumptions
<1>2. CASE JoinStep
  <2>1. CASE JoinAttach \/ JoinTouch \/ \E r \in Robots : JoinClaim(r)
    BY <2>1 DEF RoomInv, TypeOK, JoinAttach, JoinTouch, JoinClaim
  <2>2. CASE JoinInfo
    BY <2>2 DEF RoomInv, TypeOK, JoinInfo
  <2>3. CASE JoinDone
    BY <2>3, ConstantsFit DEF RoomInv, TypeOK, JoinDone, ModelAssumptions
  <2>4. QED  BY <1>2, <2>1, <2>2, <2>3 DEF JoinStep
<1>3. CASE RoomStep
  <2>1. wsPC = "attach" => joining \in Conns /\ joining \notin Attached
    BY DEF RoomInv, TypeOK, FreshKnowsNothing
  <2>2. /\ UNCHANGED <<conn, wsPC, joining>>
        /\ \A c \in Conns : session'[c] = session[c] \/ (c \in Attached /\ session'[c] = "hibernated")
        /\ \A c \in Conns : conn[c] = "new" => c \notin Attached
    BY <1>3, RoomStepMembers DEF RoomInv, FreshKnowsNothing
  <2>3. QED  BY <2>1, <2>2 DEF RoomInv, TypeOK
<1>4. CASE UNCHANGED vars
  BY <1>4 DEF RoomInv, vars
<1>5. QED  BY <1>1, <1>2, <1>3, <1>4 DEF Next

\* Nobody is told anything before joining.
LEMMA FreshKnowsNothingStep == RoomInv /\ [Next]_vars => FreshKnowsNothing'
<1> SUFFICES ASSUME RoomInv, [Next]_vars,
                    NEW c \in Conns, session'[c] = "none", joining' = c => wsPC' = "attach"
             PROVE  c \notin Attached' /\ view'[c] = NoClaims
  BY DEF FreshKnowsNothing
<1> USE DEF FreshKnowsNothing, NoClaims
<1>1. CASE Environment
  BY <1>1, ConstantsFit DEF Environment, Accept, Close, JoinEntry, Receive, Clock, sockVars,
     wsVars, outVars, Attached, RoomInv, JoinerOpen, ModelAssumptions
<1>2. CASE JoinStep
  <2>1. c # joining
    BY <1>2 DEF JoinStep, JoinAttach, JoinTouch, JoinInfo, JoinDone, JoinClaim, outVars,
       RoomInv, JoinerOpen, TypeOK
  <2>2. session[c] = "none" /\ view'[c] = view[c]
    BY <1>2, <2>1 DEF JoinStep, JoinAttach, JoinTouch, JoinInfo, JoinDone, JoinClaim, outVars,
       RoomInv, TypeOK
  <2>3. c \in Attached' => c \in Attached
    BY <1>2, <2>1, JoinStepMembers
  <2>4. QED  BY <2>1, <2>2, <2>3 DEF RoomInv
<1>3. CASE RoomStep
  <2>1. c \notin Attached /\ view[c] = NoClaims
    BY <1>3, RoomStepMembers DEF RoomInv
  <2>2. c \notin Attached'
    BY <1>3, <2>1, RoomStepMembers
  <2>3. view'[c] = view[c]
    BY <1>3, <2>1, RoomStepClaims DEF ClaimsAndViewsMove, BroadcastClaim, Reachable
  <2>4. QED  BY <2>1, <2>2, <2>3
<1>4. CASE UNCHANGED vars
  BY <1>4 DEF vars, sockVars, wsVars, outVars, RoomInv, Attached
<1>5. QED  BY <1>1, <1>2, <1>3, <1>4 DEF Next

\* A client that is joining is told of each robot nothing, or its claimant.
LEMMA JoinerNotMisledStep == RoomInv /\ [Next]_vars => JoinerNotMisled'
<1> SUFFICES ASSUME RoomInv, [Next]_vars, wsPC' \in {"touch", "info", "claims"},
                    joining' \in Attached', NEW r \in Robots
             PROVE  view'[joining'][r] \in {NoUser, claimedBy'[r]}
  BY DEF JoinerNotMisled
<1>1. CASE Environment
  BY <1>1 DEF Environment, Accept, Close, JoinEntry, Receive, Clock, sockVars, wsVars, outVars,
     Attached, RoomInv, JoinerNotMisled
<1>2. CASE JoinStep
  <2>1. CASE JoinAttach
    <3>1. joining \in Conns /\ joining' = joining /\ view' = view
      BY <2>1 DEF JoinAttach, outVars, RoomInv, TypeOK
    <3>2. session[joining] = "none" => view[joining] = NoClaims
      BY <2>1, <3>1 DEF JoinAttach, RoomInv, FreshKnowsNothing
    <3>3. QED  BY <2>1, <3>1, <3>2 DEF JoinAttach, RoomInv, JoinerOpen, NoClaims
  <2>2. ASSUME NEW q \in Robots, JoinClaim(q) PROVE view'[joining'][r] \in {NoUser, claimedBy'[r]}
    BY <2>2 DEF JoinClaim, sockVars, Attached, RoomInv, JoinerNotMisled, TypeOK
  <2>3. CASE JoinTouch \/ JoinInfo \/ JoinDone
    BY <2>3 DEF JoinTouch, JoinInfo, JoinDone, sockVars, outVars, Attached, RoomInv, JoinerNotMisled
  <2>4. QED  BY <1>2, <2>1, <2>2, <2>3 DEF JoinStep
<1>3. CASE RoomStep
  <2>1. /\ joining \in Reachable /\ joining' = joining /\ joining \in Conns
        /\ view[joining][r] \in {NoUser, claimedBy[r]}
    BY <1>3, RoomStepMembers DEF RoomInv, JoinerOpen, JoinerNotMisled, Reachable, TypeOK
  <2>2. CASE \E q \in Robots, u \in Users \cup {NoUser} :
                claimedBy' = [claimedBy EXCEPT ![q] = u] /\ BroadcastClaim(q, u)
    BY <2>1, <2>2 DEF BroadcastClaim, RoomInv, TypeOK
  <2>3. CASE UNCHANGED claimedBy /\ (view'[joining] = view[joining] \/ view'[joining] = NoClaims)
    BY <2>1, <2>3 DEF NoClaims
  <2>4. QED  BY <1>3, <2>1, <2>2, <2>3, RoomStepClaims DEF ClaimsAndViewsMove
<1>4. CASE UNCHANGED vars
  BY <1>4 DEF vars, sockVars, wsVars, outVars, RoomInv, JoinerNotMisled, Attached
<1>5. QED  BY <1>1, <1>2, <1>3, <1>4 DEF Next

\* A client in the room knows who holds each robot, but for the robots its
\* own join has not reported yet.
LEMMA ViewsAgreeStep == RoomInv /\ [Next]_vars => ViewsAgree'
<1> SUFFICES ASSUME RoomInv, [Next]_vars, roomPC' # "notify", NEW c \in Conns, c \in Reachable',
                    NEW r \in Robots, view'[c][r] # claimedBy'[r]
             PROVE  joining' = c /\ (wsPC' # "claims" \/ r \in toSend')
  BY DEF ViewsAgree, Reachable, Attached
<1>1. CASE Environment
  <2>1. /\ c \in Attached /\ UNCHANGED <<roomPC, view, claimedBy>>
        /\ conn[c] = "open" \/ conn[c] = "new"
    BY <1>1 DEF Environment, Accept, Close, JoinEntry, Receive, Clock, sockVars, roomVars, outVars,
       Reachable, Attached, RoomInv, TypeOK
  <2>2. conn[c] # "new"
    BY <2>1 DEF RoomInv, JoinerOpen, FreshKnowsNothing
  <2>3. joining = c /\ (wsPC # "claims" \/ r \in toSend)
    BY <2>1, <2>2 DEF RoomInv, ViewsAgree, Reachable
  <2>4. wsPC # "idle"
    BY <2>3, ConstantsFit DEF RoomInv, JoinerOpen, ModelAssumptions
  <2>5. QED  BY <1>1, <2>3, <2>4 DEF Environment, Accept, Close, JoinEntry, Receive, Clock, wsVars
<1>2. CASE JoinStep
  <2>1. /\ UNCHANGED <<roomPC, claimedBy, conn>>
        /\ c # joining => view'[c] = view[c] /\ c \in Reachable
    BY <1>2, JoinStepMembers DEF JoinStep, JoinAttach, JoinTouch, JoinInfo, JoinDone, JoinClaim,
       roomVars, outVars, Reachable, RoomInv, TypeOK
  <2>2. c = joining
    BY <2>1 DEF RoomInv, ViewsAgree
  <2>3. CASE JoinAttach \/ JoinTouch \/ JoinInfo
    BY <2>2, <2>3 DEF JoinAttach, JoinTouch, JoinInfo, ReportedRobots
  <2>4. CASE JoinDone
    BY <2>1, <2>2, <2>4
       DEF JoinDone, sockVars, outVars, Reachable, Attached, RoomInv, ViewsAgree
  <2>5. ASSUME NEW q \in Robots, JoinClaim(q) PROVE r \in toSend'
    <3>1. c \in Reachable /\ UNCHANGED <<roomPC, claimedBy>> /\ wsPC = "claims"
      BY <2>5 DEF JoinClaim, sockVars, roomVars, Reachable, Attached
    <3>2. CASE r = q
      <4>1. view[c][r] \in {NoUser, claimedBy[r]}
        BY <2>2, <3>1 DEF RoomInv, JoinerNotMisled, Reachable
      <4>2. view'[c][r] = claimedBy[r]
        BY <2>2, <2>5, <3>2, <4>1 DEF JoinClaim, RoomInv, TypeOK
      <4>3. QED  BY <3>1, <4>2
    <3>3. CASE r # q
      BY <2>2, <2>5, <3>1, <3>3 DEF JoinClaim, RoomInv, TypeOK, ViewsAgree
    <3>4. QED  BY <3>2, <3>3
  <2>6. QED
    <3>1. ASSUME NEW q \in Robots, JoinClaim(q) PROVE wsPC' = wsPC /\ joining' = joining
      BY <3>1 DEF JoinClaim
    <3>2. QED  BY <1>2, <2>2, <2>3, <2>4, <2>5, <3>1 DEF JoinStep
<1>3. CASE RoomStep
  <2>1. /\ c \in Reachable /\ roomPC # "notify"
        /\ UNCHANGED <<wsPC, joining, toSend>>
    BY <1>3, RoomStepMembers DEF Reachable
  <2>2. view[c][r] # claimedBy[r]
    <3>1. ASSUME NEW q \in Robots, NEW u \in Users \cup {NoUser},
                 claimedBy' = [claimedBy EXCEPT ![q] = u], BroadcastClaim(q, u)
          PROVE  view[c][r] # claimedBy[r]
      BY <2>1, <3>1 DEF BroadcastClaim, RoomInv, TypeOK
    <3>2. QED  BY <1>3, <3>1, RoomStepClaims DEF ClaimsAndViewsMove
  <2>3. QED  BY <2>1, <2>2 DEF RoomInv, ViewsAgree
<1>4. CASE UNCHANGED vars
  BY <1>4 DEF vars, sockVars, wsVars, roomVars, outVars, RoomInv, ViewsAgree, Reachable, Attached
<1>5. QED  BY <1>1, <1>2, <1>3, <1>4 DEF Next

-----------------------------------------------------------------------------
(* The invariant and what follows from it.                                 *)

LEMMA InitInv == Init => RoomInv
<1> SUFFICES ASSUME Init PROVE RoomInv
  OBVIOUS
<1>1. Attached = {} /\ Reachable = {}
  BY ConstantsFit DEF Init, Attached, Reachable, ModelAssumptions
<1>2. VisitedRobots /\ ClaimantsPresent /\ NotifyAsleep /\ HandledPresent
  BY DEF Init, VisitedRobots, ClaimantsPresent, NotifyAsleep, HandledPresent
<1>3. PruneFindsEntry /\ VictimPresent /\ NoGhostUser
  BY DEF Init, PruneFindsEntry, VictimPresent, NoGhostUser
<1>4. JoinerOpen /\ FreshKnowsNothing /\ JoinerNotMisled /\ ViewsAgree
  BY <1>1, ConstantsFit
     DEF Init, JoinerOpen, FreshKnowsNothing, JoinerNotMisled, ViewsAgree, ModelAssumptions
<1>5. QED  BY <1>2, <1>3, <1>4, InitType DEF RoomInv

\* RoomInv is an inductive invariant.
THEOREM RoomInvariant == Spec => []RoomInv
<1>1. RoomInv /\ [Next]_vars => RoomInv'
  <2> SUFFICES ASSUME RoomInv, [Next]_vars PROVE RoomInv'
    OBVIOUS
  <2>1. TypeOK'
    BY StepType DEF RoomInv
  <2>2. VisitedRobots' /\ ClaimantsPresent' /\ NotifyAsleep' /\ HandledPresent'
    BY VisitedRobotsStep, ClaimantsPresentStep, NotifyAsleepStep, HandledPresentStep
  <2>3. PruneFindsEntry' /\ VictimPresent' /\ NoGhostUser'
    BY PruneFindsEntryStep, VictimPresentStep, NoGhostUserStep
  <2>4. JoinerOpen' /\ FreshKnowsNothing' /\ JoinerNotMisled' /\ ViewsAgree'
    BY JoinerOpenStep, FreshKnowsNothingStep, JoinerNotMisledStep, ViewsAgreeStep
  <2>5. QED  BY <2>1, <2>2, <2>3, <2>4 DEF RoomInv
<1>2. QED  BY <1>1, InitInv, PTL DEF Spec

\* Every client in the room knows every claim, for any number of clients.
THEOREM ViewsAlwaysAgree == Spec => []ViewsAgree
<1>1. RoomInv => ViewsAgree
  BY DEF RoomInv
<1>2. QED  BY <1>1, RoomInvariant, PTL

\* After each tick of an awake room every claimant is in the room.
THEOREM ClaimantsAlwaysPresent == Spec => []ClaimantsPresent
<1>1. RoomInv => ClaimantsPresent
  BY DEF RoomInv
<1>2. QED  BY <1>1, RoomInvariant, PTL

\* No key without peers outlives the join or removal it belongs to.
THEOREM NeverGhostUser == Spec => []NoGhostUser
<1>1. RoomInv => NoGhostUser
  BY DEF RoomInv
<1>2. QED  BY <1>1, RoomInvariant, PTL

\* The unwrap in remove_disconnected_clients never panics.
THEOREM PruneAlwaysFindsEntry == Spec => []PruneFindsEntry
<1>1. RoomInv => PruneFindsEntry
  BY DEF RoomInv
<1>2. QED  BY <1>1, RoomInvariant, PTL

-----------------------------------------------------------------------------
(* RoomSession implements RobotOwnership: every step is one of its steps,  *)
(* or changes neither the claims, nor who is in the room, nor the requests.*)

ClaimsUntouched == UNCHANGED <<claimedBy, users, inbox>>

\* A message is a request of its own connection, which is in the room.
LEMMA HandleImplements ==
    ASSUME RoomInv, NEW c \in Conns, Handle(c)
    PROVE  Ownership!Next
<1> DEFINE m == Head(inbox[c])
<1>1. /\ UserOf[c] \in users /\ m \in Messages /\ users' = users
      /\ inbox[c] # <<>> /\ inbox' = [inbox EXCEPT ![c] = Tail(inbox[c])]
  BY ConstantsFit DEF Handle, sockVars, RoomInv, HandledPresent, TypeOK, ModelAssumptions
<1>2. CASE UNCHANGED claimedBy
  <2>1. Ownership!PassOver(c)
    BY <1>1, <1>2 DEF Ownership!PassOver
  <2>2. QED  BY <2>1 DEF Ownership!Next
<1>3. CASE claimedBy' # claimedBy
  <2>1. HandleMessage(c, m) /\ m \in RobotMessages
    BY <1>1, <1>3 DEF Handle, HandleMessage, Messages, ResetAll
  <2>2. m.robot \in Robots /\ m # ResetAll /\ m = [type |-> m.type, robot |-> m.robot]
    BY <2>1 DEF RobotMessages, ResetAll
  <2>3. \/ m.type = "ClaimRobot" /\ ClaimRobot(c, m.robot)
        \/ m.type = "UnclaimRobot" /\ UnclaimRobot(c, m.robot)
    BY <1>3, <2>1, <2>2 DEF HandleMessage
  <2>4. Ownership!Serves(c, m.type, m.robot)
    BY <1>1, <2>2 DEF Ownership!Serves
  <2>5. Ownership!Claim(c, m.robot) \/ Ownership!Release(c, m.robot)
    BY <1>1, <1>3, <2>3, <2>4
       DEF ClaimRobot, UnclaimRobot, Authorized, Ownership!Claim, Ownership!Release
  <2>6. QED  BY <2>2, <2>5 DEF Ownership!Next
<1>4. QED  BY <1>2, <1>3

\* get_messages reads only connections listed under a key of sockets.
LEMMA GetMessagesImplements ==
    ASSUME RoomInv, GetMessages
    PROVE  Ownership!Next
<1>1. inbox' \in [Conns -> Seq(Messages)]
  BY DEF GetMessages, RoomInv, TypeOK
<1>2. \A c \in Conns : inbox'[c] = <<>> \/ UserOf[c] \in users
  BY ConstantsFit
     DEF GetMessages, RoomInv, TypeOK, Readers, Reachable, Attached, ModelAssumptions
<1>3. UNCHANGED <<claimedBy, users>>
  BY DEF GetMessages, sockVars
<1>4. Ownership!Ask
  BY <1>1, <1>2, <1>3 DEF Ownership!Ask
<1>5. QED  BY <1>4 DEF Ownership!Next

LEMMA StepImplements == RoomInv /\ [Next]_vars => [Ownership!Next]_(Ownership!vars)
<1> SUFFICES ASSUME RoomInv, [Next]_vars
             PROVE  Ownership!Next \/ ClaimsUntouched
  BY DEF Ownership!vars, ClaimsUntouched
<1> USE DEF ClaimsUntouched
<1>1. ASSUME NEW c \in Conns, JoinEntry(c) PROVE Ownership!Next
  <2>1. UserOf[c] \in Users
    BY ConstantsFit DEF ModelAssumptions
  <2>2. Ownership!Enter(UserOf[c])
    BY <1>1 DEF JoinEntry, roomVars, Ownership!Enter
  <2>3. QED  BY <2>1, <2>2 DEF Ownership!Next
<1>2. CASE ClearSockets
  BY <1>2 DEF ClearSockets, Ownership!Next, Ownership!LeaveAll
<1>3. CASE DropUser
  <2>1. victim \in Users /\ victim \in users
    BY <1>3 DEF DropUser, RoomInv, VictimPresent, TypeOK
  <2>2. Ownership!Leave(victim)
    BY <1>3, <2>1 DEF DropUser, Ownership!Leave
  <2>3. QED  BY <2>1, <2>2 DEF Ownership!Next
<1>4. ASSUME NEW r \in Robots, UpdateRobot(r)
      PROVE  Ownership!Next \/ ClaimsUntouched
  BY <1>4 DEF UpdateRobot, Abandoned, sockVars, Ownership!Next, Ownership!Expire
<1>5. ASSUME NEW c \in Conns, Handle(c)
      PROVE  Ownership!Next
  BY <1>5, HandleImplements
<1>6. CASE GetMessages
  BY <1>6, GetMessagesImplements
<1>7. CASE \/ JoinStep \/ Clock \/ \E c \in Conns : Accept(c) \/ Close(c)
           \/ \E c \in Conns, m \in Inputs : Receive(c, m)
  BY <1>7 DEF JoinStep, Accept, Close, Receive, Clock, JoinAttach, JoinTouch, JoinInfo, JoinDone,
     JoinClaim, sockVars, roomVars
<1>8. CASE \/ TickBegin \/ CollectGone \/ ApplyResets \/ RobotsDone
           \/ CheckHibernation \/ \E u \in Users : NotifyHibernating(u)
           \/ \E c \in Conns : PruneConn(c) \/ EncryptPanics(c)
  BY <1>8 DEF TickBegin, CollectGone, ApplyResets, RobotsDone, CheckHibernation,
     NotifyHibernating, PruneConn, EncryptPanics, sockVars
<1>9. CASE UNCHANGED vars
  BY <1>9 DEF vars, sockVars, roomVars
<1>10. QED
  BY <1>1, <1>2, <1>3, <1>4, <1>5, <1>6, <1>7, <1>8, <1>9 DEF Next, Environment, RoomStep

\* A robot has one owner at a time, taken and given up only on a request of a
\* connection of that very user, who is in the room, or taken away from one
\* who has left, for any number of users, connections and robots.
THEOREM RoomImplementsOwnership == Spec => ImplementsOwnership
<1>1. Init => Ownership!Init
  BY DEF Init, NoClaims, Ownership!Init
<1>2. QED
  BY <1>1, StepImplements, RoomInvariant, PTL DEF Spec, ImplementsOwnership, Ownership!Spec

=============================================================================
