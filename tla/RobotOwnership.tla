--------------------------- MODULE RobotOwnership ---------------------------
(***************************************************************************)
(* What a room promises about the claims on its robots, without its tick,  *)
(* its sockets map or its robots' UDP traffic: a robot has at most one     *)
(* owner; only a request of a user who is in the room takes a free robot   *)
(* for that user; only a request of its owner gives it up; and it is taken *)
(* away only from an owner who has left.  A request serves once, and only  *)
(* after those the same connection made before it.                         *)
(* RoomSession is shown to implement this module.                          *)
(***************************************************************************)
EXTENDS Sequences

CONSTANTS
    Users,      \* NetsBlox usernames
    Conns,      \* connections of the users' pages
    UserOf,     \* the user of a connection
    Robots,     \* robot ids of the room
    Claimable,  \* the robots a client may claim
    Messages,   \* the requests a connection can make
    NoUser      \* owner of a free robot

VARIABLES
    owner,      \* robot -> the user who owns it, or NoUser
    present,    \* the users who are in the room
    asked       \* connection -> its requests the room is working on

vars == <<owner, present, asked>>

Init ==
    /\ owner = [r \in Robots |-> NoUser]
    /\ present = {}
    /\ asked = [c \in Conns |-> <<>>]

Enter(u) ==
    /\ present' = present \cup {u}
    /\ UNCHANGED <<owner, asked>>

Leave(u) ==
    /\ u \in present
    /\ present' = present \ {u}
    /\ UNCHANGED <<owner, asked>>

\* The room goes to sleep: everybody is sent away, the claims are kept.
LeaveAll ==
    /\ present' = {}
    /\ UNCHANGED <<owner, asked>>

\* The room turns to new requests, of users who are in it.
Ask ==
    /\ asked' \in [Conns -> Seq(Messages)]
    /\ \A c \in Conns : asked'[c] \in {asked[c], <<>>} \/ UserOf[c] \in present
    /\ UNCHANGED <<owner, present>>

\* The next request of c, which has not left, is this one.
Serves(c, type, r) ==
    /\ asked[c] # <<>> /\ Head(asked[c]) = [type |-> type, robot |-> r]
    /\ UserOf[c] \in present
    /\ asked' = [asked EXCEPT ![c] = Tail(@)]

Claim(c, r) ==
    /\ Serves(c, "ClaimRobot", r)
    /\ r \in Claimable /\ owner[r] = NoUser
    /\ owner' = [owner EXCEPT ![r] = UserOf[c]]
    /\ UNCHANGED present

Release(c, r) ==
    /\ Serves(c, "UnclaimRobot", r)
    /\ r \in Claimable /\ owner[r] = UserOf[c]
    /\ owner' = [owner EXCEPT ![r] = NoUser]
    /\ UNCHANGED present

\* A request that is refused, or is about something else.
PassOver(c) ==
    /\ asked[c] # <<>>
    /\ asked' = [asked EXCEPT ![c] = Tail(@)]
    /\ UNCHANGED <<owner, present>>

Expire(r) ==
    /\ owner[r] # NoUser
    /\ owner[r] \notin present
    /\ owner' = [owner EXCEPT ![r] = NoUser]
    /\ UNCHANGED <<present, asked>>

Next ==
    \/ \E u \in Users : Enter(u) \/ Leave(u)
    \/ LeaveAll
    \/ Ask
    \/ \E c \in Conns : PassOver(c) \/ \E r \in Robots : Claim(c, r) \/ Release(c, r)
    \/ \E r \in Robots : Expire(r)

Spec == Init /\ [][Next]_vars

=============================================================================
