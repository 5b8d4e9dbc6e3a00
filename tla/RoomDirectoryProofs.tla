----------------------- MODULE RoomDirectoryProofs -----------------------
(***************************************************************************)
(* Proofs about RoomDirectory. The rooms of a server carry its address for *)
(* clients, the server is known by its address for the API: the invariant  *)
(* RoomsUnderWs keeps the two apart, and with it no purge ever takes a     *)
(* room off the list, though the code means it to.                         *)
(***************************************************************************)
EXTENDS RoomDirectory, TLAPS

\* The address of a server for the API is never one for clients.
LEMMA AddressesApart ==
    ASSUME NEW s \in Servers, NEW t \in Servers
    PROVE  Http(s) # Ws(t) /\ Http(s) \in Address /\ Ws(s) \in Address
BY DEF Http, Ws, Address

\* Purging the rooms of an address for the API removes none: no room is listed
\* under such an address.
LEMMA PurgeRemovesNothing ==
    ASSUME DirectoryInv, NEW s \in Servers
    PROVE  Without(Http(s)) = listed
<1>1. \A r \in RoomIds : listed[r] # NoRoom => listed[r].server # Http(s)
    BY AddressesApart DEF DirectoryInv, RoomsUnderWs
<1>2. listed = [r \in RoomIds |-> listed[r]]
    BY DEF DirectoryInv, TypeOK
<1> QED
    BY <1>1, <1>2 DEF Without

\* What the initial state satisfies.
LEMMA InitDirectory == Init => DirectoryInv
BY DEF Init, DirectoryInv, TypeOK, RoomsUnderWs, Idle, Calls

\* A report of a room is one TypeOK allows, under the address for clients.
LEMMA ReportType ==
    ASSUME NEW s \in Servers, NEW r \in RoomIds, NEW b \in BOOLEAN
    PROVE  /\ Report(s, r, b) \in Reports
           /\ Report(s, r, b).info.server = Ws(s)
BY AddressesApart DEF Report, Reports, Listing

\* The steps of the game servers and of the network.
LEMMA GameKeepsInv == DirectoryInv /\ (GameStep \/ Network) => DirectoryInv'
<1> SUFFICES ASSUME DirectoryInv, GameStep \/ Network PROVE DirectoryInv'
    OBVIOUS
<1> USE DEF DirectoryInv
<1>1. ASSUME NEW s \in Servers, Start(s) PROVE DirectoryInv'
    BY <1>1 DEF Start, TypeOK, RoomsUnderWs, cleanVars
<1>2. ASSUME NEW s \in Servers, Crash(s) PROVE DirectoryInv'
    BY <1>2 DEF Crash, TypeOK, RoomsUnderWs, cleanVars
<1>3. ASSUME NEW s \in Servers, Announce(s) PROVE DirectoryInv'
  <2> DEFINE m == [type |-> "announce", server |-> s,
                   empty |-> ~greeted[s] \/ \A r \in RoomIds : hosted[s][r] = "none"]
  <2>1. m \in Announcements /\ m.type # "room"
      BY DEF Announcements
  <2>2. wire' = wire \cup {m}
      BY <1>3 DEF Announce, Send
  <2> QED
      BY <1>3, <2>1, <2>2 DEF Announce, MayAnnounce, TypeOK, RoomsUnderWs, cleanVars
<1>4. ASSUME NEW s \in Servers, NEW r \in RoomIds, AnnounceRoom(s, r) PROVE DirectoryInv'
  <2> DEFINE m == Report(s, r, hosted[s][r] = "asleep")
  <2>1. wire' = wire \cup {m}
      BY <1>4 DEF AnnounceRoom, Send
  <2>2. m \in Reports /\ m.info.server = Ws(s)
      BY ReportType
  <2> HIDE DEF m
  <2> QED
      BY <1>4, <2>1, <2>2 DEF AnnounceRoom, TypeOK, RoomsUnderWs, gameVars, cleanVars
<1>5. ASSUME NEW s \in Servers, NEW r \in RoomIds, Hibernate(s, r) PROVE DirectoryInv'
    BY <1>5 DEF Hibernate, TypeOK, RoomsUnderWs, cleanVars
<1>6. ASSUME NEW s \in Servers, NEW r \in RoomIds, Expire(s, r) PROVE DirectoryInv'
    BY <1>6 DEF Expire, TypeOK, RoomsUnderWs, cleanVars
<1>7. ASSUME NEW s \in Servers, NEW q \in Requests, NEW r \in RoomIds, CreateRoom(s, q, r)
      PROVE  DirectoryInv'
  <2> DEFINE m == Report(s, r, FALSE)
  <2>1. wire' = wire \cup {m}
      BY <1>7 DEF CreateRoom, Send
  <2>2. m \in Reports /\ m.info.server = Ws(s)
      BY ReportType
  <2> HIDE DEF m
  <2>3. /\ call' \in [Requests -> Calls]
        /\ \A p \in Requests : call'[p].pc \in {"sent", "answered"} => call'[p].target \in Address
    <3>1. CASE call' = call
        BY <3>1 DEF TypeOK
    <3>2. CASE call[q].pc = "sent" /\ call' = [call EXCEPT ![q].pc = "answered"]
      <4>1. call[q] \in Calls /\ call[q].target \in Address
          BY <3>2 DEF TypeOK
      <4>2. [call[q] EXCEPT !.pc = "answered"] \in Calls
          BY <4>1 DEF Calls
      <4> QED
          BY <3>2, <4>1, <4>2 DEF TypeOK, Calls
    <3> QED
        BY <1>7, <3>1, <3>2 DEF CreateRoom
  <2> QED
      BY <1>7, <2>1, <2>2, <2>3 DEF CreateRoom, TypeOK, RoomsUnderWs, cleanVars
<1>8. ASSUME NEW m \in wire, Lose(m) PROVE DirectoryInv'
    BY <1>8 DEF Lose, TypeOK, RoomsUnderWs, gameVars, cleanVars
<1>9. ASSUME NEW o \in orders, LoseOrder(o) PROVE DirectoryInv'
    BY <1>9 DEF LoseOrder, TypeOK, RoomsUnderWs, cleanVars
<1> QED
    BY <1>1, <1>2, <1>3, <1>4, <1>5, <1>6, <1>7, <1>8, <1>9 DEF GameStep, Network

\* The handlers of the API.
LEMMA ApiKeepsInv == DirectoryInv /\ ApiStep => DirectoryInv'
<1> SUFFICES ASSUME DirectoryInv, ApiStep PROVE DirectoryInv'
    OBVIOUS
<1> USE DEF DirectoryInv
<1>1. ASSUME NEW m \in wire, ReceiveAnnounce(m) PROVE DirectoryInv'
  <2>1. m.server \in Servers
      BY <1>1 DEF ReceiveAnnounce, TypeOK, Announcements, Reports
  <2>2. listed' = listed
      BY <1>1, <2>1, PurgeRemovesNothing DEF ReceiveAnnounce, KeyOf
  <2>3. servers' = [servers EXCEPT ![Http(m.server)] = "fresh"] /\ wire' = wire \ {m}
      BY <1>1 DEF ReceiveAnnounce, KeyOf
  <2>4. Http(m.server) \in Address
      BY <2>1, AddressesApart
  <2>5. UNCHANGED <<gameVars, call, cleanVars>>
      BY <1>1 DEF ReceiveAnnounce
  <2>6. TypeOK'
      BY <2>2, <2>3, <2>4, <2>5 DEF TypeOK, gameVars, cleanVars
  <2>7. \A a \in Address : servers'[a] # "absent" => \E s \in Servers : a = Http(s)
      BY <2>1, <2>3, <2>4 DEF TypeOK, RoomsUnderWs
  <2> QED
      BY <2>2, <2>3, <2>5, <2>6, <2>7 DEF RoomsUnderWs, cleanVars
<1>2. ASSUME NEW m \in wire, ReceiveRoom(m) PROVE DirectoryInv'
  <2>1. m.type = "room" /\ m.id \in RoomIds /\ m.info \in Listing
      BY <1>2 DEF ReceiveRoom, TypeOK, Announcements, Reports
  <2> QED
      BY <1>2, <2>1 DEF ReceiveRoom, TypeOK, RoomsUnderWs, gameVars, cleanVars
<1>3. ASSUME NEW q \in Requests, PickServers(q) PROVE DirectoryInv'
    BY <1>3 DEF PickServers, Idle, Calls, TypeOK, RoomsUnderWs, gameVars, cleanVars
<1>4. ASSUME NEW q \in Requests, Refuse(q) PROVE DirectoryInv'
    BY <1>4 DEF Refuse, Idle, Calls, TypeOK, RoomsUnderWs, gameVars, cleanVars
<1>5. ASSUME NEW q \in Requests, Grant(q) PROVE DirectoryInv'
    BY <1>5 DEF Grant, Idle, Calls, TypeOK, RoomsUnderWs, gameVars, cleanVars
<1>6. ASSUME NEW q \in Requests, ForwardFails(q) PROVE DirectoryInv'
  <2>1. call[q].target \in Address
      BY <1>6 DEF ForwardFails, TypeOK
  <2> QED
      BY <1>6, <2>1 DEF ForwardFails, Idle, Calls, TypeOK, RoomsUnderWs, gameVars, cleanVars
<1>8. ASSUME NEW q \in Requests, AnswerUnreadable(q) PROVE DirectoryInv'
    BY <1>8 DEF AnswerUnreadable, Idle, Calls, TypeOK, RoomsUnderWs, gameVars, cleanVars
<1>7. ASSUME NEW q \in Requests, NEW a \in Address, Forward(q, a) PROVE DirectoryInv'
  <2>1. orders' \subseteq Requests \X Servers
      BY <1>7 DEF Forward, TypeOK
  <2>2. /\ call' \in [Requests -> Calls]
        /\ \A p \in Requests : call'[p].pc \in {"sent", "answered"} => call'[p].target \in Address
    <3>1. call' = [call EXCEPT ![q] = [call[q] EXCEPT !.pc = "sent", !.target = a]]
        BY <1>7 DEF Forward, TypeOK
    <3>2. call[q] \in Calls
        BY DEF TypeOK
    <3>3. [call[q] EXCEPT !.pc = "sent", !.target = a] \in Calls
        BY <3>2 DEF Calls
    <3>4. [call[q] EXCEPT !.pc = "sent", !.target = a].target = a
        BY <3>2 DEF Calls
    <3> QED
        BY <3>1, <3>3, <3>4 DEF TypeOK
  <2> QED
      BY <1>7, <2>1, <2>2 DEF Forward, TypeOK, RoomsUnderWs, cleanVars
<1> QED
    BY <1>1, <1>2, <1>3, <1>4, <1>5, <1>6, <1>7, <1>8 DEF ApiStep

\* The cleanup task, and time.
LEMMA CleanupKeepsInv ==
    DirectoryInv /\ (Cleanup \/ \E a \in Address : Age(a)) => DirectoryInv'
<1> SUFFICES ASSUME DirectoryInv, Cleanup \/ \E a \in Address : Age(a) PROVE DirectoryInv'
    OBVIOUS
<1> USE DEF DirectoryInv
<1>1. CASE CollectStale
    BY <1>1 DEF CollectStale, TypeOK, RoomsUnderWs, gameVars
<1>2. CASE RemoveServer
    BY <1>2 DEF RemoveServer, ForgetSuspect, TypeOK, RoomsUnderWs, gameVars
<1>3. CASE RemoveRooms
  <2>1. listed' = listed
      BY <1>3, PurgeRemovesNothing DEF RemoveRooms, RoomsUnderWs
  <2> QED
      BY <1>3, <2>1 DEF RemoveRooms, TypeOK, RoomsUnderWs, gameVars
<1>4. CASE CleanupDone
    BY <1>4 DEF CleanupDone, TypeOK, RoomsUnderWs, gameVars
<1>5. ASSUME NEW a \in Address, CheckAlive(a) PROVE DirectoryInv'
    BY <1>5 DEF CheckAlive, TypeOK, RoomsUnderWs, gameVars
<1>6. ASSUME NEW a \in Address, Age(a) PROVE DirectoryInv'
    BY <1>6 DEF Age, TypeOK, RoomsUnderWs, gameVars, cleanVars
<1> QED
    BY <1>1, <1>2, <1>3, <1>4, <1>5, <1>6 DEF Cleanup

\* The two addresses of a server are never mixed up, and every variable keeps
\* its type: DirectoryInv is an invariant of every instance.
THEOREM DirectoryInvariant == Spec => []DirectoryInv
<1>1. DirectoryInv /\ [Next]_vars => DirectoryInv'
  <2> SUFFICES ASSUME DirectoryInv, [Next]_vars PROVE DirectoryInv'
      OBVIOUS
  <2>1. CASE Next
      BY <2>1, GameKeepsInv, ApiKeepsInv, CleanupKeepsInv DEF Next
  <2>2. CASE UNCHANGED vars
      BY <2>2 DEF vars, gameVars, cleanVars, DirectoryInv, TypeOK, RoomsUnderWs
  <2> QED
      BY <2>1, <2>2
<1> QED
    BY <1>1, InitDirectory, PTL DEF Spec

\* What the two purges of the code do to the list: the one after the reset of a
\* server, and the one after a server has been removed.
Purges == (\E m \in wire : ReceiveAnnounce(m) /\ Reset(m)) \/ RemoveRooms

\* The finding of the run directory_reset in general: however many servers and
\* rooms there are, no purge ever takes a room off the list, so the rooms of a
\* server that was reset or is gone stay listed until their ids are used again.
THEOREM PurgesRemoveNothing == Spec => [][Purges => listed' = listed]_vars
<1>1. ASSUME DirectoryInv, NEW m \in wire, ReceiveAnnounce(m) PROVE listed' = listed
  <2>1. m.server \in Servers
      BY <1>1 DEF ReceiveAnnounce, DirectoryInv, TypeOK, Announcements, Reports
  <2> QED
      BY <1>1, <2>1, PurgeRemovesNothing DEF ReceiveAnnounce, KeyOf
<1>2. ASSUME DirectoryInv, RemoveRooms PROVE listed' = listed
    BY <1>2, PurgeRemovesNothing DEF RemoveRooms, DirectoryInv, RoomsUnderWs
<1>3. DirectoryInv /\ [Next]_vars => [Purges => listed' = listed]_vars
    BY <1>1, <1>2 DEF Purges
<1> QED
    BY <1>3, DirectoryInvariant, PTL DEF Spec

=============================================================================
