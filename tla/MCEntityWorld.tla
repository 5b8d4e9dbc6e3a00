--------------------------- MODULE MCEntityWorld ---------------------------
(* Instances of EntityWorld for TLC.                                       *)
EXTENDS EntityWorld, TLC

Symmetry == Permutations(Macs)

\* The ids that addEntity, addBlock and addRobot return.
ReturnedIds == {Shape(n) : n \in 0 .. MaxId} \cup {Mac(m) : m \in Macs}

\* Those, and the ids of robots in the answer of listEntities.
ListedIds == ReturnedIds \cup {Chassis(m) : m \in Macs}

=============================================================================
