------------------------------ MODULE WriteOnce ------------------------------
(***************************************************************************)
(* What the executor of a migration plan promises of the entities it is to  *)
(* create, whatever happens to its process: there is none of an entity, then *)
(* one, and never another; and an entity is confirmed while there is one,    *)
(* and for good.                                                            *)
(***************************************************************************)
EXTENDS Naturals

CONSTANT Entities

VARIABLES
  copies,     \* how many of an entity are at the destination
  confirmed   \* the entities that are reported as verified

WriteOnceInit ==
  copies = [e \in Entities |-> 0] /\ confirmed = {}

Store(e) ==
  /\ copies[e] = 0
  /\ copies' = [copies EXCEPT ![e] = 1]
  /\ UNCHANGED confirmed

Confirm(e) ==
  /\ copies[e] = 1
  /\ confirmed' = confirmed \cup {e}
  /\ UNCHANGED copies

WriteOnceNext == \E e \in Entities : Store(e) \/ Confirm(e)

WriteOnceSpec == WriteOnceInit /\ [][WriteOnceNext]_<<copies, confirmed>>
=============================================================================
