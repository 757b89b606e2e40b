---------------------------- MODULE GCObjectSpec ----------------------------
(***************************************************************************)
(* What garbage collection of deleted objects promises, with no queue,     *)
(* worker, task, retry or restart in it.                                   *)
(*                                                                         *)
(* The chain grows.  An object deleted on chain may be garbage-collected   *)
(* once its deleting block is gcSafeBlockDistance blocks deep; its pieces  *)
(* then leave the store, or stay there when the delete fails, which the    *)
(* GC tolerates as a space leak.  Pieces are never put back, and no other  *)
(* object loses its pieces.  A block range may be declared collected once  *)
(* every object deleted inside it was garbage-collected, and it stays      *)
(* collected.                                                              *)
(*                                                                         *)
(* GCObject implements this specification under the refinement mapping    *)
(* of GCObject's GCRefinement.                                             *)
(***************************************************************************)
EXTENDS Naturals

CONSTANTS
  Objects,             \* ids of the objects that are deleted on chain
  DeleteAt,            \* [Objects -> Nat]: the block that deletes each object
  GCSafeBlockDistance, \* gcSafeBlockDistance
  Heights              \* the block heights a range may span

VARIABLES
  height,    \* the chain's current height
  deleted,   \* objects that have been garbage-collected
  stored,    \* objects whose pieces are in the piece store
  retired    \* block ranges <<start, end>> declared collected

vars == <<height, deleted, stored, retired>>

Init ==
  /\ height = 0
  /\ deleted = {}
  /\ stored = Objects
  /\ retired = {}

Grow ==
  /\ height' = height + 1
  /\ UNCHANGED <<deleted, stored, retired>>

\* o is collected, again or for the first time, once its deletion is safe
\* from a reorg; its pieces go unless the delete fails.
Delete(o) ==
  /\ DeleteAt[o] + GCSafeBlockDistance <= height
  /\ deleted' = deleted \cup {o}
  /\ stored' \in {stored \ {o}, stored}
  /\ UNCHANGED <<height, retired>>

\* A range is retired only when everything deleted inside it was collected.
Retire(r) ==
  /\ \A o \in Objects : DeleteAt[o] \in r[1]..r[2] => o \in deleted
  /\ retired' = retired \cup {r}
  /\ UNCHANGED <<height, deleted, stored>>

Next ==
  \/ Grow
  \/ \E o \in Objects : Delete(o)
  \/ \E r \in Heights \X Heights : Retire(r)

Spec == Init /\ [][Next]_vars
=============================================================================
