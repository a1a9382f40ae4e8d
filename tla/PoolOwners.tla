----------------------------- MODULE PoolOwners -----------------------------
(***************************************************************************)
(* The pool of zuh_pool.c implements Ownership: the idle set is the linked *)
(* list, the probed set what the calls on the C stack have unlinked or     *)
(* been given, and a pool is its process's own while the fork guard would  *)
(* not trip.                                                               *)
(***************************************************************************)
EXTENDS Pool

IdleSets   == [p \in Procs |-> Idle(p)]
ProbedSets == [p \in Procs |-> Probed(p)]
Owned      == [p \in Procs |-> ~Tripped(p)]
Dialled    == {c \in Conns : maker[c] # None}

Owner == INSTANCE Ownership WITH
  idle <- IdleSets, probing <- ProbedSets, inUse <- held,
  own <- Owned, dialled <- Dialled

\* The detailed pool, with its nested calls, rescans, eviction loop and fork
\* guard, does nothing that Ownership does not allow: no connection is lost,
\* shared or revived, none is kept beyond the limit, and a forked child
\* forgets what it inherited before it looks at any of it.
KeepsThePromise == Owner!Spec

\* What the fork guard says, besides IInv: the parent's never trips, the
\* child's would until the child's first call, and no call runs with it
\* tripped.
GuardRight ==
  /\ guard[Parent] = Parent
  /\ ~forked => guard[Child] = Parent
  /\ \A p \in Procs : stack[p] # <<>> => guard[p] = p

\* What InheritedIdleDropped needs besides: nothing is inherited before the
\* fork, and what is was dialled, so that it is not dialled again.
Forgotten ==
  /\ InheritedIdleDropped
  /\ forked \/ inherited = {}
  /\ inherited \subseteq Dialled
=============================================================================
