------------------------------ MODULE Ownership ------------------------------
(***************************************************************************)
(* What the connection pool promises its callers, without lists, counters, *)
(* stacks or guards.  In each process a connection is nowhere, in use,     *)
(* being probed, or idle, and it moves only                                *)
(*                                                                         *)
(*      nowhere -> in use <-> probing <-> idle -> nowhere                  *)
(*                                                                         *)
(* one connection at a time; what has gone never comes back.  A forked     *)
(* child starts with a copy of its parent's connections, but its pool is   *)
(* not its own: before a call of the child does anything with the idle     *)
(* ones it forgets them all.                                               *)
(***************************************************************************)
EXTENDS Naturals, FiniteSets

CONSTANTS Conns, Parent, Child, MaxIdle

VARIABLES
  idle,     \* [Procs -> SUBSET Conns] what the pool of a process keeps
  probing,  \* [Procs -> SUBSET Conns] what its calls in progress look at
  inUse,    \* [Procs -> SUBSET Conns] what requests and bodies hold
  own,      \* [Procs -> BOOLEAN] the pool was made, or taken over, here
  dialled,  \* connections that were ever opened
  forked

vars == <<idle, probing, inUse, own, dialled, forked>>
Procs == {Parent, Child}

Runs(p)     == p = Parent \/ forked
OwnIdle(p)  == IF own[p] THEN idle[p] ELSE {}
TakeOver(p) == own' = [own EXCEPT ![p] = TRUE]

Init ==
  /\ idle    = [p \in Procs |-> {}]
  /\ probing = [p \in Procs |-> {}]
  /\ inUse   = [p \in Procs |-> {}]
  /\ own     = [p \in Procs |-> p = Parent]
  /\ dialled = {} /\ forked = FALSE

Dial(p, c) ==
  /\ Runs(p) /\ c \notin dialled
  /\ dialled' = dialled \cup {c}
  /\ inUse' = [inUse EXCEPT ![p] = @ \cup {c}]
  /\ UNCHANGED <<idle, probing, own, forked>>

\* A call begins: the pool becomes the process's own.
Enter(p) ==
  /\ Runs(p)
  /\ TakeOver(p)
  /\ idle' = [idle EXCEPT ![p] = OwnIdle(p)]
  /\ UNCHANGED <<probing, inUse, dialled, forked>>

\* A holder hands c back, to be probed or to be closed.
Return(p, c) ==
  /\ Runs(p) /\ c \in inUse[p]
  /\ TakeOver(p)
  /\ idle' = [idle EXCEPT ![p] = OwnIdle(p)]
  /\ inUse' = [inUse EXCEPT ![p] = @ \ {c}]
  /\ \/ probing' = [probing EXCEPT ![p] = @ \cup {c}]
     \/ UNCHANGED probing
  /\ UNCHANGED <<dialled, forked>>

\* An idle connection is taken off for a look.
Probe(p, c) ==
  /\ own[p] /\ c \in idle[p]
  /\ idle' = [idle EXCEPT ![p] = @ \ {c}]
  /\ probing' = [probing EXCEPT ![p] = @ \cup {c}]
  /\ UNCHANGED <<inUse, own, dialled, forked>>

\* The look decides: hand it out, keep it if there is room, or close it.
Decide(p, c) ==
  /\ own[p] /\ c \in probing[p]
  /\ probing' = [probing EXCEPT ![p] = @ \ {c}]
  /\ \/ inUse' = [inUse EXCEPT ![p] = @ \cup {c}] /\ UNCHANGED idle
     \/ /\ Cardinality(idle[p]) < MaxIdle
        /\ idle' = [idle EXCEPT ![p] = @ \cup {c}]
        /\ UNCHANGED inUse
     \/ UNCHANGED <<idle, inUse>>
  /\ UNCHANGED <<own, dialled, forked>>

\* An idle connection makes room.
Evict(p, c) ==
  /\ own[p] /\ c \in idle[p]
  /\ idle' = [idle EXCEPT ![p] = @ \ {c}]
  /\ UNCHANGED <<probing, inUse, own, dialled, forked>>

\* All idle ones go: the pool is reset, or a new one takes its place.
Empty(p) ==
  /\ Runs(p)
  /\ idle' = [idle EXCEPT ![p] = {}]
  /\ TakeOver(p) \/ UNCHANGED own
  /\ UNCHANGED <<probing, inUse, dialled, forked>>

Fork ==
  /\ ~forked /\ forked' = TRUE
  /\ own[Parent] /\ ~own[Child] /\ probing[Parent] = {}
  /\ idle'  = [idle  EXCEPT ![Child] = idle[Parent]]
  /\ inUse' = [inUse EXCEPT ![Child] = inUse[Parent]]
  /\ UNCHANGED <<probing, own, dialled>>

Next ==
  \/ Fork
  \/ \E p \in Procs :
       \/ Enter(p) \/ Empty(p)
       \/ \E c \in Conns : \/ Dial(p, c) \/ Return(p, c) \/ Probe(p, c)
                           \/ Decide(p, c) \/ Evict(p, c)

Spec == Init /\ [][Next]_vars
=============================================================================
