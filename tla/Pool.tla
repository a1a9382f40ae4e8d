-------------------------------- MODULE Pool --------------------------------
(***************************************************************************)
(* The idle-connection pool of zuh_pool.c, in the process that made it and *)
(* in a child forked from that process.                                    *)
(*                                                                         *)
(* Each process runs one R thread, so its pool calls form a stack: while   *)
(* an HTTP/2 connection is probed the wait ticks into R, R may collect     *)
(* garbage, and the finalizer of a pulled body may release a connection    *)
(* into the very pool whose list the outer call is walking.  stack[p] is   *)
(* that stack, its last element the running call; only the running call    *)
(* takes steps.                                                            *)
(*                                                                         *)
(* A connection is one zuh_stream.  Its key never changes: the engine      *)
(* builds the key for the release from the same request as the key for     *)
(* the acquisition.  Statistics are left out, except idle, which steers    *)
(* the eviction loop.                                                      *)
(***************************************************************************)
EXTENDS Integers, Sequences, FiniteSets, SequencesExt

CONSTANTS
  Conns,         \* every connection that is ever opened
  H2,            \* the ones that speak HTTP/2; their probe reads frames and ticks
  Blind,         \* the ones whose readability probe answers -1, "unknown"
  Keys,          \* pool keys
  HostOf,        \* the (scheme, host, port) of a key
  Parent, Child, \* the process that made the pool, and its fork
  None,          \* NULL
  MaxIdle,       \* cfg.max_idle
  MaxPerHost,    \* cfg.max_per_host, 0 turns it off
  IdleTimeout,   \* cfg.idle_timeout_ms in clock units, 0 turns it off
  MaxForks,      \* bound: 1 when the process may fork, else 0
  MaxClock,      \* bound: the clock stops here
  MaxDepth       \* bound: pool calls nested in one another's probes

ASSUME ConnsAssumption == None \notin Conns /\ None \notin Keys /\ H2 \subseteq Conns /\ Blind \subseteq Conns
ASSUME ProcAssumption  == Parent # Child /\ None \notin {Parent, Child}
ASSUME LimitAssumption ==
  /\ MaxIdle \in Nat /\ MaxPerHost \in Nat /\ IdleTimeout \in Nat
  /\ MaxForks \in {0, 1} /\ MaxClock \in Nat /\ MaxDepth \in Nat
  /\ HostOf \in [Keys -> Keys]

Procs == {Parent, Child}

VARIABLES
  \* the pool of each process
  head,      \* [Procs -> Seq(Conns)] the idle list, most recently released first
  since,     \* [Procs -> [Conns -> Nat]] idle_since of an entry
  idle,      \* [Procs -> Int] the counter zuh_pool.idle
  guard,     \* [Procs -> Procs] the fork guard's owner_pid
  \* its callers
  stack,     \* [Procs -> Seq(Call)] pool calls in progress, innermost last
  held,      \* [Procs -> SUBSET Conns] connections of requests and pulled bodies
  open,      \* [Procs -> SUBSET Conns] streams not yet freed
  \* the connections
  maker,     \* [Conns -> Procs or None] the process that dialled it
  key,       \* [Conns -> Keys or None]
  peer,      \* [Conns -> {"live", "closed"}] closed, or unread bytes left behind
  clock,
  \* history
  inherited, \* connections that were idle in the parent's pool at the fork
  forked,    \* the child exists
  shut       \* connections closed by a process that did not dial them

poolVars == <<head, since, idle, guard>>
connVars == <<maker, key, peer>>
vars == <<poolVars, stack, held, open, connVars, clock, inherited, forked, shut>>

\* A call, its connection in hand, and the clock as it read it on entry; left
\* is history: the connections of its key whose peers had gone when an
\* acquisition began.
Call == [op : {"acquire", "release"}, key : Keys, conn : Conns \cup {None},
         at : Nat, left : SUBSET Conns, phase : {"scan", "probe", "asked", "room"}]

\* The phases in which an HTTP/2 connection is read, by the readability probe
\* and, once that is answered, by the wait for a PING.
Waiting == {"probe", "asked"}
\* What a probe can find closed.
Gone == {c \in Conns \ Blind : peer[c] = "closed"}
GoneOf(k) == {c \in Gone : key[c] = k}

Running(p)   == p = Parent \/ forked
Top(p)       == stack[p][Len(stack[p])]
InCall(p, op, phase) ==
  stack[p] # <<>> /\ Top(p).op = op /\ Top(p).phase = phase
Push(p, c)   == stack' = [stack EXCEPT ![p] = Append(@, c)]
Pop(p)       == stack' = [stack EXCEPT ![p] = Front(@)]
SetTop(p, c) == stack' = [stack EXCEPT ![p] = Append(Front(@), c)]

\* zuh_stream_close() on every connection of C, which free() then follows.
Shut(p, C) == shut' = shut \cup {c \in C : maker[c] # p}
Close(p, C) == open' = [open EXCEPT ![p] = @ \ C] /\ Shut(p, C)
-----------------------------------------------------------------------------
(* The fork guard: zuh_pool_check_fork() drops inherited entries without   *)
(* closing them and re-arms the guard.  It runs first in acquire, release  *)
(* and free, so their actions start from the state it leaves.              *)

Tripped(p)      == guard[p] # p
HeadChecked(p)  == IF Tripped(p) THEN <<>> ELSE head[p]
IdleChecked(p)  == IF Tripped(p) THEN 0 ELSE idle[p]
OpenChecked(p)  == IF Tripped(p) THEN open[p] \ ToSet(head[p]) ELSE open[p]
CheckFork(p) ==
  /\ head'  = [head  EXCEPT ![p] = HeadChecked(p)]
  /\ idle'  = [idle  EXCEPT ![p] = IdleChecked(p)]
  /\ guard' = [guard EXCEPT ![p] = p]
-----------------------------------------------------------------------------
(* zuh_pool_acquire_by()                                                   *)

\* The entry checks.  `at` is the clock as acquire_by read it on entry, not
\* the clock now: a probe may have waited since.
Expired(p, c, at) == IdleTimeout > 0 /\ at - since[p][c] >= IdleTimeout
Stale(c)          == c \in Gone
\* Faulty: only the timeout is checked.
UnusableByAge(p, c, at) == Expired(p, c, at)
Unusable(p, c, at) == Expired(p, c, at) \/ Stale(c)

AcquireBegin(p, k) ==
  /\ Running(p) /\ stack[p] = <<>>
  /\ CheckFork(p)
  /\ open' = [open EXCEPT ![p] = OpenChecked(p)]
  /\ Push(p, [op |-> "acquire", key |-> k, conn |-> None, at |-> clock,
              left |-> GoneOf(k), phase |-> "scan"])
  /\ UNCHANGED <<since, held, connVars, clock, inherited, forked, shut>>

Matches(p) == {i \in DOMAIN head[p] : key[head[p][i]] = Top(p).key}

\* Faulty: the entry is probed while the list still has it.
ProbedInPlace(p) ==
  /\ InCall(p, "acquire", "scan")
  /\ \E i \in Matches(p) :
       /\ \A j \in Matches(p) : i <= j
       /\ SetTop(p, [Top(p) EXCEPT !.conn = head[p][i], !.phase = "probe"])
  /\ UNCHANGED <<poolVars, held, open, connVars, clock, inherited, forked, shut>>

\* Unlink the first match before it is probed.
AcquireUnlink(p) ==
  /\ InCall(p, "acquire", "scan")
  /\ \E i \in Matches(p) :
       /\ \A j \in Matches(p) : i <= j
       /\ head' = [head EXCEPT ![p] = RemoveAt(@, i)]
       /\ idle' = [idle EXCEPT ![p] = @ - 1]
       /\ SetTop(p, [Top(p) EXCEPT !.conn = head[p][i], !.phase = "probe"])
  /\ UNCHANGED <<since, guard, held, open, connVars, clock, inherited, forked, shut>>

\* No match left: the caller dials.
AcquireMiss(p) ==
  /\ InCall(p, "acquire", "scan")
  /\ Matches(p) = {}
  /\ Pop(p)
  /\ UNCHANGED <<poolVars, held, open, connVars, clock, inherited, forked, shut>>

\* The entry has not expired and its stream is not readable, or cannot tell.
AcquireAsk(p) ==
  /\ InCall(p, "acquire", "probe")
  /\ ~Unusable(p, Top(p).conn, Top(p).at)
  /\ SetTop(p, [Top(p) EXCEPT !.phase = "asked"])
  /\ UNCHANGED <<poolVars, held, open, connVars, clock, inherited, forked, shut>>

\* The entry failed a check; over HTTP/2 also when the keepalive PING that
\* follows got no answer (module H2), or an interrupt or the request's
\* deadline ended the probe.  The list is read again from its head.
AcquireDiscard(p) ==
  LET c == Top(p).conn IN
  /\ \/ InCall(p, "acquire", "probe") /\ (Unusable(p, c, Top(p).at) \/ c \in H2)
     \/ InCall(p, "acquire", "asked") /\ c \in H2
  /\ Close(p, {c})
  /\ SetTop(p, [Top(p) EXCEPT !.conn = None, !.phase = "scan"])
  /\ UNCHANGED <<poolVars, held, connVars, clock, inherited, forked>>

\* No PING was due, or its ACK came.  Nothing is asked again: the peer may
\* have left since, in the very read that brought the ACK.
AcquireHit(p) ==
  /\ InCall(p, "acquire", "asked")
  /\ held' = [held EXCEPT ![p] = @ \cup {Top(p).conn}]
  /\ Pop(p)
  /\ UNCHANGED <<poolVars, open, connVars, clock, inherited, forked, shut>>
-----------------------------------------------------------------------------
(* zuh_pool_release()                                                      *)

\* An HTTP/2 probe waits in ticks, so a finalizer may run inside it.
Ticking(p) == /\ stack[p] # <<>> /\ Top(p).phase \in Waiting /\ Top(p).conn \in H2
              /\ Len(stack[p]) < MaxDepth

\* The holder hands c back; reuse is the caller's section 26.3 verdict.
ReleaseBegin(p, c, reuse) ==
  /\ Running(p) /\ c \in held[p]
  /\ stack[p] = <<>> \/ Ticking(p)
  /\ CheckFork(p)
  /\ held' = [held EXCEPT ![p] = @ \ {c}]
  /\ IF reuse
       THEN /\ open' = [open EXCEPT ![p] = OpenChecked(p)]
            /\ Push(p, [op |-> "release", key |-> key[c], conn |-> c,
                        at |-> clock, left |-> {}, phase |-> "probe"])
            /\ UNCHANGED shut
       ELSE /\ open' = [open EXCEPT ![p] = OpenChecked(p) \ {c}]
            /\ Shut(p, {c})
            /\ UNCHANGED stack
  /\ UNCHANGED <<since, connVars, clock, inherited, forked>>

\* Readable at release, pooling off, or no memory for the entry; an HTTP/2
\* probe that is interrupted also counts as readable.
ReleaseClose(p) ==
  /\ InCall(p, "release", "probe")
  /\ Close(p, {Top(p).conn})
  /\ Pop(p)
  /\ UNCHANGED <<poolVars, held, connVars, clock, inherited, forked>>

SameHost(p) == {i \in DOMAIN head[p] : HostOf[key[head[p][i]]] = HostOf[Top(p).key]}

\* Faulty: the counter is not taken down with the entry.
EvictUncounted(p, I) ==
  IF I = {} THEN UNCHANGED <<head, idle, open, shut>>
  ELSE \E i \in I :
         /\ \A j \in I : j <= i
         /\ head' = [head EXCEPT ![p] = RemoveAt(@, i)]
         /\ Close(p, {head[p][i]})
         /\ UNCHANGED idle

\* Drop the last entry of the list whose index is in I, if there is one.
EvictOldest(p, I) ==
  IF I = {} THEN UNCHANGED <<head, idle, open, shut>>
  ELSE \E i \in I :
         /\ \A j \in I : j <= i
         /\ head' = [head EXCEPT ![p] = RemoveAt(@, i)]
         /\ idle' = [idle EXCEPT ![p] = @ - 1]
         /\ Close(p, {head[p][i]})

\* Faulty: room is made only when the host is over its limit already.
HostRoomLate(p) ==
  LET c == Top(p).conn IN
  /\ InCall(p, "release", "probe")
  /\ ~Stale(c) /\ MaxIdle > 0
  /\ since' = [since EXCEPT ![p][c] = clock]
  /\ IF MaxPerHost > 0 /\ Cardinality(SameHost(p)) > MaxPerHost
       THEN EvictOldest(p, SameHost(p))
       ELSE UNCHANGED <<head, idle, open, shut>>
  /\ SetTop(p, [Top(p) EXCEPT !.phase = "room"])
  /\ UNCHANGED <<guard, held, connVars, clock, inherited, forked>>

\* The entry is made and stamped; a full host gives up its oldest entry.
ReleaseHostRoom(p) ==
  LET c == Top(p).conn IN
  /\ InCall(p, "release", "probe")
  /\ ~Stale(c) /\ MaxIdle > 0
  /\ since' = [since EXCEPT ![p][c] = clock]
  /\ IF MaxPerHost > 0 /\ Cardinality(SameHost(p)) >= MaxPerHost
       THEN EvictOldest(p, SameHost(p))
       ELSE UNCHANGED <<head, idle, open, shut>>
  /\ SetTop(p, [Top(p) EXCEPT !.phase = "room"])
  /\ UNCHANGED <<guard, held, connVars, clock, inherited, forked>>

\* One turn of `while (p->idle >= p->cfg.max_idle) evict_oldest(p, NULL)`.
ReleaseEvict(p) ==
  /\ InCall(p, "release", "room")
  /\ idle[p] >= MaxIdle
  /\ EvictOldest(p, DOMAIN head[p])
  /\ UNCHANGED <<since, guard, stack, held, connVars, clock, inherited, forked>>

\* Faulty: one entry too many.
LinkWhenFull(p) ==
  /\ InCall(p, "release", "room")
  /\ idle[p] <= MaxIdle
  /\ head' = [head EXCEPT ![p] = <<Top(p).conn>> \o @]
  /\ idle' = [idle EXCEPT ![p] = @ + 1]
  /\ Pop(p)
  /\ UNCHANGED <<since, guard, held, open, connVars, clock, inherited, forked, shut>>

ReleaseLink(p) ==
  /\ InCall(p, "release", "room")
  /\ idle[p] < MaxIdle
  /\ head' = [head EXCEPT ![p] = <<Top(p).conn>> \o @]
  /\ idle' = [idle EXCEPT ![p] = @ + 1]
  /\ Pop(p)
  /\ UNCHANGED <<since, guard, held, open, connVars, clock, inherited, forked, shut>>
-----------------------------------------------------------------------------
(* The rest of the pool's interface, and the pool's surroundings.          *)

\* zuh_pool_clear(), behind zu_pool_reset(): no fork check, a full close.
Clear(p) ==
  /\ Running(p) /\ stack[p] = <<>>
  /\ head' = [head EXCEPT ![p] = <<>>]
  /\ idle' = [idle EXCEPT ![p] = 0]
  /\ Close(p, ToSet(head[p]))
  /\ UNCHANGED <<since, guard, stack, held, connVars, clock, inherited, forked>>

\* The client is collected: pool_finalizer() frees its pool, which runs the
\* fork guard and else clears.  A pulled body keeps its pool reachable.  The
\* next client makes a new, armed pool.
FreeAndRenew(p) ==
  /\ Running(p) /\ stack[p] = <<>> /\ held[p] = {}
  /\ head'  = [head  EXCEPT ![p] = <<>>]
  /\ idle'  = [idle  EXCEPT ![p] = 0]
  /\ guard' = [guard EXCEPT ![p] = p]
  /\ open'  = [open  EXCEPT ![p] = @ \ ToSet(head[p])]
  /\ IF Tripped(p) THEN UNCHANGED shut ELSE Shut(p, ToSet(head[p]))
  /\ UNCHANGED <<since, stack, held, connVars, clock, inherited, forked>>

\* open_stream() dials after a miss; the connection is the request's.
Dial(p, c, k) ==
  /\ Running(p) /\ stack[p] = <<>>
  /\ maker[c] = None
  /\ maker' = [maker EXCEPT ![c] = p]
  /\ key' = [key EXCEPT ![c] = k]
  /\ held' = [held EXCEPT ![p] = @ \cup {c}]
  /\ open' = [open EXCEPT ![p] = @ \cup {c}]
  /\ UNCHANGED <<poolVars, stack, peer, clock, inherited, forked, shut>>

\* fork() from R code: at top level or in a callback of a request.  The child
\* gets a copy of the parent's memory and its descriptors.
Fork ==
  /\ MaxForks = 1 /\ ~forked /\ stack[Parent] = <<>>
  /\ forked' = TRUE
  /\ head'  = [head  EXCEPT ![Child] = head[Parent]]
  /\ since' = [since EXCEPT ![Child] = since[Parent]]
  /\ idle'  = [idle  EXCEPT ![Child] = idle[Parent]]
  /\ guard' = [guard EXCEPT ![Child] = guard[Parent]]
  /\ held'  = [held  EXCEPT ![Child] = held[Parent]]
  /\ open'  = [open  EXCEPT ![Child] = open[Parent]]
  /\ inherited' = ToSet(head[Parent])
  /\ UNCHANGED <<stack, connVars, clock, shut>>

\* The peer closes, or sends bytes that no request asked for.
PeerLeaves(c) ==
  /\ maker[c] # None /\ peer[c] = "live"
  /\ peer' = [peer EXCEPT ![c] = "closed"]
  /\ UNCHANGED <<poolVars, stack, held, open, maker, key, clock, inherited, forked, shut>>

Tick ==
  /\ clock < MaxClock
  /\ clock' = clock + 1
  /\ UNCHANGED <<poolVars, stack, held, open, connVars, inherited, forked, shut>>
-----------------------------------------------------------------------------
Init ==
  /\ head  = [p \in Procs |-> <<>>]
  /\ since = [p \in Procs |-> [c \in Conns |-> 0]]
  /\ idle  = [p \in Procs |-> 0]
  /\ guard = [p \in Procs |-> Parent]
  /\ stack = [p \in Procs |-> <<>>]
  /\ held  = [p \in Procs |-> {}]
  /\ open  = [p \in Procs |-> {}]
  /\ maker = [c \in Conns |-> None]
  /\ key   = [c \in Conns |-> None]
  /\ peer  = [c \in Conns |-> "live"]
  /\ clock = 0
  /\ inherited = {}
  /\ forked = FALSE
  /\ shut = {}

\* The steps of the running pool call of p: what the code itself does next.
CallStep(p) ==
  \/ AcquireUnlink(p) \/ AcquireMiss(p)
  \/ AcquireAsk(p) \/ AcquireDiscard(p) \/ AcquireHit(p)
  \/ ReleaseClose(p) \/ ReleaseHostRoom(p) \/ ReleaseEvict(p) \/ ReleaseLink(p)

Next ==
  \/ \E p \in Procs :
       \/ CallStep(p)
       \/ \E k \in Keys : AcquireBegin(p, k) \/ \E c \in Conns : Dial(p, c, k)
       \/ \E c \in Conns, reuse \in BOOLEAN : ReleaseBegin(p, c, reuse)
       \/ Clear(p) \/ FreeAndRenew(p)
  \/ Fork
  \/ \E c \in Conns : PeerLeaves(c)
  \/ Tick

Spec == Init /\ [][Next]_vars

\* A running pool call goes on: nothing in zuh_pool.c waits without a bound.
FairSpec == Spec /\ \A p \in Procs : WF_vars(CallStep(p))
-----------------------------------------------------------------------------
(* Properties                                                              *)

Idle(p)   == ToSet(head[p])
InHand(s) == {s[i].conn : i \in DOMAIN s} \ {None}
Probed(p) == InHand(stack[p])

\* Every variable has its type; a call at "scan" has no connection in hand.
TypeOK ==
  /\ head  \in [Procs -> Seq(Conns)]
  /\ since \in [Procs -> [Conns -> Nat]]
  /\ idle  \in [Procs -> Int]
  /\ guard \in [Procs -> Procs]
  /\ stack \in [Procs -> Seq(Call)]
  /\ held  \in [Procs -> SUBSET Conns]
  /\ open  \in [Procs -> SUBSET Conns]
  /\ maker \in [Conns -> Procs \cup {None}]
  /\ key   \in [Conns -> Keys \cup {None}]
  /\ peer  \in [Conns -> {"live", "closed"}]
  /\ clock \in Nat
  /\ inherited \subseteq Conns
  /\ forked \in BOOLEAN
  /\ shut \subseteq Conns

\* One process: list h, call stack s, held connections and open connections.
OneOwnerEach(h, s, hold, opened) ==
  /\ opened = ToSet(h) \cup InHand(s) \cup hold
  /\ ToSet(h) \cap InHand(s) = {}
  /\ ToSet(h) \cap hold = {}
  /\ InHand(s) \cap hold = {}
  /\ \A i, j \in DOMAIN h : h[i] = h[j] => i = j
  /\ \A i, j \in DOMAIN s : s[i].conn = s[j].conn /\ s[i].conn # None => i = j

\* In each process every open connection has exactly one owner: an entry of
\* the idle list, a pool call in progress, or a holder.  Nothing that is
\* owned has been freed and nothing that is open has been lost, however
\* finalizers nest inside probes (zuh_pool.c 276-281).
OwnedOnce ==
  \A p \in Procs : OneOwnerEach(head[p], stack[p], held[p], open[p])

\* The counter that steers eviction is the length of the list, and the list
\* stays within max_idle, also when a nested release filled it up while the
\* outer call was probing.
WithinMaxIdle ==
  \A p \in Procs : idle[p] = Len(head[p]) /\ Len(head[p]) <= MaxIdle

\* What makes the properties above inductive: only dialled connections are
\* open, a call has a connection in hand exactly when it is past its scan,
\* and no call of the child precedes the child.
OpenIsDialled ==
  \A p \in Procs : \A c \in open[p] : maker[c] # None /\ key[c] \in Keys
WellShaped(s) == \A i \in DOMAIN s : s[i].conn = None <=> s[i].phase = "scan"
CallShape == \A p \in Procs : WellShaped(stack[p])
ChildNotYet == ~forked => stack[Child] = <<>>

IInv == TypeOK /\ OwnedOnce /\ WithinMaxIdle /\ OpenIsDialled /\ CallShape /\ ChildNotYet

\* No host has more than max_per_host idle connections, whatever their keys.
WithinMaxPerHost ==
  MaxPerHost > 0 =>
    \A p \in Procs, k \in Keys :
      Cardinality({i \in DOMAIN head[p] : HostOf[key[head[p][i]]] = HostOf[k]})
        <= MaxPerHost

\* What makes it inductive, and HitsAreSound with it: a call nests only in the
\* probe of another, a connection in hand has the key of its call, and a
\* release that has made room still has it when it links its entry.
NestedInProbe(s) == \A i \in DOMAIN s : i # Len(s) => s[i].phase \in Waiting
KeysInHand(s) == \A i \in DOMAIN s : s[i].conn # None => key[s[i].conn] = s[i].key
RoomMade(p) ==
  InCall(p, "release", "room") /\ MaxPerHost > 0 => Cardinality(SameHost(p)) < MaxPerHost
HInv ==
  /\ WithinMaxPerHost
  /\ \A p \in Procs : NestedInProbe(stack[p]) /\ KeysInHand(stack[p]) /\ RoomMade(p)

Hit(p, c) ==
  /\ stack[p] # <<>> /\ stack'[p] = Front(stack[p])
  /\ c \in held'[p] \ held[p]

\* Between an acquisition's question and its answer to the caller an HTTP/2
\* PING may wait, releases nest and peers leave.  Whatever they do, a
\* connection handed out has the key that was asked for, its peer had not left
\* before the acquisition began, unless its stream cannot tell, and it had not
\* expired then.
HitsAreSound ==
  [][\A p \in Procs, c \in Conns : Hit(p, c) =>
       /\ key[c] = Top(p).key
       /\ c \notin Top(p).left
       /\ IdleTimeout > 0 => Top(p).at - since[p][c] < IdleTimeout]_vars

\* What makes it inductive: peers do not come back, and what the question
\* found holds of the connection in hand until it is handed out, though nested
\* releases stamp other entries.
CallSound(p, e) ==
  /\ e.left \subseteq Gone
  /\ e.phase = "asked" => e.conn \notin e.left /\ ~Expired(p, e.conn, e.at)
SInv == \A p \in Procs : \A i \in DOMAIN stack[p] : CallSound(p, stack[p][i])

\* Section 26.4: a connection that was idle in the parent's pool at the fork
\* never reaches a request of the child, and the first acquire, release or
\* free of the child drops it from the child's pool.
InheritedIdleDropped ==
  /\ inherited \cap (held[Child] \cup Probed(Child)) = {}
  /\ guard[Child] = Child => inherited \cap Idle(Child) = {}

\* A pool call always returns: neither the rescan after a discarded entry nor
\* the eviction loop can go round for ever.
CallsReturn == \A p \in Procs : stack[p] # <<>> ~> stack[p] = <<>>

\* Section 26.4: a process closes, with a TLS shutdown, only connections that
\* it dialled itself; one it inherited it forgets.
ClosedByMaker == shut = {}
=============================================================================
