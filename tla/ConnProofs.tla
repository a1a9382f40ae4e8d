----------------------------- MODULE ConnProofs -----------------------------
(***************************************************************************)
(* Proofs about Conn with Net and Tls under it, for any requests, any      *)
(* peers that keep to a script, any deadline and tick and any number of    *)
(* addresses.                                                              *)
(*                                                                         *)
(* The lemmas on sequences and on a peer's script come first; then one     *)
(* lemma per action says that it keeps IInv, in the order of what it       *)
(* moves: nothing, the place, units; then the theorems.                    *)
(***************************************************************************)
EXTENDS Conn, SequenceTheorems, FiniteSetTheorems, TLAPS

\* A sequence cut in two.
LEMMA Cut ==
  ASSUME NEW S, NEW s \in Seq(S), NEW n \in 0..Len(s)
  PROVE  /\ SubSeq(s, 1, n) \in Seq(S) /\ Len(SubSeq(s, 1, n)) = n
         /\ \A i \in 1..n : SubSeq(s, 1, n)[i] = s[i]
         /\ SubSeq(s, n + 1, Len(s)) \in Seq(S)
         /\ Len(SubSeq(s, n + 1, Len(s))) = Len(s) - n
         /\ \A i \in 1..Len(s) - n : SubSeq(s, n + 1, Len(s))[i] = s[n + i]
<1>1. Len(s) \in Nat /\ \A i \in 1..Len(s) : s[i] \in S
  OBVIOUS
<1>2. /\ SubSeq(s, 1, n) \in Seq(S) /\ Len(SubSeq(s, 1, n)) = n
      /\ \A i \in 1..n : SubSeq(s, 1, n)[i] = s[i]
  BY <1>1, SubSeqProperties
<1> DEFINE t == SubSeq(s, n + 1, Len(s))
<1>3. /\ t \in Seq(S) /\ Len(t) = IF n + 1 <= Len(s) THEN Len(s) - (n + 1) + 1 ELSE 0
      /\ \A i \in 1..(Len(s) - (n + 1) + 1) : t[i] = s[n + 1 + i - 1]
  BY <1>1, SubSeqProperties
<1>4. Len(t) = Len(s) - n
  BY <1>1, <1>3
<1>5. \A i \in 1..Len(s) - n : t[i] = s[n + i]
  <2> TAKE i \in 1..Len(s) - n
  <2>1. i \in 1..(Len(s) - (n + 1) + 1) /\ n + 1 + i - 1 = n + i
    BY <1>1
  <2>2. QED BY <1>3, <2>1
<1>6. QED BY <1>2, <1>3, <1>4, <1>5

\* The units of one kind, when they are next to each other.
LEMMA CountOfInterval ==
  ASSUME NEW b \in Seq(Units), NEW k, NEW lo \in Nat, NEW hi \in Nat,
         lo <= hi, hi <= Len(b),
         \A i \in DOMAIN b : b[i][1] = k <=> lo < i /\ i <= hi
  PROVE  Count(k, b) = hi - lo
<1>1. {i \in DOMAIN b : b[i][1] = k} = (lo + 1)..hi
  OBVIOUS
<1>2. Cardinality((lo + 1)..hi) = IF lo + 1 > hi THEN 0 ELSE hi - (lo + 1) + 1
  BY FS_Interval
<1>3. Count(k, b) = Cardinality((lo + 1)..hi)
  BY <1>1 DEF Count
<1>4. QED BY <1>2, <1>3

LEMMA CountNone ==
  ASSUME NEW b \in Seq(Units), NEW k, \A i \in DOMAIN b : b[i][1] # k
  PROVE  Count(k, b) = 0
<1>1. {i \in DOMAIN b : b[i][1] = k} = {}
  OBVIOUS
<1>2. QED BY <1>1, FS_EmptySet DEF Count

\* Where the parts of a peer's script are.
Parts(p, b, c, d) ==
  LET a == AnswerLen(p) IN
  /\ a \in Nat /\ b \in Nat /\ c \in Nat /\ d \in Nat
  /\ a <= b /\ b <= c /\ c <= d /\ d <= Len(p.script) /\ Len(p.script) <= d + 1
  /\ c - b <= HsLen(p) /\ Count("r", p.script) = d - c
  /\ \A i \in DOMAIN p.script :
       /\ p.script[i][1] \in {"c", "no"} <=> i <= a
       /\ i <= a /\ p.script[i][2] = 2 => i = a
       /\ p.script[i][1] = "h" <=> b < i /\ i <= c
       /\ p.script[i][1] = "r" <=> c < i /\ i <= d
       /\ c < i /\ i <= d => p.script[i][2] = i - c
       /\ p.script[i][1] = "fin" <=> d < i

LEMMA ScriptParts ==
  ASSUME NEW p \in Peers
  PROVE  p.script \in Seq(Units) /\ \E b, c, d \in Nat : Parts(p, b, c, d)
<1> DEFINE s == p.script
<1>1. s \in Seq(Units) /\ Len(s) \in Nat /\ DOMAIN s = 1..Len(s)
  BY ConnAssumption DEF Scripted
<1>2. PICK a \in 0..Len(s), b \in 0..Len(s), c \in 0..Len(s), d \in 0..Len(s) :
        /\ a <= b /\ b <= c /\ c <= d /\ Len(s) <= d + 1
        /\ c - b <= HsLen(p)
        /\ \A i \in DOMAIN s :
             /\ i <= a => s[i][1] \in {"c", "no"} /\ (s[i][2] = 2 => i = a)
             /\ a < i /\ i <= b => s[i][1] = "x"
             /\ b < i /\ i <= c => s[i] = <<"h", i - b>>
             /\ c < i /\ i <= d => s[i] = <<"r", i - c>>
             /\ d < i => s[i][1] = "fin"
  BY ConnAssumption DEF Scripted
<1>3. \A i \in DOMAIN s :
        /\ s[i][1] \in {"c", "no"} <=> i <= a
        /\ s[i][1] = "h" <=> b < i /\ i <= c
        /\ s[i][1] = "r" <=> c < i /\ i <= d
        /\ s[i][1] = "fin" <=> d < i
        /\ c < i /\ i <= d => s[i][2] = i - c
  <2> SUFFICES ASSUME NEW i \in DOMAIN s
               PROVE  /\ s[i][1] \in {"c", "no"} <=> i <= a
                      /\ s[i][1] = "h" <=> b < i /\ i <= c
                      /\ s[i][1] = "r" <=> c < i /\ i <= d
                      /\ s[i][1] = "fin" <=> d < i
                      /\ c < i /\ i <= d => s[i][2] = i - c
    OBVIOUS
  <2> HIDE DEF s
  <2>1. CASE i <= a
    BY <1>1, <1>2, <2>1
  <2>2. CASE a < i /\ i <= b
    BY <1>1, <1>2, <2>2
  <2>3. CASE b < i /\ i <= c
    <3>1. s[i] = <<"h", i - b>>
      BY <1>1, <1>2, <2>3
    <3>2. QED BY <1>1, <1>2, <2>3, <3>1
  <2>4. CASE c < i /\ i <= d
    <3>1. s[i] = <<"r", i - c>>
      BY <1>1, <1>2, <2>4
    <3>2. QED BY <1>1, <1>2, <2>4, <3>1
  <2>5. CASE d < i
    BY <1>1, <1>2, <2>5
  <2>6. QED BY <1>1, <1>2, <2>1, <2>2, <2>3, <2>4, <2>5
<1>4. AnswerLen(p) = a
  <2> DEFINE C == {i \in DOMAIN s : s[i][1] = "c"}
             N == {i \in DOMAIN s : s[i][1] = "no"}
  <2>1. C \in SUBSET (1..Len(s)) /\ N \in SUBSET (1..Len(s))
    BY <1>1
  <2>2. IsFiniteSet(1..Len(s))
    BY <1>1, FS_Interval
  <2>3. IsFiniteSet(C) /\ IsFiniteSet(N)
    BY <2>1, <2>2, FS_Subset
  <2>4. C \cup N = 1..a /\ C \cap N = {}
    <3>1. \A i \in DOMAIN s : s[i][1] \in {"c", "no"} <=> i <= a
      BY <1>3
    <3>2. 1..a \subseteq DOMAIN s
      BY <1>1, <1>2
    <3>3. QED BY <1>1, <3>1, <3>2
  <2>5. Cardinality(C) \in Nat /\ Cardinality(N) \in Nat
    BY <2>3, FS_CardinalityType
  <2>6. Cardinality(C \cup N) = Cardinality(C) + Cardinality(N) - 0
    <3>1. Cardinality(C \cup N) = Cardinality(C) + Cardinality(N) - Cardinality(C \cap N)
      BY <2>3, FS_Union
    <3>2. Cardinality(C \cap N) = 0
      BY <2>4, FS_EmptySet
    <3>3. QED BY <3>1, <3>2
  <2>7. Cardinality(1..a) = a
    BY FS_Interval
  <2>8. AnswerLen(p) = Cardinality(C) + Cardinality(N)
    BY DEF AnswerLen, Count
  <2> HIDE DEF C, N
  <2>9. Cardinality(C \cup N) = a
    BY <2>4, <2>7
  <2>10. QED BY <2>5, <2>6, <2>8, <2>9
<1>5. Count("r", s) = d - c
  <2>1. c \in Nat /\ d \in Nat /\ c <= d /\ d <= Len(s)
    BY <1>1, <1>2
  <2>2. \A i \in DOMAIN s : s[i][1] = "r" <=> c < i /\ i <= d
    BY <1>3
  <2> HIDE DEF s
  <2>3. QED BY <1>1, <2>1, <2>2, CountOfInterval
<1>6. Parts(p, b, c, d)
  BY <1>1, <1>2, <1>3, <1>4, <1>5 DEF Parts
<1>7. QED BY <1>1, <1>6
-----------------------------------------------------------------------------
(* Steps that leave the place as it is.                                    *)

LEMMA Frame ==
  ASSUME IInv, TypeOK', InTime', At' = At,
         UNCHANGED <<fds, sock, held, misused, cfg, peer, hs, sent>>,
         UNCHANGED <<raw, fed, buf, dec, out, peer_closed>>,
         InOrder'
  PROVE  IInv'
<1>1. AsConfigured'
  BY DEF IInv, AsConfigured
<1>2. Holding'
  BY DEF IInv, Holding, TlsUp, TlsShaken
<1>3. Checked'
  BY DEF IInv, Checked, TlsUp, TlsShaken, OpenSSL, Verdict
<1>4. Accounted'
  BY DEF IInv, Accounted, TlsUp, TlsShaken, OpenSSL
<1>5. QED BY <1>1, <1>2, <1>3, <1>4 DEF IInv

\* Nothing but the clock, the results and what no invariant speaks of.
LEMMA Idle ==
  ASSUME IInv, TypeOK', InTime', At' = At, Coming' = Coming, wire' = wire,
         UNCHANGED <<fds, sock, held, misused, cfg, peer, hs, sent>>,
         UNCHANGED <<raw, fed, buf, dec, out, peer_closed>>
  PROVE  IInv'
<1>1. InOrder'
  BY DEF IInv, InOrder, TlsUp, TlsShaken
<1>2. QED BY <1>1, Frame

\* A step that fails: the engine holds what it held, or what it held before
\* the TLS stream, and drops that next.
LEMMA Drops ==
  ASSUME IInv, At \in Opening \cup Shaking \cup Using \cup {"open"},
         pc' = "dropping", held' = held \/ held' = held \ {"tls"},
         UNCHANGED <<now, dns, addr, fds, sock, misused, sent, dec, out, cfg, peer>>,
         hs' \in Nat, {wire', raw', buf', fed', in.units'} \subseteq Seq(Units)
  PROVE  IInv'
<1>1. At' = "dropping"
  BY DEF At
<1>2. TypeOK' /\ InTime' /\ AsConfigured'
  BY <1>1 DEF IInv, TypeOK, InTime, AsConfigured, Opening, Shaking, Using, Over
<1>3. Holding'
  <2>1. fds = {sock} /\ sock # 0 /\ ~misused
    BY DEF IInv, Holding
  <2>2. held = {"tcp"} \/ held = {"tcp", "tls"}
    BY DEF IInv, Holding, TlsUp, TlsShaken
  <2>3. held' = {"tcp"} \/ held' = {"tcp", "tls"}
    BY <2>2
  <2>4. ~TlsUp'
    BY <1>1 DEF TlsUp, TlsShaken, Shaking, Using
  <2>5. QED BY <1>1, <2>1, <2>3, <2>4 DEF Holding, Opening, Shaking, Using
<1>4. ~TlsUp' /\ ~TlsShaken'
  BY <1>1 DEF TlsUp, TlsShaken, Shaking, Using
<1>5. Checked'
  BY <1>4 DEF Checked
<1>6. InOrder'
  BY <1>1, <1>4 DEF IInv, InOrder, Opening, Over
<1>7. Accounted'
  BY <1>1, <1>4 DEF IInv, Accounted, Opening, Over
<1>8. QED BY <1>2, <1>3, <1>5, <1>6, <1>7 DEF IInv
-----------------------------------------------------------------------------
(* Net.                                                                    *)

LEMMA MinOfTwo ==
  ASSUME NEW a \in Int, NEW b \in Int
  PROVE  Min({a, b}) \in {a, b} /\ Min({a, b}) <= a /\ Min({a, b}) <= b
<1>1. \E x \in {a, b} : \A y \in {a, b} : x <= y
  <2>1. CASE a <= b
    BY <2>1
  <2>2. CASE b <= a
    BY <2>2
  <2>3. QED BY <2>1, <2>2
<1>2. QED BY <1>1 DEF Min

LEMMA MaxOfTwo ==
  ASSUME NEW a \in Int, NEW b \in Int
  PROVE  Max({a, b}) \in {a, b} /\ Max({a, b}) >= a /\ Max({a, b}) >= b
<1>1. \E x \in {a, b} : \A y \in {a, b} : x >= y
  <2>1. CASE a >= b
    BY <2>1
  <2>2. CASE b >= a
    BY <2>2
  <2>3. QED BY <2>1, <2>2
<1>2. QED BY <1>1 DEF Max

\* A wait ends at the deadline.
LEMMA SliceInTime ==
  ASSUME now \in Nat, Slice
  PROVE  now' \in Nat /\ now' <= Deadline
<1> DEFINE m == Min({TickMs, Deadline - now})
<1>1. now < Deadline /\ Deadline \in Nat /\ TickMs \in Nat \ {0}
  BY NetAssumption DEF Slice, Expired
<1>2. m \in {TickMs, Deadline - now} /\ m <= Deadline - now
  BY <1>1, MinOfTwo
<1>3. now' = now + m
  BY DEF Slice, PollMs
<1> HIDE DEF m
<1>4. QED BY <1>1, <1>2, <1>3

LEMMA SliceInv ==
  ASSUME IInv, ConnectSlice \/ RecvSlice \/ SendSlice, UNCHANGED <<tlsVars, connVars>>
  PROVE  IInv'
<1>1. /\ Slice /\ dns' = dns /\ At' = At /\ Coming' = Coming
      /\ UNCHANGED <<addr, fds, sock, held, misused, cfg, peer, hs, sent>>
      /\ UNCHANGED <<wire, raw, fed, buf, dec, out, peer_closed, in, pc, back>>
  BY DEF ConnectSlice, RecvSlice, SendSlice, sockets, peerEnd, call, codes, tlsVars,
     request, engine, given, connVars, At, Coming
<1>2. now' \in Nat /\ now' <= Deadline
  BY <1>1, SliceInTime DEF IInv, TypeOK
<1>3. TypeOK' /\ InTime'
  BY <1>1, <1>2 DEF IInv, TypeOK, InTime
<1>4. QED BY <1>1, <1>3, Idle

LEMMA ResolveInv ==
  ASSUME IInv, Resolve, UNCHANGED <<tlsVars, connVars>>
  PROVE  IInv'
<1>1. /\ pc = "resolve" /\ now' \in Nat /\ dns' = now'
      /\ \/ pc' = "address" /\ held' = {"tcp"}
         \/ pc' = "failed" /\ held' = held
      /\ UNCHANGED <<addr, fds, sock, misused, cfg, peer, hs, sent>>
      /\ UNCHANGED <<wire, raw, fed, buf, dec, out, peer_closed, in, back>>
  BY NetAssumption DEF Resolve, peerEnd, call, tlsVars, request, engine, given, connVars
<1>2. At = "resolve" /\ At' = pc' /\ At' \in {"address", "failed"}
  BY <1>1 DEF At
<1>3. ~TlsUp' /\ ~TlsShaken' /\ ~TlsShaken
  BY <1>2 DEF TlsUp, TlsShaken, Shaking, Using
<1>4. TypeOK' /\ InTime' /\ AsConfigured' /\ Checked'
  BY <1>1, <1>2, <1>3 DEF IInv, TypeOK, InTime, AsConfigured, Checked, Over, Opening, Shaking, Using
<1>5. Holding'
  BY <1>1, <1>2, <1>3 DEF IInv, Holding, Opening, Shaking, Using
<1>6. InOrder'
  <2>1. Coming = <<>> /\ Coming' = <<>>
    BY <1>1, <1>2 DEF Coming
  <2>2. QED BY <1>1, <1>2, <1>3, <2>1 DEF IInv, InOrder, Opening, Over
<1>7. Accounted'
  BY <1>1, <1>2, <1>3 DEF IInv, Accounted, Opening, Over
<1>8. QED BY <1>4, <1>5, <1>6, <1>7 DEF IInv

LEMMA AddressInv ==
  ASSUME IInv, NextAddress \/ NoAddressLeft, UNCHANGED <<tlsVars, connVars>>
  PROVE  IInv'
<1>1. /\ pc = "address" /\ misused' = misused
      /\ \/ pc' = "address" /\ UNCHANGED <<fds, sock, held>> /\ addr' = addr + 1
         \/ /\ pc' \in {"connected", "connecting"} /\ fds' = fds \cup {addr'} /\ sock' = addr'
            /\ held' = held /\ addr' = addr + 1
         \/ pc' = "failed" /\ UNCHANGED <<fds, sock, addr>> /\ held' = held \ {"tcp"}
      /\ UNCHANGED <<now, dns, cfg, peer, hs, sent>>
      /\ UNCHANGED <<wire, raw, fed, buf, dec, out, peer_closed, in, back>>
  BY DEF NextAddress, NoAddressLeft, ConnectFails, clock, peerEnd, call, tlsVars, request,
     engine, given, connVars
<1>2. At = "address" /\ At' = pc' /\ At' \in {"address", "connected", "connecting", "failed"}
  BY <1>1 DEF At
<1>3. ~TlsUp' /\ ~TlsShaken' /\ ~TlsShaken
  BY <1>2 DEF TlsUp, TlsShaken, Shaking, Using
<1>4. /\ TypeOK' /\ InTime' /\ AsConfigured' /\ Checked'
  BY <1>1, <1>2, <1>3 DEF IInv, TypeOK, InTime, AsConfigured, Checked, Over, Opening, Shaking, Using
<1>5. Holding'
  <2>1. fds = {} /\ sock = 0 /\ held = {"tcp"} /\ addr \in Nat /\ ~misused
    BY <1>2 DEF IInv, Holding, TypeOK
  <2>2. CASE pc' = "address" /\ UNCHANGED <<fds, sock, held>>
    BY <1>1, <1>2, <1>3, <2>1, <2>2 DEF Holding, Opening, Shaking, Using
  <2>3. CASE /\ pc' \in {"connected", "connecting"} /\ fds' = fds \cup {addr'}
             /\ sock' = addr' /\ held' = held /\ addr' = addr + 1
    <3>1. fds' = {sock'} /\ sock' # 0
      BY <2>1, <2>3
    <3>2. QED BY <1>1, <1>2, <1>3, <2>1, <2>3, <3>1 DEF Holding, Opening, Shaking, Using
  <2>4. CASE pc' = "failed" /\ UNCHANGED <<fds, sock>> /\ held' = held \ {"tcp"}
    <3>1. held' = {}
      BY <2>1, <2>4
    <3>2. QED BY <1>1, <1>2, <1>3, <2>1, <2>4, <3>1 DEF Holding, Opening, Shaking, Using
  <2>5. QED BY <1>1, <2>2, <2>3, <2>4
<1>6. InOrder'
  <2>1. Coming = <<>> /\ Coming' = <<>>
    BY <1>1, <1>2 DEF Coming
  <2>2. sent = 0 /\ Len(raw) + Len(fed) + Len(wire) = 0 /\ raw = <<>> /\ fed = <<>>
    <3>1. /\ sent = 0
          /\ Len(raw) + Len(fed) + Len(Coming) + Len(wire) = sent
      BY <1>2 DEF IInv, InOrder, Over
    <3>2. raw \in Seq(Units) /\ fed \in Seq(Units) /\ wire \in Seq(Units)
      BY DEF IInv, TypeOK
    <3>3. Len(raw) \in Nat /\ Len(fed) \in Nat /\ Len(wire) \in Nat /\ Len(Coming) = 0
      BY <2>1, <3>2
    <3>4. QED BY <3>1, <3>2, <3>3, EmptySeq
  <2>3. QED BY <1>1, <1>2, <1>3, <2>1, <2>2 DEF IInv, InOrder, Opening, Over
<1>7. Accounted'
  BY <1>1, <1>2, <1>3 DEF IInv, Accounted, Opening, Over
<1>8. QED BY <1>4, <1>5, <1>6, <1>7 DEF IInv
LEMMA ConnectInv ==
  ASSUME IInv, ConnectReady \/ \E code \in {"TIMEOUT", "CANCELLED", "IO"} : ConnectStops(code),
         UNCHANGED <<tlsVars, connVars>>
  PROVE  IInv'
<1>1. /\ pc = "connecting" /\ misused' = misused
      /\ \/ pc' = "connected" /\ UNCHANGED <<fds, sock, held>>
         \/ pc' = "address" /\ fds' = fds \ {sock} /\ sock' = 0 /\ held' = held
         \/ pc' = "failed" /\ fds' = fds \ {sock} /\ sock' = 0 /\ held' = held \ {"tcp"}
      /\ UNCHANGED <<now, dns, addr, cfg, peer, hs, sent>>
      /\ UNCHANGED <<wire, raw, fed, buf, dec, out, peer_closed, in, back>>
  BY DEF ConnectReady, ConnectStops, ConnectFails, CloseFd, clock, peerEnd, call, tlsVars,
     request, engine, given, connVars
<1>2. At = "connecting" /\ At' = pc' /\ At' \in {"address", "connected", "failed"}
  BY <1>1 DEF At
<1>3. ~TlsUp' /\ ~TlsShaken' /\ ~TlsShaken
  BY <1>2 DEF TlsUp, TlsShaken, Shaking, Using
<1>4. /\ TypeOK' /\ InTime' /\ AsConfigured' /\ Checked'
  BY <1>1, <1>2, <1>3 DEF IInv, TypeOK, InTime, AsConfigured, Checked, Over, Opening, Shaking, Using
<1>5. Holding'
  <2>1. fds = {sock} /\ sock # 0 /\ held = {"tcp"} /\ ~misused
    BY <1>2 DEF IInv, Holding
  <2>2. CASE pc' = "connected" /\ UNCHANGED <<fds, sock, held>>
    BY <1>1, <1>2, <1>3, <2>1, <2>2 DEF Holding, Opening, Shaking, Using
  <2>3. CASE pc' = "address" /\ fds' = fds \ {sock} /\ sock' = 0 /\ held' = held
    <3>1. fds' = {}
      BY <2>1, <2>3
    <3>2. QED BY <1>1, <1>2, <1>3, <2>1, <2>3, <3>1 DEF Holding, Opening, Shaking, Using
  <2>4. CASE pc' = "failed" /\ fds' = fds \ {sock} /\ sock' = 0 /\ held' = held \ {"tcp"}
    <3>1. fds' = {} /\ held' = {}
      BY <2>1, <2>4
    <3>2. QED BY <1>1, <1>2, <1>3, <2>1, <2>4, <3>1 DEF Holding, Opening, Shaking, Using
  <2>5. QED BY <1>1, <2>2, <2>3, <2>4
<1>6. InOrder'
  <2>1. Coming = <<>> /\ Coming' = <<>>
    BY <1>1, <1>2 DEF Coming
  <2>2. raw = <<>> /\ fed = <<>>
    <3>1. /\ sent = 0
          /\ Len(raw) + Len(fed) + Len(Coming) + Len(wire) = sent
      BY <1>2 DEF IInv, InOrder, Over
    <3>2. raw \in Seq(Units) /\ fed \in Seq(Units) /\ wire \in Seq(Units)
      BY DEF IInv, TypeOK
    <3>3. Len(raw) \in Nat /\ Len(fed) \in Nat /\ Len(wire) \in Nat /\ Len(Coming) = 0
      BY <2>1, <3>2
    <3>4. QED BY <3>1, <3>2, <3>3, EmptySeq
  <2>3. QED BY <1>1, <1>2, <1>3, <2>1, <2>2 DEF IInv, InOrder, Opening, Over
<1>7. Accounted'
  BY <1>1, <1>2, <1>3 DEF IInv, Accounted, Opening, Over
<1>8. QED BY <1>4, <1>5, <1>6, <1>7 DEF IInv

\* A read or a write that returns no units.
LEMMA ReturnInv ==
  ASSUME IInv, UNCHANGED <<tlsVars, connVars>>,
         \/ RecvEnd \/ SendAll
         \/ \E code \in {"TIMEOUT", "CANCELLED", "IO"} : RecvStops(code) \/ SendStops(code)
  PROVE  IInv'
<1>1. /\ pc \in {"recv", "send"} /\ pc' = back /\ in'.units = <<>>
      /\ UNCHANGED <<now, dns, addr, fds, sock, held, misused, cfg, peer, hs, sent>>
      /\ UNCHANGED <<wire, raw, fed, buf, dec, out, peer_closed, back>>
  BY DEF RecvEnd, SendAll, RecvStops, SendStops, Returns, Nothing, clock, sockets, peerEnd,
     tlsVars, request, engine, given, connVars
<1>2. pc' \in {"got", "filled", "fill", "asked", "flushed", "wrote"} /\ At = back
  BY <1>1 DEF At, IInv, TypeOK
<1>3. At' = At
  BY <1>1, <1>2 DEF At
<1>4. Coming = <<>> /\ Coming' = <<>>
  BY <1>1 DEF Coming
<1>5. TypeOK' /\ InTime'
  <2>1. <<>> \in Seq(Units)
    OBVIOUS
  <2>2. QED BY <1>1, <1>2, <1>3, <2>1 DEF IInv, TypeOK, InTime
<1>6. QED BY <1>1, <1>3, <1>4, <1>5, Idle

LEMMA RecvDataInv ==
  ASSUME IInv, RecvData, UNCHANGED <<tlsVars, connVars>>
  PROVE  IInv'
<1>1. PICK n \in 1..Len(wire) :
        /\ in'.units = SubSeq(wire, 1, n) /\ wire' = SubSeq(wire, n + 1, Len(wire))
  BY DEF RecvData, Returns
<1>2. /\ pc = "recv" /\ pc' = back
      /\ UNCHANGED <<now, dns, addr, fds, sock, held, misused, cfg, peer, hs, sent>>
      /\ UNCHANGED <<raw, fed, buf, dec, out, peer_closed, back>>
  BY DEF RecvData, Returns, clock, sockets, tlsVars, request, engine, given, connVars
<1>3. wire \in Seq(Units) /\ n \in 0..Len(wire)
  BY <1>1 DEF IInv, TypeOK
<1> DEFINE u == SubSeq(wire, 1, n)
           w == SubSeq(wire, n + 1, Len(wire))
<1>4. /\ u \in Seq(Units) /\ Len(u) = n /\ \A i \in 1..n : u[i] = wire[i]
      /\ w \in Seq(Units) /\ Len(w) = Len(wire) - n
      /\ \A i \in 1..Len(wire) - n : w[i] = wire[n + i]
  BY <1>3, Cut
<1>5. pc' \in {"got", "filled", "fill"} /\ At = back
  BY <1>2 DEF At, IInv, TypeOK
<1>6. At' = At
  BY <1>2, <1>5 DEF At
<1>7. Coming = <<>> /\ Coming' = u
  BY <1>1, <1>2, <1>5 DEF Coming
<1>8. in'.units = u /\ wire' = w
  BY <1>1
<1> HIDE DEF u, w
<1>9. TypeOK' /\ InTime'
  BY <1>2, <1>4, <1>5, <1>6, <1>8 DEF IInv, TypeOK, InTime
<1>10. InOrder'
  <2>1. At \notin Over
    BY <1>2, <1>5 DEF Over
  <2> DEFINE f == Len(raw) + Len(fed)
  <2>2. /\ f + Len(wire) = sent
        /\ \A i \in DOMAIN wire : wire[i] = peer.script[f + i]
    <3>1. raw \in Seq(Units) /\ fed \in Seq(Units) /\ Len(<<>>) = 0
      BY DEF IInv, TypeOK
    <3>2. f \in Nat /\ f + Len(Coming) = f
      BY <1>7, <3>1
    <3>3. QED BY <2>1, <3>2 DEF IInv, InOrder
  <2>3. f \in Nat
    BY DEF IInv, TypeOK
  <2>4. f' = f
    BY <1>2
  <2>5. \A i \in DOMAIN u : u[i] = peer.script[f + i]
    BY <1>3, <1>4, <2>2
  <2>6. \A i \in DOMAIN w : w[i] = peer.script[f + Len(u) + i]
    <3> SUFFICES ASSUME NEW i \in DOMAIN w PROVE w[i] = peer.script[f + Len(u) + i]
      OBVIOUS
    <3>1. i \in 1..Len(wire) - n /\ n + i \in DOMAIN wire
      BY <1>3, <1>4
    <3>2. w[i] = peer.script[f + (n + i)]
      BY <1>4, <2>2, <3>1
    <3>3. f + (n + i) = f + Len(u) + i
      BY <1>3, <1>4, <2>3, <3>1
    <3>4. QED BY <3>2, <3>3
  <2>7. f + Len(u) + Len(w) = sent
    BY <1>3, <1>4, <2>2, <2>3
  <2>8. /\ sent' <= Len(peer'.script)
        /\ At' \in {"resolve", "address", "connecting"} => sent' = 0
        /\ At' \in Opening => fed' = <<>>
        /\ At' \in Opening \ {"answer", "got", "tls"} => raw' = <<>>
        /\ TlsUp' \/ At' = "tls" => Len(raw') = AnswerLen(peer')
        /\ \A i \in DOMAIN raw' : raw'[i] = peer'.script[i]
        /\ \A i \in DOMAIN fed' : fed'[i] = peer'.script[Len(raw') + i]
    BY <1>2, <1>6, <2>1 DEF IInv, InOrder, TlsUp, TlsShaken
  <2>9. QED BY <1>2, <1>7, <1>8, <2>4, <2>5, <2>6, <2>7, <2>8 DEF InOrder
<1>11. QED BY <1>2, <1>6, <1>9, <1>10, Frame

-----------------------------------------------------------------------------
(* The peer.                                                               *)

LEMMA PeerEndsInv ==
  ASSUME IInv, PeerEnds
  PROVE  IInv'
<1>1. /\ UNCHANGED <<now, dns, addr, fds, sock, held, misused, cfg, peer, hs, sent>>
      /\ UNCHANGED <<wire, raw, fed, buf, dec, out, peer_closed, in, pc, back>>
  BY DEF PeerEnds, clock, sockets, call, tlsVars, request, engine, given, connVars
<1>2. At' = At /\ Coming' = Coming
  BY <1>1 DEF At, Coming
<1>3. TypeOK' /\ InTime'
  BY <1>1, <1>2 DEF IInv, TypeOK, InTime
<1>4. QED BY <1>1, <1>2, <1>3, Idle

LEMMA PeerSendsInv ==
  ASSUME IInv, PeerSends
  PROVE  IInv'
<1>1. /\ sock # 0 /\ pc # "connecting" /\ sent < Len(peer.script)
      /\ wire' = Append(wire, peer.script[sent + 1]) /\ sent' = sent + 1
      /\ UNCHANGED <<now, dns, addr, fds, sock, held, misused, cfg, peer, hs>>
      /\ UNCHANGED <<raw, fed, buf, dec, out, peer_closed, in, pc, back>>
  BY DEF PeerSends, Connected, clock, sockets, call, tlsVars, request, engine, given
<1>2. At' = At /\ Coming' = Coming
  BY <1>1 DEF At, Coming
<1>3. /\ wire \in Seq(Units) /\ sent \in Nat /\ peer.script \in Seq(Units)
      /\ Len(peer.script) \in Nat /\ sent + 1 \in 1..Len(peer.script)
  <2>1. wire \in Seq(Units) /\ sent \in Nat /\ peer.script \in Seq(Units)
    BY ScriptParts DEF IInv, TypeOK
  <2>2. QED BY <1>1, <2>1
<1>4. /\ wire' \in Seq(Units) /\ Len(wire') = Len(wire) + 1
      /\ wire'[Len(wire) + 1] = peer.script[sent + 1]
      /\ \A i \in 1..Len(wire) : wire'[i] = wire[i]
  <2>1. peer.script[sent + 1] \in Units
    BY <1>3
  <2>2. QED BY <1>1, <1>3, <2>1, AppendProperties
<1>5. TypeOK' /\ InTime'
  BY <1>1, <1>2, <1>3, <1>4 DEF IInv, TypeOK, InTime
<1>6. AsConfigured' /\ Holding' /\ Checked' /\ Accounted'
  BY <1>1, <1>2 DEF IInv, AsConfigured, Holding, Checked, Accounted, TlsUp, TlsShaken,
     OpenSSL, Verdict
<1>7. InOrder'
  <2> DEFINE g == Len(raw) + Len(fed) + Len(Coming)
  <2>1. At \notin {"resolve", "address", "connecting"}
    <3>1. At # "resolve" /\ At # "address"
      BY <1>1 DEF IInv, Holding
    <3>2. At # "connecting"
      BY <1>1 DEF At, IInv, TypeOK
    <3>3. QED BY <3>1, <3>2
  <2>2. g' = g
    BY <1>1, <1>2
  <2>3. g \in Nat
    <3>1. Coming \in Seq(Units)
      <4>1. <<>> \in Seq(Units)
        OBVIOUS
      <4>2. QED BY <4>1 DEF IInv, TypeOK, Coming
    <3>2. QED BY <3>1 DEF IInv, TypeOK
  <2>4. sent' <= Len(peer'.script)
    BY <1>1, <1>3
  <2>5. CASE At \in Over
    BY <1>1, <1>2, <2>1, <2>4, <2>5 DEF IInv, InOrder, TlsUp, TlsShaken
  <2>6. CASE At \notin Over
    <3>1. g + Len(wire) = sent /\ \A i \in DOMAIN wire : wire[i] = peer.script[g + i]
      BY <2>6 DEF IInv, InOrder
    <3> HIDE DEF g
    <3>2. \A i \in DOMAIN wire' : wire'[i] = peer'.script[g + i]
      <4> SUFFICES ASSUME NEW i \in 1..Len(wire) + 1 PROVE wire'[i] = peer.script[g + i]
        BY <1>1, <1>4
      <4>1. CASE i \in 1..Len(wire)
        BY <1>3, <1>4, <3>1, <4>1
      <4>2. CASE i = Len(wire) + 1
        <5>1. g + i = sent + 1
          <6>1. Len(wire) \in Nat
            BY <1>3
          <6>2. QED BY <2>3, <3>1, <4>2, <6>1
        <5>2. QED BY <1>4, <4>2, <5>1
      <4>3. QED BY <1>3, <4>1, <4>2
    <3>3. g + Len(wire') = sent'
      BY <1>1, <1>3, <1>4, <2>3, <3>1
    <3>4. /\ At' \in Opening => fed' = <<>>
          /\ At' \in Opening \ {"answer", "got", "tls"} => raw' = <<>>
          /\ TlsUp' \/ At' = "tls" => Len(raw') = AnswerLen(peer')
          /\ \A i \in DOMAIN raw' : raw'[i] = peer'.script[i]
          /\ \A i \in DOMAIN fed' : fed'[i] = peer'.script[Len(raw') + i]
          /\ \A i \in DOMAIN Coming' : Coming'[i] = peer'.script[Len(raw') + Len(fed') + i]
      BY <1>1, <1>2, <2>6 DEF IInv, InOrder, TlsUp, TlsShaken
    <3>5. QED BY <1>2, <2>1, <2>2, <2>4, <3>2, <3>3, <3>4 DEF InOrder, g
  <2>7. QED BY <2>5, <2>6
<1>8. QED BY <1>5, <1>6, <1>7 DEF IInv
-----------------------------------------------------------------------------
(* Steps from one place to another that move no units.                     *)

Early == {"resolve", "address", "connecting"}

LEMMA MovesInOrder ==
  ASSUME IInv, UNCHANGED <<sent, cfg, peer, raw, fed, wire>>, Coming' = Coming,
         At \notin Over \cup Early, At' \notin Over \cup Early,
         At' \in Opening => At \in Opening,
         At' \in Opening \ {"answer", "got", "tls"} => At \in Opening \ {"answer", "got", "tls"},
         TlsUp' \/ At' = "tls" => TlsUp \/ At = "tls" \/ Len(raw) = AnswerLen(peer)
  PROVE  InOrder'
<1>1. InOrder
  BY DEF IInv
<1>2. AnswerLen(peer)' = AnswerLen(peer)
  OBVIOUS
<1>3. QED BY <1>1, <1>2 DEF InOrder, Early

LEMMA MovesAccounted ==
  ASSUME IInv, UNCHANGED <<hs, cfg, peer, buf, fed, dec, out, peer_closed>>,
         At \notin Over \cup Early, At' \notin Over \cup Early,
         At' \in Opening => At \in Opening,
         TlsUp' <=> TlsUp, TlsShaken' <=> TlsShaken, At' = "fill" => ~peer_closed
  PROVE  Accounted'
<1>1. Accounted
  BY DEF IInv
<1>2. QED BY <1>1 DEF Accounted, Early, OpenSSL

\* No peer answers but a proxy.
LEMMA NoProxyNoAnswer ==
  ASSUME IInv, ~cfg.proxy, At \in Opening \ {"answer", "got", "tls"}
  PROVE  Len(raw) = AnswerLen(peer)
<1>1. AnswerLen(peer) \in Nat
  BY ScriptParts DEF IInv, TypeOK, Parts
<1>2. raw = <<>>
  BY DEF IInv, InOrder
<1>3. QED BY <1>1, <1>2 DEF IInv, AsConfigured

LEMMA TcpOpenedInv ==
  ASSUME IInv, TcpOpened
  PROVE  IInv'
<1>1. /\ pc = "connected"
      /\ UNCHANGED <<now, dns, addr, fds, sock, held, misused, cfg, peer, hs, sent>>
      /\ UNCHANGED <<wire, raw, fed, buf, dec, out, peer_closed, in>>
  BY DEF TcpOpened, clock, sockets, peerEnd, tlsVars, request, engine, given, connVars
<1>2. \/ ~cfg.https /\ pc' = "open"
      \/ cfg.https /\ ~cfg.proxy /\ pc' = "tls"
      \/ cfg.https /\ cfg.proxy /\ pc' = "send" /\ back' = "asked"
      \/ pc' = "dropping"
  BY DEF TcpOpened, Writes
<1>3. At = "connected"
  BY <1>1 DEF At
<1>4. CASE pc' = "dropping"
  BY <1>1, <1>3, <1>4, Drops DEF IInv, TypeOK, Opening
<1>5. CASE pc' # "dropping"
  <2>1. \/ ~cfg.https /\ At' = "open" /\ pc' = "open"
        \/ cfg.https /\ ~cfg.proxy /\ At' = "tls" /\ pc' = "tls"
        \/ cfg.https /\ cfg.proxy /\ At' = "asked" /\ pc' = "send" /\ back' = "asked"
    BY <1>2, <1>5 DEF At
  <2>2. ~TlsUp /\ ~TlsShaken /\ ~TlsUp' /\ ~TlsShaken'
    BY <1>1, <1>3, <2>1 DEF TlsUp, TlsShaken, Shaking, Using
  <2>3. Coming' = Coming
    BY <1>1, <2>1 DEF Coming
  <2>4. TypeOK' /\ InTime' /\ AsConfigured' /\ Checked'
    BY <1>1, <1>3, <2>1, <2>2 DEF IInv, TypeOK, InTime, AsConfigured, Checked, Over, Opening,
       Shaking, Using
  <2>5. Holding'
    BY <1>1, <1>3, <2>1, <2>2 DEF IInv, Holding, Opening, Shaking, Using
  <2>6. InOrder'
    BY <1>1, <1>3, <2>1, <2>2, <2>3, MovesInOrder, NoProxyNoAnswer DEF Opening, Over, Early
  <2>7. Accounted'
    BY <1>1, <1>3, <2>1, <2>2, MovesAccounted DEF Opening, Over, Early
  <2>8. QED BY <2>4, <2>5, <2>6, <2>7 DEF IInv
<1>6. QED BY <1>4, <1>5

LEMMA TunnelAskedInv ==
  ASSUME IInv, TunnelAsked
  PROVE  IInv'
<1>1. /\ pc = "asked" /\ pc' \in {"dropping", "answer"}
      /\ UNCHANGED <<now, dns, addr, fds, sock, held, misused, cfg, peer, hs, sent>>
      /\ UNCHANGED <<wire, raw, fed, buf, dec, out, peer_closed, in>>
  BY DEF TunnelAsked, TunnelFails, clock, sockets, peerEnd, tlsVars, request, engine, given
<1>2. At = "asked" /\ At' = pc'
  BY <1>1 DEF At
<1>3. CASE pc' = "dropping"
  BY <1>1, <1>2, <1>3, Drops DEF IInv, TypeOK, Opening
<1>4. CASE pc' = "answer"
  <2>1. ~TlsUp /\ ~TlsShaken /\ ~TlsUp' /\ ~TlsShaken'
    BY <1>2, <1>4 DEF TlsUp, TlsShaken, Shaking, Using
  <2>2. Coming' = Coming
    BY <1>1, <1>4 DEF Coming
  <2>3. TypeOK' /\ InTime' /\ AsConfigured' /\ Checked'
    BY <1>1, <1>2, <1>4, <2>1 DEF IInv, TypeOK, InTime, AsConfigured, Checked, Over, Opening,
       Shaking, Using
  <2>4. Holding'
    BY <1>1, <1>2, <1>4, <2>1 DEF IInv, Holding, Opening, Shaking, Using
  <2>5. InOrder'
    BY <1>1, <1>2, <1>4, <2>1, <2>2, MovesInOrder DEF Opening, Over, Early
  <2>6. Accounted'
    BY <1>1, <1>2, <1>4, <2>1, MovesAccounted DEF Opening, Over, Early
  <2>7. QED BY <2>3, <2>4, <2>5, <2>6 DEF IInv
<1>5. QED BY <1>1, <1>3, <1>4

\* The tunnel is left for TLS when the buffer ends where the answer does.
LEMMA TunnelAnswerInv ==
  ASSUME IInv, TunnelAnswer
  PROVE  IInv'
<1>1. /\ pc = "answer"
      /\ UNCHANGED <<now, dns, addr, fds, sock, held, misused, cfg, peer, hs, sent>>
      /\ UNCHANGED <<wire, raw, fed, buf, dec, out, peer_closed, in>>
  BY DEF TunnelAnswer, clock, sockets, peerEnd, tlsVars, request, engine, given, connVars
<1>2. \/ pc' = "dropping"
      \/ ~Surplus(raw) /\ pc' = "tls"
      \/ pc' = "recv" /\ back' = "got"
  BY DEF TunnelAnswer, TunnelFails, Reads
<1>3. At = "answer"
  BY <1>1 DEF At
<1>4. CASE pc' = "dropping"
  BY <1>1, <1>3, <1>4, Drops DEF IInv, TypeOK, Opening
<1>5. CASE pc' # "dropping"
  <2>1. \/ ~Surplus(raw) /\ At' = "tls" /\ pc' = "tls"
        \/ At' = "got" /\ pc' = "recv" /\ back' = "got"
    BY <1>2, <1>5 DEF At
  <2>2. ~TlsUp /\ ~TlsShaken /\ ~TlsUp' /\ ~TlsShaken'
    BY <1>1, <1>3, <2>1 DEF TlsUp, TlsShaken, Shaking, Using
  <2>3. Coming' = Coming
    BY <1>1, <2>1 DEF Coming
  <2>4. TypeOK' /\ InTime' /\ AsConfigured' /\ Checked'
    BY <1>1, <1>3, <2>1, <2>2 DEF IInv, TypeOK, InTime, AsConfigured, Checked, Over, Opening,
       Shaking, Using
  <2>5. Holding'
    BY <1>1, <1>3, <2>1, <2>2 DEF IInv, Holding, Opening, Shaking, Using
  <2>6. ~Surplus(raw) => Len(raw) = AnswerLen(peer)
    <3> SUFFICES ASSUME Len(raw) \in Ends(raw) PROVE Len(raw) = AnswerLen(peer)
      BY DEF Surplus
    <3>1. PICK b \in Nat, c \in Nat, d \in Nat : Parts(peer, b, c, d)
      BY ScriptParts DEF IInv, TypeOK
    <3>2. Len(raw) \in DOMAIN raw /\ raw[Len(raw)][1] \in {"c", "no"} /\ raw[Len(raw)][2] = 2
      BY DEF Ends
    <3>3. /\ raw \in Seq(Units) /\ fed \in Seq(Units) /\ wire \in Seq(Units)
          /\ Coming = <<>> /\ peer.script \in Seq(Units)
      BY <1>1, ScriptParts DEF IInv, TypeOK, Coming
    <3>4. raw[Len(raw)] = peer.script[Len(raw)] /\ Len(raw) \in DOMAIN peer.script
      <4>1. /\ Len(raw) + Len(fed) + Len(Coming) + Len(wire) = sent
            /\ sent <= Len(peer.script) /\ raw[Len(raw)] = peer.script[Len(raw)]
        BY <1>3, <3>2 DEF IInv, InOrder, Over
      <4>2. Len(raw) \in 1..Len(raw) /\ Len(fed) \in Nat /\ Len(wire) \in Nat /\ Len(Coming) = 0
        BY <3>2, <3>3
      <4>3. QED BY <3>3, <4>1, <4>2
    <3>5. QED BY <3>1, <3>2, <3>4 DEF Parts
  <2>7. InOrder'
    BY <1>1, <1>3, <2>1, <2>2, <2>3, <2>6, MovesInOrder DEF Opening, Over, Early
  <2>8. Accounted'
    BY <1>1, <1>3, <2>1, <2>2, MovesAccounted DEF Opening, Over, Early
  <2>9. QED BY <2>4, <2>5, <2>7, <2>8 DEF IInv
<1>6. QED BY <1>4, <1>5
-----------------------------------------------------------------------------
(* Steps that move what recv() returned.                                   *)

\* s is what the script has behind its first o units.
PieceOf(s, script, o) == \A i \in DOMAIN s : s[i] = script[o + i]

\* Two pieces of a script, one behind the other.
LEMMA Joined ==
  ASSUME NEW s \in Seq(Units), NEW t \in Seq(Units), NEW script, NEW o \in Nat,
         PieceOf(s, script, o), PieceOf(t, script, o + Len(s))
  PROVE  /\ s \o t \in Seq(Units) /\ Len(s \o t) = Len(s) + Len(t)
         /\ \A i \in 1..Len(s) : (s \o t)[i] = s[i]
         /\ \A i \in 1..Len(t) : (s \o t)[Len(s) + i] = t[i]
         /\ PieceOf(s \o t, script, o)
<1> DEFINE u == s \o t
<1>1. /\ u \in Seq(Units) /\ Len(u) = Len(s) + Len(t)
      /\ \A i \in 1..Len(s) + Len(t) : u[i] = IF i <= Len(s) THEN s[i] ELSE t[i - Len(s)]
  BY ConcatProperties
<1>2. Len(s) \in Nat /\ Len(t) \in Nat
  OBVIOUS
<1> HIDE DEF u
<1>3. \A i \in 1..Len(s) : u[i] = s[i]
  BY <1>1, <1>2
<1>4. \A i \in 1..Len(t) : u[Len(s) + i] = t[i]
  <2> SUFFICES ASSUME NEW i \in 1..Len(t) PROVE u[Len(s) + i] = t[i]
    OBVIOUS
  <2>1. Len(s) + i \in 1..Len(s) + Len(t) /\ ~(Len(s) + i <= Len(s)) /\ Len(s) + i - Len(s) = i
    BY <1>2
  <2>2. QED BY <1>1, <2>1
<1>5. \A i \in DOMAIN u : u[i] = script[o + i]
  <2> SUFFICES ASSUME NEW i \in 1..Len(s) + Len(t) PROVE u[i] = script[o + i]
    BY <1>1
  <2>1. CASE i <= Len(s)
    <3>1. i \in DOMAIN s /\ u[i] = s[i]
      BY <1>1, <1>2, <2>1
    <3>2. QED BY <3>1 DEF PieceOf
  <2>2. CASE Len(s) < i
    <3>1. i - Len(s) \in DOMAIN t /\ ~(i <= Len(s))
      BY <1>2, <2>2
    <3>2. o + Len(s) + (i - Len(s)) = o + i
      BY <1>2
    <3>3. t[i - Len(s)] = script[o + Len(s) + (i - Len(s))]
      BY <3>1 DEF PieceOf
    <3>4. QED BY <1>1, <3>1, <3>2, <3>3
  <2>3. QED BY <1>2, <2>1, <2>2
<1>6. QED BY <1>1, <1>3, <1>4, <1>5 DEF u, PieceOf

\* Where everything is, outside a read or a write.
LEMMA Placed ==
  ASSUME IInv, At \notin Over
  PROVE  LET r == Len(raw)
             f == r + Len(fed)
             g == f + Len(Coming)
         IN  /\ {raw, fed, Coming, wire, buf, in.units, peer.script} \subseteq Seq(Units)
             /\ r \in Nat /\ f \in Nat /\ g \in Nat /\ Len(wire) \in Nat
             /\ g + Len(wire) = sent /\ sent <= Len(peer.script)
             /\ \A i \in DOMAIN raw    : raw[i]    = peer.script[i]
             /\ \A i \in DOMAIN fed    : fed[i]    = peer.script[r + i]
             /\ \A i \in DOMAIN Coming : Coming[i] = peer.script[f + i]
             /\ \A i \in DOMAIN wire   : wire[i]   = peer.script[g + i]
<1>1. {raw, fed, wire, buf, in.units, peer.script} \subseteq Seq(Units)
  BY ScriptParts DEF IInv, TypeOK
<1>2. Coming \in Seq(Units)
  <2>1. <<>> \in Seq(Units)
    OBVIOUS
  <2>2. QED BY <1>1, <2>1 DEF Coming
<1>3. Len(raw) \in Nat /\ Len(fed) \in Nat /\ Len(Coming) \in Nat /\ Len(wire) \in Nat
  BY <1>1, <1>2
<1>4. QED BY <1>1, <1>2, <1>3 DEF IInv, InOrder

LEMMA TunnelGotInv ==
  ASSUME IInv, TunnelGot
  PROVE  IInv'
<1>1. /\ pc = "got"
      /\ UNCHANGED <<now, dns, addr, fds, sock, held, misused, cfg, peer, hs, sent>>
      /\ UNCHANGED <<wire, fed, buf, dec, out, peer_closed, in>>
  BY DEF TunnelGot, clock, sockets, peerEnd, tlsVars, request, engine, given
<1>2. \/ pc' = "dropping" /\ raw' = raw
      \/ pc' = "answer" /\ raw' = raw \o in.units
  BY DEF TunnelGot, TunnelFails
<1>3. At = "got" /\ At' = pc'
  BY <1>1, <1>2 DEF At
<1>4. CASE pc' = "dropping"
  BY <1>1, <1>2, <1>3, <1>4, Drops DEF IInv, TypeOK, Opening
<1>5. CASE pc' = "answer"
  <2>1. raw' = raw \o in.units /\ Coming = in.units /\ Coming' = <<>>
    BY <1>1, <1>2, <1>5 DEF Coming
  <2>2. fed = <<>> /\ At \notin Over
    BY <1>3 DEF IInv, InOrder, Opening, Over
  <2>3. /\ raw \in Seq(Units) /\ in.units \in Seq(Units) /\ peer.script \in Seq(Units)
        /\ Len(fed) = 0
        /\ Len(raw) \in Nat /\ Len(in.units) \in Nat /\ Len(wire) \in Nat
        /\ Len(raw) + Len(in.units) + Len(wire) = sent /\ sent <= Len(peer.script)
        /\ \A i \in DOMAIN raw : raw[i] = peer.script[0 + i]
        /\ \A i \in DOMAIN in.units : in.units[i] = peer.script[0 + Len(raw) + i]
        /\ \A i \in DOMAIN wire : wire[i] = peer.script[Len(raw) + Len(in.units) + i]
    BY <2>1, <2>2, Placed
  <2>4. /\ raw' \in Seq(Units) /\ Len(raw') = Len(raw) + Len(in.units)
        /\ \A i \in DOMAIN raw' : raw'[i] = peer.script[0 + i]
    <3>1. raw \in Seq(Units) /\ in.units \in Seq(Units)
      BY <2>3
    <3>2. PieceOf(raw, peer.script, 0) /\ PieceOf(in.units, peer.script, 0 + Len(raw))
      BY <2>3 DEF PieceOf
    <3>3. /\ raw \o in.units \in Seq(Units) /\ Len(raw \o in.units) = Len(raw) + Len(in.units)
          /\ PieceOf(raw \o in.units, peer.script, 0)
      BY <3>1, <3>2, Joined
    <3>4. QED BY <2>1, <3>3 DEF PieceOf
  <2>5. ~TlsUp' /\ ~TlsShaken' /\ ~TlsUp /\ ~TlsShaken
    BY <1>3, <1>5 DEF TlsUp, TlsShaken, Shaking, Using
  <2>6. TypeOK' /\ InTime' /\ AsConfigured' /\ Checked'
    BY <1>1, <1>3, <1>5, <2>4, <2>5 DEF IInv, TypeOK, InTime, AsConfigured, Checked, Over,
       Opening, Shaking, Using
  <2>7. Holding'
    BY <1>1, <1>3, <1>5, <2>5 DEF IInv, Holding, Opening, Shaking, Using
  <2>8. InOrder'
    <3>1. \A i \in DOMAIN raw' : raw'[i] = peer.script[i]
      BY <2>4
    <3>2. /\ Len(raw') + Len(fed') + Len(Coming') = Len(raw) + Len(in.units)
          /\ Len(raw') + Len(fed') + Len(Coming') + Len(wire) = sent
      <4>1. Len(fed') = 0 /\ Len(Coming') = 0
        BY <1>1, <2>1, <2>2
      <4>2. QED BY <2>3, <2>4, <4>1
    <3>3. fed' = <<>> /\ Coming' = <<>>
      BY <1>1, <2>1, <2>2
    <3>4. At' = "answer"
      BY <1>3, <1>5
    <3>5. DOMAIN fed' = {} /\ DOMAIN Coming' = {}
      BY <3>3
    <3>6. /\ Len(raw') + Len(fed') + Len(Coming') + Len(wire') = sent'
          /\ sent' <= Len(peer'.script) /\ peer' = peer
      BY <1>1, <2>3, <3>2
    <3>7. \A i \in DOMAIN wire' :
            wire'[i] = peer'.script[Len(raw') + Len(fed') + Len(Coming') + i]
      BY <1>1, <2>3, <3>2
    <3>8. QED BY <2>5, <3>1, <3>3, <3>4, <3>5, <3>6, <3>7 DEF InOrder, Opening, Over
  <2>9. Accounted'
    BY <1>1, <1>3, <1>5, <2>5, MovesAccounted DEF Opening, Over, Early
  <2>10. QED BY <2>6, <2>7, <2>8, <2>9 DEF IInv
<1>6. QED BY <1>2, <1>4, <1>5

\* What the TLS engine is given goes to the end of its buffer.
LEMMA GivenToTls ==
  ASSUME IInv, TlsUp, pc \in {"filled", "fill"}, Append2Tls,
         UNCHANGED <<raw, wire, sent, peer>>
  PROVE  LET m == Len(in.units)
         IN  /\ fed' \in Seq(Units) /\ buf' \in Seq(Units) /\ m \in Nat
             /\ Len(fed') = Len(fed) + m /\ Len(buf') = Len(buf) + m
             /\ \A i \in 1..Len(fed) : fed'[i] = fed[i]
             /\ \A i \in DOMAIN buf' : buf'[i] = fed'[Len(fed) - Len(buf) + i]
             /\ Len(raw) + Len(fed') + Len(wire) = sent
             /\ \A i \in DOMAIN fed' : fed'[i] = peer.script[Len(raw) + i]
             /\ \A i \in DOMAIN wire : wire[i] = peer.script[Len(raw) + Len(fed') + i]
<1>1. Coming = in.units /\ At \notin Over
  BY DEF Coming, At, Over
<1> DEFINE m == Len(in.units)
           k == Len(fed) - Len(buf)
           r == Len(raw)
           f == Len(fed)
<1>2. /\ raw \in Seq(Units) /\ fed \in Seq(Units) /\ buf \in Seq(Units) /\ in.units \in Seq(Units)
      /\ r + f \in Nat /\ r + f + m + Len(wire) = sent
      /\ \A i \in DOMAIN fed : fed[i] = peer.script[r + i]
      /\ \A i \in DOMAIN in.units : in.units[i] = peer.script[r + f + i]
      /\ \A i \in DOMAIN wire : wire[i] = peer.script[r + f + m + i]
  BY <1>1, Placed
<1>3. fed' = fed \o in.units /\ buf' = buf \o in.units
  BY DEF Append2Tls
<1>4. r \in Nat /\ f \in Nat /\ m \in Nat /\ Len(buf) \in Nat /\ Len(wire) \in Nat
  <2>1. wire \in Seq(Units)
    BY DEF IInv, TypeOK
  <2>2. QED BY <1>2, <2>1
<1>5. k \in Nat /\ \A i \in DOMAIN buf : buf[i] = fed[k + i]
  BY <1>4 DEF IInv, Accounted
<1>6. k + Len(buf) = f
  BY <1>4
<1> HIDE DEF m, k, r, f
<1>7. /\ fed' \in Seq(Units) /\ Len(fed') = f + m
      /\ \A i \in 1..f : fed'[i] = fed[i]
      /\ \A i \in 1..m : fed'[f + i] = in.units[i]
      /\ \A i \in DOMAIN fed' : fed'[i] = peer.script[r + i]
  <2>1. Len(fed) = f /\ Len(in.units) = m
    BY DEF f, m
  <2>2. PieceOf(fed, peer.script, r) /\ PieceOf(in.units, peer.script, r + Len(fed))
    BY <1>2, <2>1 DEF PieceOf
  <2>3. fed \in Seq(Units) /\ in.units \in Seq(Units)
    BY <1>2
  <2>4. /\ fed \o in.units \in Seq(Units) /\ Len(fed \o in.units) = Len(fed) + Len(in.units)
        /\ \A i \in 1..Len(fed) : (fed \o in.units)[i] = fed[i]
        /\ \A i \in 1..Len(in.units) : (fed \o in.units)[Len(fed) + i] = in.units[i]
        /\ PieceOf(fed \o in.units, peer.script, r)
    BY <1>4, <2>2, <2>3, Joined
  <2>5. QED BY <1>3, <2>1, <2>4 DEF PieceOf
<1>8. \A i \in DOMAIN buf : buf[i] = fed'[k + i]
  <2> SUFFICES ASSUME NEW i \in DOMAIN buf PROVE fed[k + i] = fed'[k + i]
    BY <1>5
  <2>1. i \in 1..Len(buf)
    BY <1>2
  <2>2. k + i \in 1..f
    BY <1>4, <1>5, <1>6, <2>1
  <2>3. QED BY <1>7, <2>2
<1>9. \A i \in DOMAIN in.units : in.units[i] = fed'[k + Len(buf) + i]
  <2> SUFFICES ASSUME NEW i \in DOMAIN in.units PROVE in.units[i] = fed'[f + i]
    BY <1>6
  <2>1. i \in 1..m
    BY <1>2 DEF m
  <2>2. QED BY <1>7, <2>1
<1>10. /\ buf' \in Seq(Units) /\ Len(buf') = Len(buf) + m
       /\ \A i \in DOMAIN buf' : buf'[i] = fed'[k + i]
  <2>1. Len(in.units) = m
    BY DEF m
  <2>2. PieceOf(buf, fed', k) /\ PieceOf(in.units, fed', k + Len(buf))
    BY <1>8, <1>9 DEF PieceOf
  <2>3. buf \in Seq(Units) /\ in.units \in Seq(Units)
    BY <1>2
  <2>4. /\ buf \o in.units \in Seq(Units) /\ Len(buf \o in.units) = Len(buf) + Len(in.units)
        /\ PieceOf(buf \o in.units, fed', k)
    BY <1>5, <2>2, <2>3, Joined
  <2>5. QED BY <1>3, <2>1, <2>4 DEF PieceOf
<1>11. r + Len(fed') + Len(wire) = sent /\ r + Len(fed') = r + f + m
  <2>1. Len(fed') = f + m
    BY <1>7
  <2>2. r + f + m + Len(wire) = sent
    BY <1>2
  <2>3. QED BY <1>4, <2>1, <2>2
<1>12. \A i \in DOMAIN wire : wire[i] = peer.script[r + Len(fed') + i]
  BY <1>2, <1>11
<1>13. QED BY <1>4, <1>7, <1>10, <1>11, <1>12 DEF m, k, r, f
-----------------------------------------------------------------------------
(* The handshake.                                                          *)

LEMMA TlsConnectInv ==
  ASSUME IInv, TlsConnect, UNCHANGED connVars
  PROVE  IInv'
<1>1. /\ pc = "tls"
      /\ UNCHANGED <<now, dns, addr, fds, sock, misused, cfg, peer, hs, sent>>
      /\ UNCHANGED <<wire, raw, fed, buf, dec, out, peer_closed, in, back>>
  BY DEF TlsConnect, FailTls, clock, peerEnd, call, tlsVars, request, engine, given, connVars
<1>2. \/ pc' = "dropping" /\ held' = held \ {"tls"}
      \/ pc' = "shake" /\ held' = held \cup {"tls"} /\ ConfigCheck(cfg.asks, cfg.backend)
  BY DEF TlsConnect, FailTls
<1>3. At = "tls"
  BY <1>1 DEF At
<1>4. CASE pc' = "dropping"
  BY <1>1, <1>2, <1>3, <1>4, Drops DEF IInv, TypeOK, Opening
<1>5. CASE pc' = "shake"
  <2>1. At' = "shake"
    BY <1>5 DEF At
  <2>2. ~TlsUp /\ ~TlsShaken /\ TlsUp' /\ ~TlsShaken'
    BY <1>1, <1>3, <2>1 DEF TlsUp, TlsShaken, Shaking, Using
  <2>3. Coming' = Coming
    BY <1>1, <1>5 DEF Coming
  <2>4. TypeOK' /\ InTime' /\ AsConfigured'
    BY <1>1, <1>3, <1>5, <2>1 DEF IInv, TypeOK, InTime, AsConfigured, Over, Opening, Shaking, Using
  <2>5. hs = 0 /\ buf = <<>> /\ fed = <<>> /\ out = <<>> /\ dec = <<>> /\ ~peer_closed
    BY <1>3, <2>2 DEF IInv, InOrder, Accounted, Opening, Over
  <2>6. Checked'
    BY <1>1, <1>2, <1>5, <2>2, <2>5 DEF Checked, OpenSSL
  <2>7. Holding'
    <3>1. fds = {sock} /\ sock # 0 /\ held = {"tcp"} /\ ~misused
      BY <1>3 DEF IInv, Holding, Opening
    <3>2. held' = {"tcp", "tls"}
      BY <1>2, <1>5, <3>1
    <3>3. QED BY <1>1, <2>1, <2>2, <3>1, <3>2 DEF Holding, Opening, Shaking, Using
  <2>8. InOrder'
    BY <1>1, <1>3, <2>1, <2>2, <2>3, MovesInOrder DEF Opening, Over, Early
  <2>9. Accounted'
    <3>1. Len(<<>>) = 0 /\ DOMAIN <<>> = {} /\ Count("r", peer.script) \in Nat
      BY ScriptParts DEF IInv, TypeOK, Parts
    <3>2. 1..0 = {}
      OBVIOUS
    <3>3. /\ hs' = 0 /\ buf' = <<>> /\ fed' = <<>> /\ out' = <<>> /\ dec' = <<>> /\ ~peer_closed'
          /\ peer' = peer
      BY <1>1, <2>5
    <3>4. QED BY <2>1, <2>2, <3>1, <3>2, <3>3 DEF Accounted, Opening, Over
  <2>10. QED BY <2>4, <2>6, <2>7, <2>8, <2>9 DEF IInv
<1>6. QED BY <1>2, <1>4, <1>5

\* The handshake is through: all it was given and has taken were its messages.
LEMMA ShakenAccounted ==
  ASSUME TypeOK, Accounted, TlsUp, ~TlsShaken, peer \in Peers, At' \in {"made"},
         UNCHANGED <<cfg, peer, fed, dec, out, peer_closed>>,
         hs' \in Nat, Len(buf') \in Nat, Len(fed) - Len(buf') = hs', Len(fed) >= hs',
         \A i \in DOMAIN buf' : buf'[i] = fed[hs' + i],
         \A i \in 1..hs' : fed[i][1] = "h"
  PROVE  Accounted'
<1>1. TlsUp' /\ TlsShaken'
  BY DEF TlsUp, TlsShaken, Using
<1>2. out = <<>> /\ dec = <<>> /\ ~peer_closed
  BY DEF Accounted, TlsUp, Shaking, Over
<1>3. Len(<<>>) = 0 /\ DOMAIN <<>> = {} /\ Count("r", peer.script) \in Nat
  BY ScriptParts DEF Parts
<1>4. out' = <<>> /\ dec' = <<>> /\ ~peer_closed' /\ peer' = peer /\ fed' = fed
  BY <1>2
<1>5. QED BY <1>1, <1>3, <1>4 DEF Accounted, Opening

LEMMA FlushedInv ==
  ASSUME IInv, Flushed, UNCHANGED connVars
  PROVE  IInv'
<1>1. /\ pc = "flushed"
      /\ UNCHANGED <<now, dns, addr, fds, sock, misused, cfg, peer, hs, sent>>
      /\ UNCHANGED <<wire, raw, fed, buf, dec, out, peer_closed, in>>
  BY DEF Flushed, FailTls, clock, sockets, call, peerEnd, request, given, connVars
<1>2. \/ pc' = "dropping" /\ held' = held \ {"tls"}
      \/ pc' = "made" /\ held' = held /\ hs = HsLen(peer)
      \/ pc' = "recv" /\ back' = "filled" /\ held' = held
  BY DEF Flushed, FailTls, Reads, sockets
<1>3. At = "flushed"
  BY <1>1 DEF At
<1>4. CASE pc' = "dropping"
  BY <1>1, <1>2, <1>3, <1>4, Drops DEF IInv, TypeOK, Shaking
<1>5. CASE pc' # "dropping"
  <2>1. \/ pc' = "made" /\ At' = "made" /\ hs = HsLen(peer)
        \/ pc' = "recv" /\ At' = "filled" /\ back' = "filled"
    BY <1>2, <1>5 DEF At
  <2>2. TlsUp /\ ~TlsShaken /\ TlsUp' /\ (TlsShaken' <=> At' = "made")
    BY <1>1, <1>3, <2>1 DEF TlsUp, TlsShaken, Shaking, Using
  <2>3. Coming' = Coming
    BY <1>1, <2>1 DEF Coming
  <2>4. TypeOK' /\ InTime' /\ AsConfigured'
    BY <1>1, <1>3, <2>1 DEF IInv, TypeOK, InTime, AsConfigured, Over, Opening, Shaking, Using
  <2>5. Checked'
    BY <1>1, <2>1, <2>2 DEF IInv, Checked, OpenSSL, Verdict
  <2>6. Holding'
    BY <1>1, <1>2, <1>3, <1>5, <2>1, <2>2 DEF IInv, Holding, Opening, Shaking, Using
  <2>7. InOrder'
    BY <1>1, <1>3, <2>1, <2>2, <2>3, MovesInOrder DEF Opening, Over, Early
  <2>8. CASE At' = "filled"
    <3>1. Accounted'
      BY <1>1, <1>3, <2>2, <2>8, MovesAccounted DEF Opening, Over, Early
    <3>2. QED BY <2>4, <2>5, <2>6, <2>7, <3>1 DEF IInv
  <2>9. CASE At' = "made"
    <3>1. Accounted'
      <4>1. TypeOK /\ Accounted /\ peer \in Peers
        BY DEF IInv, TypeOK
      <4>2. Len(fed) \in Nat /\ Len(buf) \in Nat /\ hs \in Nat
        BY <4>1 DEF TypeOK
      <4>3. /\ Len(fed) - Len(buf) = hs /\ \A i \in 1..hs : fed[i][1] = "h"
            /\ \A i \in DOMAIN buf : buf[i] = fed[hs + i]
        BY <2>2, <4>1 DEF Accounted
      <4>4. Len(fed) >= hs
        BY <4>2, <4>3
      <4>5. QED BY <1>1, <2>2, <2>9, <4>1, <4>2, <4>3, <4>4, ShakenAccounted
    <3>2. QED BY <2>4, <2>5, <2>6, <2>7, <3>1 DEF IInv
  <2>10. QED BY <2>1, <2>8, <2>9
<1>6. QED BY <1>4, <1>5

LEMMA MadeInv ==
  ASSUME IInv, Made, UNCHANGED connVars
  PROVE  IInv'
<1>1. /\ pc = "made"
      /\ UNCHANGED <<now, dns, addr, fds, sock, misused, cfg, peer, hs, sent>>
      /\ UNCHANGED <<wire, raw, fed, buf, dec, out, peer_closed, in, back>>
  BY DEF Made, FailTls, clock, sockets, call, peerEnd, tlsVars, request, engine, given, connVars
<1>2. \/ pc' = "dropping" /\ held' = held \ {"tls"}
      \/ pc' = "open" /\ held' = held /\ (OpenSSL \/ Verdict = "OK")
  BY DEF Made, FailTls, sockets
<1>3. At = "made"
  BY <1>1 DEF At
<1>4. CASE pc' = "dropping"
  BY <1>1, <1>2, <1>3, <1>4, Drops DEF IInv, TypeOK, Using
<1>5. CASE pc' = "open"
  <2>1. At' = "open" /\ cfg.https
    BY <1>3, <1>5 DEF At, IInv, AsConfigured, Using
  <2>2. TlsUp /\ TlsShaken /\ TlsUp' /\ TlsShaken'
    BY <1>1, <1>3, <2>1 DEF TlsUp, TlsShaken, Shaking, Using
  <2>3. Coming' = Coming
    BY <1>1, <1>5 DEF Coming
  <2>4. TypeOK' /\ InTime' /\ AsConfigured'
    BY <1>1, <1>3, <1>5, <2>1 DEF IInv, TypeOK, InTime, AsConfigured, Over, Opening, Shaking, Using
  <2>5. Verdict = "OK"
    <3>1. hs = HsLen(peer) /\ (OpenSSL /\ hs >= 2 => Verdict = "OK")
      BY <2>2 DEF IInv, Checked
    <3>2. HsLen(peer) >= 2
      BY DEF HsLen
    <3>3. QED BY <1>2, <1>5, <3>1, <3>2
  <2>6. Checked'
    BY <1>1, <2>1, <2>2, <2>5 DEF IInv, Checked, OpenSSL, Verdict
  <2>7. Holding'
    BY <1>1, <1>2, <1>3, <1>5, <2>1, <2>2 DEF IInv, Holding, Opening, Shaking, Using
  <2>8. InOrder'
    BY <1>1, <1>3, <2>1, <2>2, <2>3, MovesInOrder DEF Opening, Over, Early
  <2>9. Accounted'
    BY <1>1, <1>3, <2>1, <2>2, MovesAccounted DEF Opening, Over, Early
  <2>10. QED BY <2>4, <2>6, <2>7, <2>8, <2>9 DEF IInv
<1>6. QED BY <1>2, <1>4, <1>5

-----------------------------------------------------------------------------
(* Steps of a stream that is open, from one place to another.              *)

LEMMA UsingMoves ==
  ASSUME IInv, TlsShaken, cfg.https, At # "made", TlsShaken', At' # "made",
         UNCHANGED <<now, dns, addr, fds, sock, held, misused, cfg, peer, hs, sent>>,
         UNCHANGED <<wire, raw, fed>>, Coming' = Coming, in' = in,
         \/ pc' \in {"read", "open"}
         \/ pc' = "recv" /\ back' = "fill"
         \/ pc' = "send" /\ back' = "wrote"
  PROVE  /\ AsConfigured' /\ Holding' /\ InTime' /\ Checked' /\ InOrder'
         /\ buf' \in Seq(Units) /\ dec' \in Seq(Nat) /\ out' \in Seq(Nat) => TypeOK'
<1>1. At \in {"read", "fill", "wrote", "open"} /\ At' \in {"read", "fill", "wrote", "open"}
  BY DEF TlsShaken, Using, At
<1>2. TlsUp /\ TlsUp'
  BY DEF TlsUp
<1>3. AsConfigured' /\ InTime'
  BY <1>1 DEF IInv, InTime, AsConfigured, Opening, Shaking, Using
<1>4. Checked'
  BY <1>1, <1>2 DEF IInv, Checked, OpenSSL, Verdict
<1>5. Holding'
  BY <1>1, <1>2 DEF IInv, Holding, Opening, Shaking, Using
<1>6. InOrder'
  BY <1>1, <1>2, MovesInOrder DEF Opening, Over, Early
<1>7. buf' \in Seq(Units) /\ dec' \in Seq(Nat) /\ out' \in Seq(Nat) => TypeOK'
  BY <1>1 DEF IInv, TypeOK, Using
<1>8. QED BY <1>3, <1>4, <1>5, <1>6, <1>7

LEMMA StartsInv ==
  ASSUME IInv, ReadStarts \/ WriteStarts, UNCHANGED connVars
  PROVE  IInv'
<1>1. /\ pc = "open" /\ "tls" \in held
      /\ pc' = "read" \/ (pc' = "send" /\ back' = "wrote")
      /\ UNCHANGED <<now, dns, addr, fds, sock, held, misused, cfg, peer, hs, sent>>
      /\ UNCHANGED <<wire, raw, fed, buf, dec, out, peer_closed, in>>
  BY DEF ReadStarts, WriteStarts, Writes, clock, sockets, call, peerEnd, tlsVars, request,
     engine, given, connVars
<1>2. At = "open" /\ At' \in {"read", "wrote"} /\ Coming' = Coming
  BY <1>1 DEF At, Coming
<1>3. cfg.https
  BY <1>1, <1>2 DEF IInv, Holding
<1>4. TlsShaken /\ TlsShaken' /\ TlsUp /\ TlsUp'
  BY <1>2, <1>3 DEF TlsUp, TlsShaken, Using
<1>5. AsConfigured' /\ Holding' /\ InTime' /\ Checked' /\ InOrder' /\ TypeOK'
  <2>1. buf' \in Seq(Units) /\ dec' \in Seq(Nat) /\ out' \in Seq(Nat)
    BY <1>1 DEF IInv, TypeOK
  <2>2. QED BY <1>1, <1>2, <1>3, <1>4, <2>1, UsingMoves
<1>6. Accounted'
  BY <1>1, <1>2, <1>4, MovesAccounted DEF Opening, Over, Early
<1>7. QED BY <1>5, <1>6 DEF IInv

LEMMA WroteInv ==
  ASSUME IInv, Wrote, UNCHANGED connVars
  PROVE  IInv'
<1>1. /\ pc = "wrote" /\ pc' \in {"open", "dropping"}
      /\ UNCHANGED <<now, dns, addr, fds, sock, held, misused, cfg, peer, hs, sent>>
      /\ UNCHANGED <<wire, raw, fed, buf, dec, out, peer_closed, in>>
  BY DEF Wrote, clock, sockets, call, peerEnd, tlsVars, request, engine, given, connVars
<1>2. At = "wrote"
  BY <1>1 DEF At
<1>3. CASE pc' = "dropping"
  BY <1>1, <1>2, <1>3, Drops DEF IInv, TypeOK, Using
<1>4. CASE pc' = "open"
  <2>1. At' = "open" /\ Coming' = Coming
    BY <1>1, <1>4 DEF At, Coming
  <2>2. cfg.https
    BY <1>2 DEF IInv, AsConfigured, Using
  <2>3. TlsShaken /\ TlsShaken' /\ TlsUp /\ TlsUp'
    BY <1>1, <1>2, <2>1, <2>2 DEF TlsUp, TlsShaken, Using
  <2>4. AsConfigured' /\ Holding' /\ InTime' /\ Checked' /\ InOrder' /\ TypeOK'
    <3>1. buf' \in Seq(Units) /\ dec' \in Seq(Nat) /\ out' \in Seq(Nat)
      BY <1>1 DEF IInv, TypeOK
    <3>2. QED BY <1>1, <1>2, <1>4, <2>1, <2>2, <2>3, <3>1, UsingMoves
  <2>5. Accounted'
    BY <1>1, <1>2, <2>1, <2>3, MovesAccounted DEF Opening, Over, Early
  <2>6. QED BY <2>4, <2>5 DEF IInv
<1>5. QED BY <1>1, <1>3, <1>4

LEMMA DroppedInv ==
  ASSUME IInv, Dropped \/ Finished
  PROVE  IInv'
<1>1. /\ pc \in {"dropping", "open"} /\ pc' \in {"failed", "closed"} /\ sock' = 0
      /\ fds' = (IF sock = 0 THEN fds ELSE fds \ {sock})
      /\ \/ "tls" \in held /\ held' = held \ {"tls", "tcp"}
            /\ misused' = (misused \/ ~({"tls", "tcp"} \subseteq held))
         \/ "tls" \notin held /\ held' = held \ {"tcp"}
            /\ misused' = (misused \/ "tcp" \notin held)
      /\ UNCHANGED <<now, dns, addr, cfg, peer, hs, sent>>
      /\ UNCHANGED <<wire, raw, fed, buf, dec, out, peer_closed, in, back>>
  BY DEF Dropped, Finished, DropStream, TlsDestroy, NetDestroy, NetClose, CloseFd, clock, call,
     peerEnd, tlsVars, request, engine, given, connVars
<1>2. At = pc /\ At' = pc' /\ At' \in Over /\ At' # "dropping"
  BY <1>1 DEF At, Over
<1>3. ~TlsUp' /\ ~TlsShaken'
  BY <1>1, <1>2 DEF TlsUp, TlsShaken, Shaking, Using
<1>4. fds = {sock} /\ sock # 0 /\ held \in {{"tcp"}, {"tcp", "tls"}} /\ ~misused
  BY <1>1, <1>2 DEF IInv, Holding, TlsUp, TlsShaken
<1>5. fds' = {} /\ held' = {} /\ ~misused'
  <2>1. fds' = {}
    BY <1>1, <1>4
  <2>2. CASE held = {"tcp"}
    BY <1>1, <1>4, <2>1, <2>2
  <2>3. CASE held = {"tcp", "tls"}
    BY <1>1, <1>4, <2>1, <2>3
  <2>4. QED BY <1>4, <2>2, <2>3
<1>6. TypeOK' /\ InTime' /\ AsConfigured' /\ Checked'
  BY <1>1, <1>2, <1>3 DEF IInv, TypeOK, InTime, AsConfigured, Checked, Over, Opening, Shaking, Using
<1>7. Holding'
  BY <1>1, <1>2, <1>3, <1>5 DEF Holding, Opening, Shaking, Using
<1>8. InOrder' /\ Accounted'
  BY <1>1, <1>2, <1>3 DEF IInv, InOrder, Accounted, Opening, Over
<1>9. QED BY <1>6, <1>7, <1>8 DEF IInv
-----------------------------------------------------------------------------
(* What comes is given to the TLS engine.                                  *)

LEMMA FedInv ==
  ASSUME IInv, Append2Tls, (pc = "filled" /\ pc' = "shake") \/ (pc = "fill" /\ pc' = "read"),
         UNCHANGED <<now, dns, addr, fds, sock, held, misused, cfg, peer, hs, sent>>,
         UNCHANGED <<wire, raw, dec, out, peer_closed, in>>
  PROVE  IInv'
<1> DEFINE m == Len(in.units)
           k == Len(fed) - Len(buf)
<1>1. At = pc /\ At' = pc' /\ Coming' = <<>>
  BY DEF At, Coming
<1>2. cfg.https /\ TlsUp /\ TlsUp' /\ (TlsShaken <=> pc = "fill") /\ (TlsShaken' <=> TlsShaken)
  BY <1>1 DEF IInv, AsConfigured, TlsUp, TlsShaken, Shaking, Using
<1>3. /\ fed' \in Seq(Units) /\ buf' \in Seq(Units) /\ m \in Nat
      /\ Len(fed') = Len(fed) + m /\ Len(buf') = Len(buf) + m
      /\ \A i \in 1..Len(fed) : fed'[i] = fed[i]
      /\ \A i \in DOMAIN buf' : buf'[i] = fed'[k + i]
      /\ Len(raw) + Len(fed') + Len(wire) = sent
      /\ \A i \in DOMAIN fed' : fed'[i] = peer.script[Len(raw) + i]
      /\ \A i \in DOMAIN wire : wire[i] = peer.script[Len(raw) + Len(fed') + i]
  BY <1>2, GivenToTls
<1>4. ~peer_closed
  BY <1>1, <1>2 DEF IInv, Accounted, Over
<1>5. TypeOK' /\ InTime' /\ AsConfigured' /\ Checked'
  <2>1. TypeOK'
    BY <1>1, <1>3 DEF IInv, TypeOK, Shaking, Using
  <2>2. InTime' /\ AsConfigured'
    BY <1>1, <1>2 DEF IInv, InTime, AsConfigured, Opening, Shaking, Using
  <2>3. Checked'
    BY <1>1, <1>2 DEF IInv, Checked, OpenSSL, Verdict
  <2>4. QED BY <2>1, <2>2, <2>3
<1>6. Holding'
  BY <1>1, <1>2 DEF IInv, Holding, Opening, Shaking, Using
<1>7. InOrder'
  <2>1. /\ sent' <= Len(peer'.script) /\ Len(raw') = AnswerLen(peer')
        /\ \A i \in DOMAIN raw' : raw'[i] = peer'.script[i]
    BY <1>1, <1>2 DEF IInv, InOrder, Over
  <2>2. /\ At' \notin {"resolve", "address", "connecting"} /\ At' \notin Opening
    BY <1>1 DEF Opening
  <2>3. Len(raw) + Len(fed') + Len(<<>>) = Len(raw) + Len(fed') /\ DOMAIN <<>> = {}
    <3>1. Len(raw) \in Nat /\ Len(fed') \in Nat /\ Len(<<>>) = 0 /\ DOMAIN <<>> = {}
      BY <1>3 DEF IInv, TypeOK
    <3>2. QED BY <3>1
  <2>4. Coming' = <<>> /\ wire' = wire /\ sent' = sent /\ peer' = peer /\ raw' = raw
    BY <1>1
  <2>5. /\ Len(raw') + Len(fed') + Len(Coming') + Len(wire') = sent'
        /\ \A i \in DOMAIN fed' : fed'[i] = peer'.script[Len(raw') + i]
        /\ \A i \in DOMAIN wire' :
             wire'[i] = peer'.script[Len(raw') + Len(fed') + Len(Coming') + i]
    BY <1>3, <2>3, <2>4
  <2>6. DOMAIN Coming' = {}
    BY <2>3, <2>4
  <2>7. QED BY <2>1, <2>2, <2>5, <2>6 DEF InOrder
<1>8. Accounted'
  <2>1. Len(fed) \in Nat /\ Len(buf) \in Nat /\ hs \in Nat /\ Len(out) \in Nat /\ Len(dec) \in Nat
    BY DEF IInv, TypeOK
  <2>2. /\ k >= 0 /\ hs <= k /\ (~TlsShaken => k = hs)
        /\ (TlsShaken => k = hs + (Len(out) + Len(dec)) + 0)
        /\ \A i \in 1..hs : fed[i][1] = "h"
        /\ Len(out) + Len(dec) <= Count("r", peer.script)
    <3>1. /\ k >= 0 /\ (~TlsShaken => k = hs)
          /\ (TlsShaken => k = hs + (Len(out) + Len(dec)) + 0)
          /\ \A i \in 1..hs : fed[i][1] = "h"
          /\ Len(out) + Len(dec) <= Count("r", peer.script)
      BY <1>2, <1>4 DEF IInv, Accounted
    <3> HIDE DEF k
    <3>2. QED BY <2>1, <3>1
  <2>3. Len(fed') - Len(buf') = k
    BY <1>3, <2>1
  <2>4. hs <= Len(fed)
    BY <2>1, <2>2
  <2> HIDE DEF k
  <2>5. \A i \in 1..hs : fed'[i][1] = "h"
    <3> TAKE i \in 1..hs
    <3>1. i \in 1..Len(fed)
      BY <2>1, <2>4
    <3>2. fed[i][1] = "h"
      BY <2>2
    <3>3. QED BY <1>3, <3>1, <3>2
  <2>6. /\ ~TlsShaken => out = <<>> /\ dec = <<>>
        /\ \A i \in DOMAIN out : out[i] = i
        /\ \A i \in DOMAIN dec : dec[i] = Len(out) + i
    BY <1>1, <1>2 DEF IInv, Accounted, Over
  <2>7. At' \notin Opening \cup {"resolve", "address", "connecting"}
    BY <1>1 DEF Opening
  <2>8. \A i \in DOMAIN buf' : buf'[i] = fed'[Len(fed') - Len(buf') + i]
    BY <1>3, <2>3 DEF k
  <2>9. /\ Len(fed') - Len(buf') >= 0
        /\ ~TlsShaken' => Len(fed') - Len(buf') = hs'
        /\ TlsShaken' => Len(fed') - Len(buf')
                           = hs' + (Len(out') + Len(dec')) + (IF peer_closed' THEN 1 ELSE 0)
    BY <1>2, <1>4, <2>2, <2>3
  <2>10. /\ \A i \in 1..hs' : fed'[i][1] = "h"
         /\ Len(out') + Len(dec') <= Count("r", peer'.script)
         /\ ~peer_closed'
    <3>1. \A i \in 1..hs' : fed'[i][1] = "h"
      BY <2>5
    <3>2. Len(out') + Len(dec') <= Count("r", peer'.script)
      BY <2>2
    <3>3. QED BY <1>4, <3>1, <3>2
  <2>11. QED BY <1>2, <2>6, <2>7, <2>8, <2>9, <2>10 DEF Accounted
<1>9. QED BY <1>5, <1>6, <1>7, <1>8 DEF IInv

LEMMA FilledInv ==
  ASSUME IInv, Filled, UNCHANGED connVars
  PROVE  IInv'
<1>1. /\ pc = "filled"
      /\ UNCHANGED <<now, dns, addr, fds, sock, misused, cfg, peer, hs, sent>>
      /\ UNCHANGED <<wire, raw, dec, out, peer_closed, in>>
  BY DEF Filled, FailTls, clock, sockets, call, peerEnd, request, given, connVars
<1>2. \/ pc' = "dropping" /\ held' = held \ {"tls"} /\ UNCHANGED <<buf, fed>>
      \/ pc' = "shake" /\ held' = held /\ Append2Tls
  BY DEF Filled, FailTls, sockets
<1>3. At = "filled"
  BY <1>1 DEF At
<1>4. CASE pc' = "dropping"
  BY <1>1, <1>2, <1>3, <1>4, Drops DEF IInv, TypeOK, Shaking
<1>5. CASE pc' = "shake"
  BY <1>1, <1>2, <1>5, FedInv
<1>6. QED BY <1>2, <1>4, <1>5

LEMMA FillInv ==
  ASSUME IInv, Fill, UNCHANGED connVars
  PROVE  IInv'
<1>1. /\ pc = "fill"
      /\ UNCHANGED <<now, dns, addr, fds, sock, held, misused, cfg, peer, hs, sent>>
      /\ UNCHANGED <<wire, raw, dec, out, peer_closed, in>>
  BY DEF Fill, clock, sockets, call, peerEnd, request, connVars
<1>2. \/ pc' = "dropping" /\ UNCHANGED <<buf, fed>>
      \/ pc' = "open" /\ UNCHANGED <<buf, fed>> /\ in.units = <<>>
      \/ pc' = "read" /\ Append2Tls
  BY DEF Fill
<1>3. At = "fill"
  BY <1>1 DEF At
<1>4. CASE pc' = "dropping"
  BY <1>1, <1>2, <1>3, <1>4, Drops DEF IInv, TypeOK, Using
<1>5. CASE pc' = "read"
  BY <1>1, <1>2, <1>5, FedInv
<1>6. CASE pc' = "open"
  <2>1. At' = "open" /\ Coming' = Coming /\ UNCHANGED <<buf, fed>>
    BY <1>1, <1>2, <1>6 DEF At, Coming
  <2>2. cfg.https
    BY <1>3 DEF IInv, AsConfigured, Using
  <2>3. TlsShaken /\ TlsShaken' /\ TlsUp /\ TlsUp'
    BY <1>1, <1>3, <2>1, <2>2 DEF TlsUp, TlsShaken, Using
  <2>4. AsConfigured' /\ Holding' /\ InTime' /\ Checked' /\ InOrder' /\ TypeOK'
    <3>1. buf' \in Seq(Units) /\ dec' \in Seq(Nat) /\ out' \in Seq(Nat)
      BY <1>1, <2>1 DEF IInv, TypeOK
    <3>2. QED BY <1>1, <1>3, <1>6, <2>1, <2>2, <2>3, <3>1, UsingMoves
  <2>5. Accounted'
    BY <1>1, <1>3, <2>1, <2>3, MovesAccounted DEF Opening, Over, Early
  <2>6. QED BY <2>4, <2>5 DEF IInv
<1>7. QED BY <1>2, <1>4, <1>5, <1>6
-----------------------------------------------------------------------------
(* What the TLS engine takes.                                              *)

\* Where the buffer is in the script.
LEMMA Buffered ==
  ASSUME IInv, TlsUp
  PROVE  LET a == AnswerLen(peer)
             k == Len(fed) - Len(buf)
         IN  /\ a \in Nat /\ k \in Nat /\ Len(buf) \in Nat /\ a = Len(raw)
             /\ Len(fed) = k + Len(buf)
             /\ a + Len(fed) + Len(Coming) + Len(wire) = sent /\ a + Len(fed) <= sent
             /\ sent \in Nat /\ sent <= Len(peer.script)
             /\ \A i \in DOMAIN buf : buf[i] = fed[k + i]
             /\ \A i \in DOMAIN buf :
                  buf[i] = peer.script[a + k + i] /\ a + k + i \in DOMAIN peer.script
             /\ \A i \in DOMAIN fed : fed[i] = peer.script[a + i] /\ a + i \in DOMAIN peer.script
<1> DEFINE a == AnswerLen(peer)
           k == Len(fed) - Len(buf)
<1>1. At \notin Over
  BY DEF TlsUp, TlsShaken, Shaking, Using, Over
<1>2. /\ {raw, fed, Coming, wire, buf, peer.script} \subseteq Seq(Units)
      /\ Len(raw) + Len(fed) + Len(Coming) + Len(wire) = sent /\ sent <= Len(peer.script)
      /\ \A i \in DOMAIN fed : fed[i] = peer.script[Len(raw) + i]
  BY <1>1, Placed
<1>3. Len(raw) = a
  BY DEF IInv, InOrder
<1>4. k >= 0 /\ \A i \in DOMAIN buf : buf[i] = fed[k + i]
  BY DEF IInv, Accounted
<1>5. /\ Len(raw) \in Nat /\ Len(fed) \in Nat /\ Len(Coming) \in Nat /\ Len(wire) \in Nat
      /\ Len(buf) \in Nat /\ Len(peer.script) \in Nat /\ sent \in Nat
  BY <1>2 DEF IInv, TypeOK
<1>6. k \in Nat /\ Len(fed) = k + Len(buf)
  BY <1>4, <1>5
<1>7. a + Len(fed) <= sent /\ a + Len(fed) <= Len(peer.script)
  BY <1>2, <1>3, <1>5
<1> HIDE DEF a, k
<1>8. \A i \in DOMAIN fed : fed[i] = peer.script[a + i] /\ a + i \in DOMAIN peer.script
  <2> TAKE i \in DOMAIN fed
  <2>1. fed[i] = peer.script[a + i]
    BY <1>2, <1>3
  <2>2. i \in 1..Len(fed)
    BY <1>2
  <2>3. a + i \in 1..Len(peer.script)
    BY <1>3, <1>5, <1>7, <2>2
  <2>4. QED BY <1>2, <2>1, <2>3
<1>9. \A i \in DOMAIN buf : buf[i] = peer.script[a + k + i] /\ a + k + i \in DOMAIN peer.script
  <2> TAKE i \in DOMAIN buf
  <2>1. i \in 1..Len(buf)
    BY <1>2
  <2>2. k + i \in 1..Len(fed)
    BY <1>5, <1>6, <2>1
  <2>3. k + i \in DOMAIN fed /\ a + (k + i) = a + k + i
    BY <1>2, <1>3, <1>5, <1>6, <2>1, <2>2
  <2>4. QED BY <1>4, <1>8, <2>3
<1>10. QED BY <1>2, <1>3, <1>4, <1>5, <1>6, <1>7, <1>8, <1>9 DEF a, k

\* A round of the handshake takes messages of the handshake and nothing else.
LEMMA TakesMessages ==
  ASSUME IInv, TlsUp, ~TlsShaken, NEW n \in Taken(buf),
         buf # <<>> => Head(buf)[1] = "h"
  PROVE  n \in 0..Len(buf) /\ \A i \in 1..n : buf[i][1] = "h"
<1>1. buf \in Seq(Units) /\ Len(buf) \in Nat /\ DOMAIN buf = 1..Len(buf)
  BY DEF IInv, TypeOK
<1>2. CASE buf = <<>>
  <2>1. Messages(buf) = 0
    <3>1. \A i \in DOMAIN buf : buf[i][1] # "h"
      BY <1>2
    <3>2. QED BY <1>1, <3>1, CountNone DEF Messages
  <2>2. n = 0
    BY <2>1 DEF Taken
  <2>3. QED BY <1>1, <2>2
<1>3. CASE buf # <<>>
  <2> DEFINE a == AnswerLen(peer)
             k == Len(fed) - Len(buf)
  <2>1. PICK b \in Nat, c \in Nat, d \in Nat : Parts(peer, b, c, d)
    BY ScriptParts DEF IInv, TypeOK
  <2>2. /\ a \in Nat /\ k \in Nat
        /\ \A i \in DOMAIN buf :
             buf[i] = peer.script[a + k + i] /\ a + k + i \in DOMAIN peer.script
    BY Buffered
  <2>3. Len(buf) >= 1 /\ buf[1][1] = "h"
    <3>1. Len(buf) # 0 /\ Head(buf) = buf[1]
      BY <1>1, <1>3, EmptySeq
    <3>2. QED BY <1>1, <1>3, <3>1
  <2> HIDE DEF a, k
  <2>4. \A i \in DOMAIN buf : buf[i][1] = "h" <=> b < a + k + i /\ a + k + i <= c
    BY <2>1, <2>2 DEF Parts
  <2>5. b < a + k + 1 /\ a + k + 1 <= c
    BY <1>1, <2>3, <2>4
  <2> DEFINE hi == IF Len(buf) <= c - (a + k) THEN Len(buf) ELSE c - (a + k)
  <2>6. hi \in Nat /\ hi <= Len(buf) /\ 0 <= hi
    BY <1>1, <2>2, <2>5
  <2>7. \A i \in DOMAIN buf : buf[i][1] = "h" <=> 0 < i /\ i <= hi
    <3> TAKE i \in DOMAIN buf
    <3>1. i \in 1..Len(buf)
      BY <1>1
    <3>2. (b < a + k + i /\ a + k + i <= c) <=> 0 < i /\ i <= hi
      BY <1>1, <2>2, <2>5, <3>1
    <3>3. QED BY <2>4, <3>2
  <2> HIDE DEF hi
  <2>8. Messages(buf) = hi - 0
    <3>1. 0 \in Nat /\ 0 <= hi /\ hi \in Nat /\ hi <= Len(buf) /\ buf \in Seq(Units)
      BY <1>1, <2>6
    <3>2. Count("h", buf) = hi - 0
      BY <2>7, <3>1, CountOfInterval
    <3>3. QED BY <3>2 DEF Messages
  <2>9. n \in 0..hi
    BY <2>6, <2>8 DEF Taken
  <2>10. n \in 0..Len(buf)
    BY <1>1, <2>6, <2>9
  <2>11. \A i \in 1..n : buf[i][1] = "h"
    <3> TAKE i \in 1..n
    <3>1. i \in DOMAIN buf /\ 0 < i /\ i <= hi
      BY <1>1, <2>6, <2>9, <2>10
    <3>2. QED BY <2>7, <3>1
  <2>12. QED BY <2>10, <2>11
<1>4. QED BY <1>2, <1>3

LEMMA ShakeInv ==
  ASSUME IInv, Shake, UNCHANGED connVars
  PROVE  IInv'
<1>1. /\ pc = "shake" /\ At = "shake"
      /\ UNCHANGED <<now, dns, addr, fds, sock, misused, cfg, peer, sent>>
      /\ UNCHANGED <<wire, raw, dec, out, peer_closed, in, fed>>
  BY DEF Shake, FailTls, clock, sockets, call, peerEnd, request, engine, given, connVars, At
<1>2. TlsUp /\ ~TlsShaken
  BY <1>1 DEF TlsUp, TlsShaken, Shaking, Using
<1>3. \/ pc' = "dropping" /\ held' = held \ {"tls"} /\ UNCHANGED <<hs, buf>>
      \/ /\ buf # <<>> => Head(buf)[1] = "h"
         /\ \E n \in Taken(buf) :
              /\ hs' = hs + n /\ buf' = SubSeq(buf, n + 1, Len(buf))
              /\ \/ pc' = "dropping" /\ held' = held \ {"tls"}
                 \/ /\ held' = held /\ (OpenSSL /\ hs < 2 /\ hs' >= 2 => Verdict = "OK")
                    /\ \/ pc' = "send" /\ back' = "flushed"
                       \/ pc' = "made" /\ hs' = HsLen(peer)
                       \/ pc' = "recv" /\ back' = "filled"
  BY DEF Shake, FailTls, KeepTrailing, Writes, Reads, engine, sockets
<1>4. CASE pc' = "dropping" /\ held' = held \ {"tls"} /\ UNCHANGED <<hs, buf>>
  BY <1>1, <1>4, Drops DEF IInv, TypeOK, Shaking
<1>5. ASSUME buf # <<>> => Head(buf)[1] = "h", NEW n \in Taken(buf),
             hs' = hs + n, buf' = SubSeq(buf, n + 1, Len(buf)),
             \/ pc' = "dropping" /\ held' = held \ {"tls"}
             \/ /\ held' = held /\ (OpenSSL /\ hs < 2 /\ hs' >= 2 => Verdict = "OK")
                /\ \/ pc' = "send" /\ back' = "flushed"
                   \/ pc' = "made" /\ hs' = HsLen(peer)
                   \/ pc' = "recv" /\ back' = "filled"
      PROVE  IInv'
  <2>1. n \in 0..Len(buf) /\ \A i \in 1..n : buf[i][1] = "h"
    BY <1>2, <1>5, TakesMessages
  <2>2. buf \in Seq(Units) /\ fed \in Seq(Units) /\ hs \in Nat
    BY DEF IInv, TypeOK
  <2>3. /\ buf' \in Seq(Units) /\ Len(buf') = Len(buf) - n
        /\ \A i \in 1..Len(buf) - n : buf'[i] = buf[n + i]
    BY <1>5, <2>1, <2>2, Cut
  <2>4. hs' \in Nat
    BY <1>5, <2>1, <2>2
  <2>5. CASE pc' = "dropping" /\ held' = held \ {"tls"}
    BY <1>1, <2>3, <2>4, <2>5, Drops DEF IInv, TypeOK, Shaking
  <2>6. CASE /\ held' = held /\ (OpenSSL /\ hs < 2 /\ hs' >= 2 => Verdict = "OK")
             /\ \/ pc' = "send" /\ back' = "flushed"
                \/ pc' = "made" /\ hs' = HsLen(peer)
                \/ pc' = "recv" /\ back' = "filled"
    <3>1. /\ At' \in {"flushed", "made", "filled"} /\ Coming' = Coming
          /\ At' = "made" => hs' = HsLen(peer)
      BY <1>1, <2>6 DEF At, Coming
    <3>2. TlsUp' /\ (TlsShaken' <=> At' = "made") /\ cfg.https
      BY <1>1, <3>1 DEF TlsUp, TlsShaken, Shaking, Using, IInv, AsConfigured
    <3>3. TypeOK'
      BY <1>1, <2>3, <2>4, <2>6, <3>1 DEF IInv, TypeOK, At, Shaking, Using
    <3>4. InTime' /\ AsConfigured'
      BY <1>1, <3>1, <3>2 DEF IInv, InTime, AsConfigured, Opening, Shaking, Using
    <3>5. Holding'
      BY <1>1, <1>2, <2>6, <3>1, <3>2 DEF IInv, Holding, Opening, Shaking, Using
    <3>6. Checked'
      <4>1. OpenSSL /\ hs' >= 2 => Verdict = "OK"
        BY <1>2, <2>2, <2>6 DEF IInv, Checked
      <4>2. ConfigCheck(cfg.asks, cfg.backend)
        BY <1>2 DEF IInv, Checked
      <4>3. QED BY <1>1, <3>1, <3>2, <4>1, <4>2 DEF Checked, OpenSSL, Verdict
    <3>7. InOrder'
      BY <1>1, <1>2, <3>1, <3>2, MovesInOrder DEF Opening, Over, Early
    <3>8. /\ Len(fed) - Len(buf) = hs /\ \A i \in 1..hs : fed[i][1] = "h"
          /\ Len(buf) \in Nat /\ Len(fed) \in Nat
          /\ \A i \in DOMAIN buf : buf[i] = fed[hs + i]
      BY <1>2, <2>2 DEF IInv, Accounted
    <3>9. /\ Len(buf') \in Nat /\ Len(fed) - Len(buf') = hs' /\ Len(fed) >= hs'
      <4> DEFINE p == Len(fed)
                 q == Len(buf)
                 q1 == Len(buf')
      <4>1. p - q = hs /\ q1 = q - n /\ p \in Nat /\ q \in Nat /\ n \in 0..q
        BY <2>1, <2>3, <3>8
      <4>2. hs' = hs + n /\ hs \in Nat
        BY <1>5, <2>2
      <4> HIDE DEF p, q, q1
      <4>3. q1 \in Nat /\ p - q1 = hs + n /\ p >= hs + n
        BY <4>1, <4>2
      <4>4. QED BY <4>2, <4>3 DEF p, q1
    <3>10. \A i \in DOMAIN buf' : buf'[i] = fed[hs' + i]
      <4> TAKE i \in DOMAIN buf'
      <4>1. i \in 1..Len(buf) - n /\ n + i \in DOMAIN buf
        BY <2>1, <2>2, <2>3
      <4>2. buf'[i] = fed[hs + (n + i)]
        BY <2>3, <3>8, <4>1
      <4>3. hs + (n + i) = hs' + i
        BY <1>5, <2>1, <2>2, <4>1
      <4>4. QED BY <4>2, <4>3
    <3>11. \A i \in 1..hs' : fed[i][1] = "h"
      <4> TAKE i \in 1..hs'
      <4>1. CASE i \in 1..hs
        BY <3>8, <4>1
      <4>2. CASE i \notin 1..hs
        <5>1. i - hs \in 1..n /\ i - hs \in DOMAIN buf /\ hs + (i - hs) = i
          BY <1>5, <2>1, <2>2, <2>4, <4>2
        <5>2. QED BY <2>1, <3>8, <5>1
      <4>3. QED BY <4>1, <4>2
    <3>12. CASE At' = "made"
      <4>1. Accounted'
        <5>1. TypeOK /\ Accounted /\ peer \in Peers
          BY DEF IInv, TypeOK
        <5>2. QED BY <1>1, <1>2, <2>4, <3>9, <3>10, <3>11, <3>12, <5>1, ShakenAccounted
      <4>2. QED BY <3>3, <3>4, <3>5, <3>6, <3>7, <4>1 DEF IInv
    <3>13. CASE At' # "made"
      <4>1. Accounted'
        <5>1. /\ out = <<>> /\ dec = <<>> /\ ~peer_closed
              /\ Len(out) + Len(dec) <= Count("r", peer.script)
              /\ \A i \in DOMAIN out : out[i] = i
              /\ \A i \in DOMAIN dec : dec[i] = Len(out) + i
          BY <1>1, <1>2 DEF IInv, Accounted, Over
        <5>2. At' \notin Opening \cup {"resolve", "address", "connecting"}
          BY <3>1 DEF Opening
        <5>3. /\ Len(fed') - Len(buf') = hs' /\ hs' >= 0
              /\ \A i \in DOMAIN buf' : buf'[i] = fed'[Len(fed') - Len(buf') + i]
              /\ \A i \in 1..hs' : fed'[i][1] = "h"
          BY <1>1, <2>4, <3>9, <3>10, <3>11
        <5>4. Len(out') + Len(dec') <= Count("r", peer'.script) /\ ~peer_closed'
          BY <1>1, <5>1
        <5>5. QED BY <1>1, <3>2, <3>13, <5>1, <5>2, <5>3, <5>4 DEF Accounted
      <4>2. QED BY <3>3, <3>4, <3>5, <3>6, <3>7, <4>1 DEF IInv
    <3>14. QED BY <3>12, <3>13
  <2>7. QED BY <1>5, <2>5, <2>6
<1>6. QED BY <1>3, <1>4, <1>5
-----------------------------------------------------------------------------
(* The record layer.                                                       *)

\* After the handshake the script is where it says: nothing but the answer
\* came before the messages, and they have all been taken.
LEMMA Handshaken ==
  ASSUME IInv, TlsShaken, NEW b \in Nat, NEW c \in Nat, NEW d \in Nat, Parts(peer, b, c, d)
  PROVE  c = AnswerLen(peer) + hs
<1> DEFINE a == AnswerLen(peer)
<1>1. TlsUp /\ hs = HsLen(peer)
  BY DEF TlsUp, IInv, Checked
<1>2. hs \in {2, 3}
  BY <1>1 DEF HsLen
<1>3. /\ a \in Nat /\ Len(buf) \in Nat
      /\ \A i \in DOMAIN fed : fed[i] = peer.script[a + i] /\ a + i \in DOMAIN peer.script
  BY <1>1, Buffered
<1>4. hs <= Len(fed) /\ \A i \in 1..hs : fed[i][1] = "h"
  <2>1. /\ Len(fed) - Len(buf) = hs + (Len(out) + Len(dec)) + (IF peer_closed THEN 1 ELSE 0)
        /\ \A i \in 1..hs : fed[i][1] = "h"
    BY <1>1 DEF IInv, Accounted
  <2>2. Len(out) \in Nat /\ Len(dec) \in Nat /\ Len(fed) \in Nat
    BY DEF IInv, TypeOK
  <2>3. QED BY <1>2, <1>3, <2>1, <2>2
<1>5. DOMAIN fed = 1..Len(fed) /\ Len(fed) \in Nat
  BY DEF IInv, TypeOK
<1>6. 1 \in DOMAIN fed /\ hs \in DOMAIN fed /\ 1 \in 1..hs /\ hs \in 1..hs
  BY <1>2, <1>4, <1>5
<1>7. /\ peer.script[a + 1][1] = "h" /\ a + 1 \in DOMAIN peer.script
      /\ peer.script[a + hs][1] = "h" /\ a + hs \in DOMAIN peer.script
  BY <1>3, <1>4, <1>6
<1>8. b < a + 1 /\ a + hs <= c /\ a <= b /\ c - b <= hs
  BY <1>1, <1>7 DEF Parts
<1> HIDE DEF a
<1>9. c = a + hs
  BY <1>2, <1>3, <1>8
<1>10. QED BY <1>9 DEF a

\* What the buffer holds: the records not decrypted yet, in order, and after
\* the last of them the end.
LEMMA Records ==
  ASSUME IInv, TlsShaken, ~peer_closed
  PROVE  LET n == Len(out) + Len(dec)
             R == Count("r", peer.script)
         IN  /\ n \in Nat /\ R \in Nat /\ n <= R /\ Len(buf) \in Nat
             /\ \A i \in DOMAIN buf :
                  /\ buf[i][1] = "r" <=> n + i <= R
                  /\ n + i <= R => buf[i][2] = n + i
                  /\ buf[i][1] = "fin" => n + i = R + 1
                  /\ n + i <= R + 1
<1> DEFINE n == Len(out) + Len(dec)
           R == Count("r", peer.script)
           a == AnswerLen(peer)
           k == Len(fed) - Len(buf)
<1>1. PICK b \in Nat, c \in Nat, d \in Nat : Parts(peer, b, c, d)
  BY ScriptParts DEF IInv, TypeOK
<1>2. c = a + hs
  BY <1>1, Handshaken
<1>3. TlsUp
  BY DEF TlsUp
<1>4. /\ a \in Nat /\ k \in Nat /\ Len(buf) \in Nat
      /\ \A i \in DOMAIN buf :
           buf[i] = peer.script[a + k + i] /\ a + k + i \in DOMAIN peer.script
  BY <1>3, Buffered
<1>5. k = hs + n + 0 /\ n <= R
  BY <1>3 DEF IInv, Accounted
<1>6. n \in Nat /\ hs \in Nat
  BY DEF IInv, TypeOK
<1>7. R = d - c /\ d \in Nat /\ c <= d /\ Len(peer.script) <= d + 1
  BY <1>1 DEF Parts
<1>8. peer.script \in Seq(Units) /\ buf \in Seq(Units)
  BY ScriptParts DEF IInv, TypeOK
<1> HIDE DEF n, R, a, k
<1>9. R \in Nat
  BY <1>7
<1>10. ASSUME NEW i \in DOMAIN buf
       PROVE  /\ buf[i][1] = "r" <=> n + i <= R
              /\ n + i <= R => buf[i][2] = n + i
              /\ buf[i][1] = "fin" => n + i = R + 1
              /\ n + i <= R + 1
  <2>1. i \in Nat /\ i >= 1
    BY <1>8
  <2> DEFINE j == a + k + i
  <2>2. j = c + n + i /\ buf[i] = peer.script[j] /\ j \in DOMAIN peer.script
    BY <1>2, <1>4, <1>5, <1>6, <2>1
  <2>3. j \in Nat /\ j <= d + 1
    <3>1. j \in 1..Len(peer.script) /\ Len(peer.script) \in Nat
      BY <1>8, <2>2
    <3>2. QED BY <1>7, <3>1
  <2> HIDE DEF j
  <2>4. /\ peer.script[j][1] = "r" <=> c < j /\ j <= d
        /\ c < j /\ j <= d => peer.script[j][2] = j - c
        /\ peer.script[j][1] = "fin" <=> d < j
    BY <1>1, <2>2 DEF Parts
  <2>5. j = c + n + i /\ R = d - c /\ c \in Nat /\ d \in Nat /\ n \in Nat
    BY <1>6, <1>7, <2>2
  <2>6. c < j /\ n + i <= R + 1 /\ j - c = n + i
    BY <2>1, <2>3, <2>5
  <2>7. (j <= d <=> n + i <= R) /\ (d < j => n + i = R + 1)
    BY <2>1, <2>3, <2>5
  <2>8. QED BY <2>2, <2>4, <2>6, <2>7
<1>11. QED BY <1>4, <1>5, <1>6, <1>9, <1>10 DEF n, R

\* The plaintext of some units.
LEMMA PlainOf ==
  ASSUME NEW b \in Seq(Units)
  PROVE  /\ Plain(b) \in Seq(Nat) /\ Len(Plain(b)) = Len(b)
         /\ \A i \in 1..Len(b) : Plain(b)[i] = b[i][2]
<1>1. DOMAIN b = 1..Len(b) /\ Len(b) \in Nat /\ \A i \in 1..Len(b) : b[i] \in Units
  OBVIOUS
<1>2. \A i \in 1..Len(b) : b[i][2] \in Nat
  BY <1>1 DEF Units
<1>3. Plain(b) = [i \in 1..Len(b) |-> b[i][2]]
  BY <1>1 DEF Plain
<1>4. QED BY <1>1, <1>2, <1>3

\* A step of the record layer accounts for what it takes from the buffer.
LEMMA UsingAccounted ==
  ASSUME IInv, TlsShaken, TlsShaken', UNCHANGED <<cfg, peer, hs, fed>>,
         \A i \in DOMAIN out' : out'[i] = i,
         \A i \in DOMAIN dec' : dec'[i] = Len(out') + i,
         Len(fed) - Len(buf') >= 0,
         Len(fed) - Len(buf') = hs + (Len(out') + Len(dec')) + (IF peer_closed' THEN 1 ELSE 0),
         \A i \in DOMAIN buf' : buf'[i] = fed[Len(fed) - Len(buf') + i],
         Len(out') + Len(dec') <= Count("r", peer.script),
         peer_closed' => /\ Len(out') + Len(dec') = Count("r", peer.script) /\ buf' = <<>>
                         /\ At' # "fill" /\ ~OpenSSL
  PROVE  Accounted'
<1>1. TlsUp /\ TlsUp'
  BY DEF TlsUp
<1>2. At' \notin Opening \cup {"resolve", "address", "connecting"}
  BY DEF TlsShaken, Opening, Using
<1>3. \A i \in 1..hs' : fed'[i][1] = "h"
  BY <1>1 DEF IInv, Accounted
<1>4. peer' = peer /\ fed' = fed /\ hs' = hs /\ cfg' = cfg
  OBVIOUS
<1>5. OpenSSL' <=> OpenSSL
  BY DEF OpenSSL
<1>6. QED BY <1>1, <1>2, <1>3, <1>4, <1>5 DEF Accounted

LEMMA HandOverInv ==
  ASSUME IInv, HandOver, UNCHANGED connVars
  PROVE  IInv'
<1>1. /\ pc = "read" /\ pc' = "open"
      /\ UNCHANGED <<now, dns, addr, fds, sock, held, misused, cfg, peer, hs, sent>>
      /\ UNCHANGED <<wire, raw, fed, buf, peer_closed, in>>
  BY DEF HandOver, clock, sockets, call, peerEnd, request, connVars
<1>2. PICK m \in 1..Len(dec) :
        out' = out \o SubSeq(dec, 1, m) /\ dec' = SubSeq(dec, m + 1, Len(dec))
  BY DEF HandOver
<1>3. At = "read" /\ At' = "open" /\ Coming' = Coming
  BY <1>1 DEF At, Coming
<1>4. cfg.https
  BY <1>3 DEF IInv, AsConfigured, Using
<1>5. TlsShaken /\ TlsShaken' /\ TlsUp /\ TlsUp'
  BY <1>1, <1>3, <1>4 DEF TlsUp, TlsShaken, Using
<1>6. dec \in Seq(Nat) /\ out \in Seq(Nat) /\ m \in 0..Len(dec)
  BY <1>2 DEF IInv, TypeOK
<1> DEFINE u == SubSeq(dec, 1, m)
<1>7. /\ u \in Seq(Nat) /\ Len(u) = m /\ \A i \in 1..m : u[i] = dec[i]
      /\ dec' \in Seq(Nat) /\ Len(dec') = Len(dec) - m
      /\ \A i \in 1..Len(dec) - m : dec'[i] = dec[m + i]
  <2> DEFINE w == SubSeq(dec, m + 1, Len(dec))
  <2>1. /\ u \in Seq(Nat) /\ Len(u) = m /\ \A i \in 1..m : u[i] = dec[i]
        /\ w \in Seq(Nat) /\ Len(w) = Len(dec) - m
        /\ \A i \in 1..Len(dec) - m : w[i] = dec[m + i]
    BY <1>6, Cut, SMTT(30)
  <2> HIDE DEF u
  <2>2. dec' = w
    BY <1>2
  <2> HIDE DEF w
  <2>3. QED BY <2>1, <2>2
<1>8. out' = out \o u
  BY <1>2
<1> HIDE DEF u
<1>9. /\ out' \in Seq(Nat) /\ Len(out') = Len(out) + m
      /\ \A i \in 1..Len(out) + m : out'[i] = IF i <= Len(out) THEN out[i] ELSE u[i - Len(out)]
  <2>1. /\ out \o u \in Seq(Nat) /\ Len(out \o u) = Len(out) + Len(u)
        /\ \A i \in 1..Len(out) + Len(u) :
             (out \o u)[i] = IF i <= Len(out) THEN out[i] ELSE u[i - Len(out)]
    BY <1>6, <1>7, ConcatProperties
  <2>2. Len(u) = m
    BY <1>7
  <2>3. QED BY <1>8, <2>1, <2>2
<1>10. /\ \A i \in DOMAIN out : out[i] = i
       /\ \A i \in DOMAIN dec : dec[i] = Len(out) + i
  BY DEF IInv, Accounted
<1>11. \A i \in DOMAIN out' : out'[i] = i
  <2> TAKE i \in DOMAIN out'
  <2>1. i \in 1..Len(out) + m /\ Len(out) \in Nat
    BY <1>6, <1>9
  <2>2. CASE i <= Len(out)
    <3>1. i \in DOMAIN out
      BY <1>6, <2>1, <2>2
    <3>2. QED BY <1>9, <1>10, <2>1, <2>2, <3>1
  <2>3. CASE ~(i <= Len(out))
    <3>1. i - Len(out) \in 1..m /\ i - Len(out) \in DOMAIN dec /\ Len(out) + (i - Len(out)) = i
      BY <1>6, <2>1, <2>3
    <3>2. QED BY <1>7, <1>9, <1>10, <2>1, <2>3, <3>1
  <2>4. QED BY <2>2, <2>3
<1>12. \A i \in DOMAIN dec' : dec'[i] = Len(out') + i
  <2> TAKE i \in DOMAIN dec'
  <2>1. i \in 1..Len(dec) - m /\ m + i \in DOMAIN dec /\ Len(out) \in Nat
    <3>1. DOMAIN dec' = 1..Len(dec) - m
      BY <1>7
    <3>2. Len(dec) \in Nat /\ Len(out) \in Nat /\ DOMAIN dec = 1..Len(dec)
      BY <1>6
    <3>3. QED BY <1>6, <3>1, <3>2
  <2>2. dec'[i] = Len(out) + (m + i)
    BY <1>7, <1>10, <2>1
  <2>3. QED BY <1>6, <1>9, <2>1, <2>2
<1>13. Len(out') + Len(dec') = Len(out) + Len(dec)
  BY <1>6, <1>7, <1>9
<1>14. AsConfigured' /\ Holding' /\ InTime' /\ Checked' /\ InOrder' /\ TypeOK'
  <2>1. buf' \in Seq(Units) /\ dec' \in Seq(Nat) /\ out' \in Seq(Nat)
    BY <1>1, <1>7, <1>9 DEF IInv, TypeOK
  <2>2. QED BY <1>1, <1>3, <1>4, <1>5, <2>1, UsingMoves
<1>15. Accounted'
  <2>1. /\ Len(fed) - Len(buf) >= 0
        /\ Len(fed) - Len(buf) = hs + (Len(out) + Len(dec)) + (IF peer_closed THEN 1 ELSE 0)
        /\ \A i \in DOMAIN buf : buf[i] = fed[Len(fed) - Len(buf) + i]
        /\ Len(out) + Len(dec) <= Count("r", peer.script)
        /\ peer_closed => /\ Len(out) + Len(dec) = Count("r", peer.script) /\ buf = <<>> /\ ~OpenSSL
    BY <1>5 DEF IInv, Accounted
  <2>2. buf' = buf /\ peer_closed' = peer_closed /\ At' # "fill"
    BY <1>1, <1>3
  <2>3. QED BY <1>1, <1>5, <1>11, <1>12, <1>13, <2>1, <2>2, UsingAccounted
<1>16. QED BY <1>14, <1>15 DEF IInv
\* Records are taken from the front of the buffer: q units, all of records.
LEMMA Decrypts ==
  ASSUME IInv, TlsShaken, ~peer_closed, dec = <<>>, NEW q \in 0..Len(buf),
         Len(out) + q <= Count("r", peer.script)
  PROVE  LET u == Plain(SubSeq(buf, 1, q))
             w == SubSeq(buf, q + 1, Len(buf))
             k == Len(fed) - Len(w)
         IN  /\ u \in Seq(Nat) /\ Len(u) = q /\ \A i \in DOMAIN u : u[i] = Len(out) + i
             /\ w \in Seq(Units) /\ Len(w) = Len(buf) - q
             /\ \A i \in 1..Len(buf) - q : w[i] = buf[q + i]
             /\ k >= 0 /\ k = hs + (Len(out) + q) /\ \A i \in DOMAIN w : w[i] = fed[k + i]
<1> DEFINE v == SubSeq(buf, 1, q)
           u == Plain(v)
           w == SubSeq(buf, q + 1, Len(buf))
           n == Len(out) + Len(dec)
           k0 == Len(fed) - Len(buf)
<1>1. buf \in Seq(Units) /\ fed \in Seq(Units) /\ out \in Seq(Nat) /\ hs \in Nat
  BY DEF IInv, TypeOK
<1>2. /\ v \in Seq(Units) /\ Len(v) = q /\ \A i \in 1..q : v[i] = buf[i]
      /\ w \in Seq(Units) /\ Len(w) = Len(buf) - q
      /\ \A i \in 1..Len(buf) - q : w[i] = buf[q + i]
  BY <1>1, Cut
<1>3. u \in Seq(Nat) /\ Len(u) = q /\ \A i \in 1..q : u[i] = v[i][2]
  BY <1>2, PlainOf
<1>4. n = Len(out) /\ Len(out) \in Nat /\ Len(buf) \in Nat /\ Len(fed) \in Nat
  BY <1>1
<1>5. /\ Count("r", peer.script) \in Nat
      /\ \A i \in DOMAIN buf : n + i <= Count("r", peer.script) => buf[i][2] = n + i
  BY Records
<1>6. \A i \in 1..q : u[i] = Len(out) + i
  <2> TAKE i \in 1..q
  <2>1. i \in DOMAIN buf /\ n + i <= Count("r", peer.script)
    BY <1>1, <1>4, <1>5
  <2>2. buf[i][2] = n + i
    BY <1>5, <2>1
  <2>3. QED BY <1>2, <1>3, <1>4, <2>2
<1>7. k0 = hs + Len(out) /\ \A i \in DOMAIN buf : buf[i] = fed[k0 + i]
  <2>1. TlsUp
    BY DEF TlsUp
  <2>2. k0 = hs + n + 0 /\ \A i \in DOMAIN buf : buf[i] = fed[k0 + i]
    BY <2>1 DEF IInv, Accounted
  <2> HIDE DEF k0, n
  <2>3. QED BY <1>1, <1>4, <2>2
<1> DEFINE k == Len(fed) - Len(w)
<1>8. k = hs + (Len(out) + q) /\ k >= 0
  <2>1. Len(fed) - Len(buf) = hs + Len(out) /\ Len(w) = Len(buf) - q
    BY <1>2, <1>7
  <2> DEFINE P == Len(fed)  B == Len(buf)  O == Len(out)  W == Len(w)
  <2>2. P - B = hs + O /\ W = B - q /\ k = P - W
    BY <2>1
  <2>3. P \in Nat /\ B \in Nat /\ O \in Nat /\ hs \in Nat /\ q \in Nat
    BY <1>1, <1>4
  <2> HIDE DEF P, B, O, W, k, w
  <2>4. k = hs + (O + q) /\ k >= 0
    BY <2>2, <2>3
  <2>5. QED BY <2>4 DEF O
<1>9. DOMAIN u = 1..q /\ DOMAIN w = 1..Len(buf) - q
  BY <1>2, <1>3
<1> HIDE DEF k, u, v, w, k0
<1>10. \A i \in DOMAIN w : w[i] = fed[k + i]
  <2> TAKE i \in DOMAIN w
  <2>1. i \in 1..Len(buf) - q /\ q + i \in DOMAIN buf
    BY <1>1, <1>4, <1>9
  <2>2. w[i] = fed[k0 + (q + i)]
    BY <1>2, <1>7, <2>1
  <2>3. k0 + (q + i) = k + i
    BY <1>1, <1>4, <1>7, <1>8, <2>1
  <2>4. QED BY <2>2, <2>3
<1>11. \A i \in DOMAIN u : u[i] = Len(out) + i
  BY <1>6, <1>9
<1>12. QED BY <1>2, <1>3, <1>8, <1>10, <1>11 DEF k, u, v, w

LEMMA SslReadInv ==
  ASSUME IInv, SslRead, UNCHANGED connVars
  PROVE  IInv'
<1>1. /\ pc = "read" /\ dec = <<>> /\ OpenSSL
      /\ UNCHANGED <<now, dns, addr, fds, sock, held, misused, cfg, peer, hs, sent>>
      /\ UNCHANGED <<wire, raw, fed, out, peer_closed, in>>
  BY DEF SslRead, clock, sockets, peerEnd, request, connVars
<1>2. \/ /\ IsRecord(buf) /\ dec' = Plain(SubSeq(buf, 1, 2))
         /\ buf' = SubSeq(buf, 3, Len(buf)) /\ pc' = pc
      \/ UNCHANGED <<dec, buf>> /\ pc' = "open"
      \/ UNCHANGED <<dec, buf>> /\ pc' = "recv" /\ back' = "fill"
  BY DEF SslRead, Reads
<1>3. At = "read" /\ At' \in {"read", "open", "fill"} /\ Coming' = Coming
  BY <1>1, <1>2 DEF At, Coming
<1>4. cfg.https
  BY <1>3 DEF IInv, AsConfigured, Using
<1>5. TlsShaken /\ TlsShaken' /\ TlsUp /\ TlsUp'
  BY <1>1, <1>3, <1>4 DEF TlsUp, TlsShaken, Using
<1>6. ~peer_closed
  BY <1>1, <1>5 DEF IInv, Accounted
<1>7. out \in Seq(Nat) /\ buf \in Seq(Units) /\ dec \in Seq(Nat)
  BY DEF IInv, TypeOK
<1>8. CASE UNCHANGED <<dec, buf>>
  <2>1. AsConfigured' /\ Holding' /\ InTime' /\ Checked' /\ InOrder' /\ TypeOK'
    <3>1. buf' \in Seq(Units) /\ dec' \in Seq(Nat) /\ out' \in Seq(Nat)
      BY <1>1, <1>7, <1>8
    <3>2. \/ pc' \in {"read", "open"}
          \/ pc' = "recv" /\ back' = "fill"
      BY <1>1, <1>2
    <3>3. QED BY <1>1, <1>3, <1>4, <1>5, <3>1, <3>2, UsingMoves
  <2>2. Accounted'
    BY <1>1, <1>3, <1>5, <1>6, <1>8, MovesAccounted DEF Opening, Over, Early
  <2>3. QED BY <2>1, <2>2 DEF IInv
<1>9. CASE /\ IsRecord(buf) /\ dec' = Plain(SubSeq(buf, 1, 2))
           /\ buf' = SubSeq(buf, 3, Len(buf)) /\ pc' = pc
  <2> DEFINE u == Plain(SubSeq(buf, 1, 2))
             w == SubSeq(buf, 2 + 1, Len(buf))
             k == Len(fed) - Len(w)
  <2>1. 2 \in 0..Len(buf) /\ 2 \in DOMAIN buf /\ buf[2][1] = "r"
    BY <1>7, <1>9 DEF IsRecord
  <2>2. Len(out) + 2 <= Count("r", peer.script)
    <3>1. Len(out) + Len(dec) + 2 <= Count("r", peer.script)
      BY <1>5, <1>6, <2>1, Records
    <3>2. Len(out) + Len(dec) = Len(out)
      BY <1>1, <1>7
    <3>3. QED BY <3>1, <3>2
  <2>3. /\ u \in Seq(Nat) /\ Len(u) = 2 /\ \A i \in DOMAIN u : u[i] = Len(out) + i
        /\ w \in Seq(Units) /\ k >= 0 /\ k = hs + (Len(out) + 2)
        /\ \A i \in DOMAIN w : w[i] = fed[k + i]
    BY <1>1, <1>5, <1>6, <2>1, <2>2, Decrypts
  <2>4. dec' = u /\ buf' = w
    BY <1>9
  <2> HIDE DEF u, w
  <2>5. AsConfigured' /\ Holding' /\ InTime' /\ Checked' /\ InOrder' /\ TypeOK'
    <3>1. buf' \in Seq(Units) /\ dec' \in Seq(Nat) /\ out' \in Seq(Nat)
      BY <1>1, <1>7, <2>3, <2>4
    <3>2. pc' \in {"read", "open"}
      BY <1>1, <1>9
    <3>3. QED BY <1>1, <1>3, <1>4, <1>5, <3>1, <3>2, UsingMoves
  <2>6. Accounted'
    <3>1. \A i \in DOMAIN out' : out'[i] = i
      BY <1>1 DEF IInv, Accounted
    <3>2. \A i \in DOMAIN dec' : dec'[i] = Len(out') + i
      BY <1>1, <2>3, <2>4
    <3>3. Len(out') + Len(dec') = Len(out) + 2 /\ ~peer_closed' /\ Len(fed) - Len(buf') = k
      BY <1>1, <1>6, <2>3, <2>4
    <3>4. /\ Len(fed) - Len(buf') >= 0
          /\ Len(fed) - Len(buf')
               = hs + (Len(out') + Len(dec')) + (IF peer_closed' THEN 1 ELSE 0)
          /\ \A i \in DOMAIN buf' : buf'[i] = fed[Len(fed) - Len(buf') + i]
          /\ Len(out') + Len(dec') <= Count("r", peer.script)
      <4>1. hs + (Len(out) + 2) + 0 = hs + (Len(out) + 2)
        BY <1>7 DEF IInv, TypeOK
      <4> HIDE DEF k
      <4>2. QED BY <2>2, <2>3, <2>4, <3>3, <4>1
    <3>5. QED BY <1>1, <1>5, <3>1, <3>2, <3>3, <3>4, UsingAccounted
  <2>7. QED BY <2>5, <2>6 DEF IInv
<1>10. QED BY <1>2, <1>8, <1>9

\* decrypt_available() takes whole records only, and stops before the end.
LEMMA Completes ==
  ASSUME IInv, TlsShaken, ~peer_closed, dec = <<>>
  PROVE  \E q \in 0..Len(buf) :
           /\ Complete(buf) = SubSeq(buf, 1, q) /\ Len(Complete(buf)) = q
           /\ Len(out) + q <= Count("r", peer.script)
<1> DEFINE n == Len(out) + Len(dec)
           R == Count("r", peer.script)
           hi == IF Len(buf) <= R - n THEN Len(buf) ELSE R - n
<1>1. buf \in Seq(Units) /\ out \in Seq(Nat)
  BY DEF IInv, TypeOK
<1>2. n = Len(out)
  BY <1>1
<1>3. /\ n \in Nat /\ R \in Nat /\ n <= R /\ Len(buf) \in Nat
      /\ \A i \in DOMAIN buf : buf[i][1] = "r" <=> n + i <= R
  BY Records
<1> HIDE DEF n, R
<1>4. hi \in Nat /\ hi <= Len(buf) /\ n + hi <= R
  BY <1>3
<1>5. \A i \in DOMAIN buf : buf[i][1] = "r" <=> 0 < i /\ i <= hi
  <2> TAKE i \in DOMAIN buf
  <2>1. i \in 1..Len(buf)
    BY <1>1
  <2>2. n + i <= R <=> 0 < i /\ i <= hi
    BY <1>3, <2>1
  <2>3. QED BY <1>3, <2>2
<1> HIDE DEF hi
<1>6. Count("r", buf) = hi
  <2>1. 0 \in Nat /\ 0 <= hi
    BY <1>4
  <2>2. Count("r", buf) = hi - 0
    BY <1>1, <1>4, <1>5, <2>1, CountOfInterval
  <2>3. QED BY <1>4, <2>2
<1> DEFINE q == 2 * (hi \div 2)
<1>7. q \in Nat /\ q <= hi
  BY <1>4
<1>8. Complete(buf) = SubSeq(buf, 1, q)
  BY <1>6 DEF Complete
<1> HIDE DEF q
<1>9. q \in 0..Len(buf) /\ n + q <= R
  BY <1>3, <1>4, <1>7
<1>10. Len(SubSeq(buf, 1, q)) = q
  BY <1>1, <1>9, Cut
<1>11. Len(out) + q <= R
  BY <1>2, <1>9
<1>12. QED BY <1>8, <1>9, <1>10, <1>11 DEF R

LEMMA SchReadInv ==
  ASSUME IInv, SchRead, UNCHANGED connVars
  PROVE  IInv'
<1>1. /\ pc = "read" /\ dec = <<>> /\ ~OpenSSL
      /\ UNCHANGED <<now, dns, addr, fds, sock, held, misused, cfg, peer, hs, sent>>
      /\ UNCHANGED <<wire, raw, fed, out, in>>
  BY DEF SchRead, clock, sockets, peerEnd, request, connVars
<1>2. At = "read"
  BY <1>1 DEF At
<1>3. cfg.https
  BY <1>2 DEF IInv, AsConfigured, Using
<1>4. TlsShaken /\ TlsUp
  BY <1>2 DEF TlsUp, TlsShaken, Using
<1>5. out \in Seq(Nat) /\ buf \in Seq(Units) /\ dec \in Seq(Nat) /\ hs \in Nat /\ fed \in Seq(Units)
  BY DEF IInv, TypeOK
<1>6. CASE peer_closed
  <2>1. pc' = "open" /\ UNCHANGED <<dec, buf, peer_closed, back>>
    BY <1>6 DEF SchRead
  <2>2. At' = "open" /\ Coming' = Coming
    BY <1>1, <2>1 DEF At, Coming
  <2>3. TlsShaken' /\ TlsUp'
    BY <1>1, <1>3, <2>2 DEF TlsUp, TlsShaken
  <2>4. AsConfigured' /\ Holding' /\ InTime' /\ Checked' /\ InOrder' /\ TypeOK'
    <3>1. buf' \in Seq(Units) /\ dec' \in Seq(Nat) /\ out' \in Seq(Nat)
      BY <1>1, <1>5, <2>1
    <3>2. QED BY <1>1, <1>2, <1>3, <1>4, <2>1, <2>2, <2>3, <3>1, UsingMoves
  <2>5. Accounted'
    BY <1>1, <1>2, <1>4, <2>1, <2>2, <2>3, MovesAccounted DEF Opening, Over, Early
  <2>6. QED BY <2>4, <2>5 DEF IInv
<1>7. CASE ~peer_closed
  <2>1. PICK q \in 0..Len(buf) :
          /\ Complete(buf) = SubSeq(buf, 1, q) /\ Len(Complete(buf)) = q
          /\ Len(out) + q <= Count("r", peer.script)
    BY <1>1, <1>4, <1>7, Completes
  <2> DEFINE u == Plain(SubSeq(buf, 1, q))
             w == SubSeq(buf, q + 1, Len(buf))
             k == Len(fed) - Len(w)
  <2>2. /\ dec' = u
        /\ \/ w = <<>> /\ buf' = <<>> /\ UNCHANGED <<pc, back, peer_closed>>
           \/ w # <<>> /\ Head(w)[1] = "fin" /\ buf' = <<>> /\ peer_closed' = TRUE /\ UNCHANGED <<pc, back>>
           \/ buf' = w /\ pc' = "recv" /\ back' = "fill" /\ UNCHANGED peer_closed
    BY <1>7, <2>1 DEF SchRead, Reads
  <2>3. /\ u \in Seq(Nat) /\ Len(u) = q /\ \A i \in DOMAIN u : u[i] = Len(out) + i
        /\ w \in Seq(Units) /\ Len(w) = Len(buf) - q
        /\ \A i \in 1..Len(buf) - q : w[i] = buf[q + i]
        /\ k >= 0 /\ k = hs + (Len(out) + q) /\ \A i \in DOMAIN w : w[i] = fed[k + i]
    BY <1>1, <1>4, <1>7, <2>1, Decrypts
  <2> HIDE DEF u, w
  <2>4. At' \in {"read", "fill"} /\ Coming' = Coming
    BY <1>1, <2>2 DEF At, Coming
  <2>5. TlsShaken' /\ TlsUp'
    BY <1>1, <1>3, <2>4 DEF TlsUp, TlsShaken, Using
  <2>6. AsConfigured' /\ Holding' /\ InTime' /\ Checked' /\ InOrder' /\ TypeOK'
    <3>1. buf' \in Seq(Units) /\ dec' \in Seq(Nat) /\ out' \in Seq(Nat)
      <4>1. <<>> \in Seq(Units)
        OBVIOUS
      <4>2. QED BY <1>1, <1>5, <2>2, <2>3, <4>1
    <3>2. \/ pc' \in {"read", "open"}
          \/ pc' = "recv" /\ back' = "fill"
      BY <1>1, <2>2
    <3>3. QED BY <1>1, <1>2, <1>3, <1>4, <2>4, <2>5, <3>1, <3>2, UsingMoves
  <2>7. /\ \A i \in DOMAIN out' : out'[i] = i
        /\ \A i \in DOMAIN dec' : dec'[i] = Len(out') + i
        /\ Len(out') + Len(dec') = Len(out) + q
    <3>1. \A i \in DOMAIN out' : out'[i] = i
      BY <1>1 DEF IInv, Accounted
    <3>2. \A i \in DOMAIN dec' : dec'[i] = Len(out') + i
      BY <1>1, <2>2, <2>3
    <3>3. QED BY <1>1, <2>2, <2>3, <3>1, <3>2
  <2>8. Len(out) \in Nat /\ Len(buf) \in Nat /\ Len(fed) \in Nat /\ Len(<<>>) = 0 /\ DOMAIN <<>> = {}
    BY <1>5
  \* the buffer is as it was, without the records
  <2>9. CASE buf' = w /\ peer_closed' = peer_closed
    <3>1. ~peer_closed' /\ Len(fed) - Len(buf') = k
      BY <1>7, <2>9
    <3>2. /\ Len(fed) - Len(buf') >= 0
          /\ Len(fed) - Len(buf')
               = hs + (Len(out') + Len(dec')) + (IF peer_closed' THEN 1 ELSE 0)
          /\ \A i \in DOMAIN buf' : buf'[i] = fed[Len(fed) - Len(buf') + i]
          /\ Len(out') + Len(dec') <= Count("r", peer.script)
      <4>1. hs + (Len(out) + q) + 0 = hs + (Len(out) + q)
        BY <1>5, <2>8
      <4> HIDE DEF k
      <4>2. QED BY <2>1, <2>3, <2>7, <2>9, <3>1, <4>1
    <3>3. Accounted'
      BY <1>1, <1>4, <2>5, <2>7, <3>1, <3>2, UsingAccounted
    <3>4. QED BY <2>6, <3>3 DEF IInv
  \* the close_notify was the last unit
  <2>10. CASE w # <<>> /\ Head(w)[1] = "fin" /\ buf' = <<>> /\ peer_closed' = TRUE /\ UNCHANGED <<pc, back>>
    <3>1. Len(w) # 0 /\ Head(w) = w[1]
      BY <2>3, <2>10, EmptySeq
    <3>2. q + 1 \in DOMAIN buf /\ buf[q + 1][1] = "fin" /\ Len(buf) \in DOMAIN buf
      <4>1. 1 \in 1..Len(buf) - q
        BY <2>3, <2>8, <3>1
      <4>2. w[1] = buf[q + 1]
        BY <2>3, <4>1
      <4>3. q + 1 \in 1..Len(buf) /\ Len(buf) \in 1..Len(buf)
        BY <2>8, <4>1
      <4>4. QED BY <1>5, <2>10, <3>1, <4>2, <4>3
    <3> DEFINE n == Len(out) + Len(dec)
               R == Count("r", peer.script)
    <3>3. R \in Nat /\ n + (q + 1) = R + 1 /\ n + Len(buf) <= R + 1 /\ n = Len(out)
      <4>1. n = Len(out)
        BY <1>1, <1>5
      <4>2. QED BY <1>4, <1>7, <3>2, <4>1, Records
    <3> HIDE DEF n, R
    <3>4. Len(out) + q = R /\ Len(buf) = q + 1
      <4>1. q + 1 <= Len(buf)
        BY <1>5, <2>8, <3>2
      <4>2. QED BY <2>8, <3>3, <4>1
    <3>5. Len(fed) = hs + R + 1
      <4> DEFINE P == Len(fed)  B == Len(buf)  O == Len(out)
      <4>1. P - (B - q) = hs + (O + q) /\ O + q = R /\ B = q + 1
        BY <2>3, <3>4
      <4>2. P \in Nat /\ B \in Nat /\ O \in Nat /\ hs \in Nat /\ q \in Nat /\ R \in Nat
        BY <1>5, <2>8, <3>3
      <4> HIDE DEF P, B, O
      <4>3. P = hs + R + 1
        BY <4>1, <4>2
      <4>4. QED BY <4>3 DEF P
    <3>6. /\ Len(fed) - Len(buf') >= 0
          /\ Len(fed) - Len(buf') = hs + (Len(out') + Len(dec')) + (IF peer_closed' THEN 1 ELSE 0)
          /\ \A i \in DOMAIN buf' : buf'[i] = fed[Len(fed) - Len(buf') + i]
          /\ Len(out') + Len(dec') <= R
      <4>1. Len(buf') = 0 /\ DOMAIN buf' = {} /\ peer_closed' /\ Len(out') + Len(dec') = R
        BY <2>7, <2>8, <2>10, <3>4
      <4> DEFINE P == Len(fed)  B == Len(buf')  N == Len(out') + Len(dec')
      <4>2. P = hs + R + 1 /\ B = 0 /\ N = R /\ peer_closed'
        BY <3>5, <4>1
      <4>3. P \in Nat /\ hs \in Nat /\ R \in Nat
        BY <1>5, <2>8, <3>3
      <4> HIDE DEF P, B, N
      <4>4. P - B >= 0 /\ P - B = hs + N + (IF peer_closed' THEN 1 ELSE 0) /\ N <= R
        BY <4>2, <4>3
      <4>5. QED BY <4>1, <4>4 DEF P, B, N
    <3>7. /\ Len(out') + Len(dec') = R /\ buf' = <<>> /\ At' # "fill" /\ ~OpenSSL
      <4>1. At' = "read"
        BY <1>1, <2>10 DEF At
      <4>2. QED BY <1>1, <2>7, <2>10, <3>4, <4>1
    <3>8. Accounted'
      BY <1>1, <1>4, <2>5, <2>7, <3>6, <3>7, UsingAccounted DEF R
    <3>9. QED BY <2>6, <3>8 DEF IInv
  <2>11. QED BY <2>2, <2>9, <2>10
<1>8. QED BY <1>6, <1>7
-----------------------------------------------------------------------------
(* The invariant.                                                          *)

LEMMA InitInv == Init => IInv
<1> SUFFICES ASSUME Init PROVE IInv
  OBVIOUS
<1>1. /\ now = 0 /\ dns = 0 /\ addr = 0 /\ fds = {} /\ sock = 0 /\ held = {} /\ misused = FALSE
      /\ wire = <<>> /\ pc = "resolve" /\ in.units = <<>>
      /\ cfg \in Configs /\ peer \in Peers
      /\ cfg.proxy <=> AnswerLen(peer) > 0
      /\ ~cfg.https => peer.script = <<>>
      /\ hs = 0 /\ buf = <<>> /\ dec = <<>> /\ peer_closed = FALSE /\ fed = <<>>
      /\ out = <<>> /\ raw = <<>> /\ sent = 0
  BY DEF Init, NetInit, Nothing
<1>2. At = "resolve" /\ Coming = <<>> /\ ~TlsUp /\ ~TlsShaken
  BY <1>1 DEF At, Coming, TlsUp, TlsShaken, Shaking, Using
<1>3. <<>> \in Seq(Units) /\ <<>> \in Seq(Nat)
  OBVIOUS
<1>4. Len(peer.script) \in Nat
  BY <1>1, ScriptParts
<1>5. Deadline \in Nat
  BY NetAssumption
<1>6. TypeOK
  BY <1>1, <1>2, <1>3 DEF TypeOK
<1>7. AsConfigured
  BY <1>1, <1>2 DEF AsConfigured, Shaking, Using
<1>8. Holding /\ InTime /\ Checked
  BY <1>1, <1>2, <1>5 DEF Holding, InTime, Checked, Opening, Shaking, Using
<1>9. Len(<<>>) = 0 /\ DOMAIN <<>> = {}
  OBVIOUS
<1>10. InOrder
  BY <1>1, <1>2, <1>4, <1>9 DEF InOrder, Opening
<1>11. Accounted
  BY <1>1, <1>2, <1>9 DEF Accounted
<1>12. QED BY <1>6, <1>7, <1>8, <1>10, <1>11 DEF IInv

LEMMA StutterInv ==
  ASSUME IInv, UNCHANGED vars
  PROVE  IInv'
<1>1. /\ UNCHANGED <<now, dns, addr, fds, sock, held, misused, cfg, peer, hs, sent>>
      /\ UNCHANGED <<wire, raw, fed, buf, dec, out, peer_closed, in, pc, back>>
  BY DEF vars, netVars, clock, sockets, peerEnd, call, codes, tlsVars, request, engine, given,
         connVars
<1>2. At' = At /\ Coming' = Coming
  BY <1>1 DEF At, Coming
<1>3. TypeOK' /\ InTime'
  BY <1>1, <1>2 DEF IInv, TypeOK, InTime
<1>4. QED BY <1>1, <1>2, <1>3, Idle

LEMMA NextInv == IInv /\ [Next]_vars => IInv'
<1> SUFFICES ASSUME IInv, [Next]_vars PROVE IInv'
  OBVIOUS
<1>1. CASE NetStep /\ UNCHANGED <<tlsVars, connVars>>
  <2>1. CASE Resolve
    BY <1>1, <2>1, ResolveInv
  <2>2. CASE NextAddress \/ NoAddressLeft
    BY <1>1, <2>2, AddressInv
  <2>3. CASE ConnectSlice \/ RecvSlice \/ SendSlice
    BY <1>1, <2>3, SliceInv
  <2>4. CASE ConnectReady \/ ConnectStops("TIMEOUT")
    BY <1>1, <2>4, ConnectInv
  <2>5. CASE RecvData
    BY <1>1, <2>5, RecvDataInv
  <2>6. CASE RecvEnd \/ SendAll \/ RecvStops("TIMEOUT") \/ SendStops("TIMEOUT")
    BY <1>1, <2>6, ReturnInv
  <2>7. QED BY <1>1, <2>1, <2>2, <2>3, <2>4, <2>5, <2>6 DEF NetStep
<1>2. CASE TlsStep /\ UNCHANGED connVars
  <2>1. CASE TlsConnect
    BY <1>2, <2>1, TlsConnectInv
  <2>2. CASE Shake
    BY <1>2, <2>2, ShakeInv
  <2>3. CASE Flushed
    BY <1>2, <2>3, FlushedInv
  <2>4. CASE Filled
    BY <1>2, <2>4, FilledInv
  <2>5. CASE Made
    BY <1>2, <2>5, MadeInv
  <2>6. CASE ReadStarts \/ WriteStarts
    BY <1>2, <2>6, StartsInv
  <2>7. CASE HandOver
    BY <1>2, <2>7, HandOverInv
  <2>8. CASE SslRead
    BY <1>2, <2>8, SslReadInv
  <2>9. CASE SchRead
    BY <1>2, <2>9, SchReadInv
  <2>10. CASE Fill
    BY <1>2, <2>10, FillInv
  <2>11. CASE Wrote
    BY <1>2, <2>11, WroteInv
  <2>12. QED
    BY <1>2, <2>1, <2>2, <2>3, <2>4, <2>5, <2>6, <2>7, <2>8, <2>9, <2>10, <2>11 DEF TlsStep
<1>3. CASE TcpOpened \/ TunnelAsked \/ TunnelAnswer \/ TunnelGot \/ Dropped \/ Finished
  BY <1>3, TcpOpenedInv, TunnelAskedInv, TunnelAnswerInv, TunnelGotInv, DroppedInv
<1>4. CASE Disturbed
  <2>1. PICK code \in {"CANCELLED", "IO"} :
          ConnectStops(code) \/ RecvStops(code) \/ SendStops(code)
    BY <1>4 DEF Disturbed, NetDisturbed
  <2>2. CASE ConnectStops(code)
    BY <1>4, <2>2, ConnectInv DEF Disturbed
  <2>3. CASE RecvStops(code) \/ SendStops(code)
    BY <1>4, <2>3, ReturnInv DEF Disturbed
  <2>4. QED BY <2>1, <2>2, <2>3
<1>5. CASE PeerSends
  BY <1>5, PeerSendsInv
<1>6. CASE PeerEnds
  BY <1>6, PeerEndsInv
<1>7. CASE UNCHANGED vars
  BY <1>7, StutterInv
<1>8. QED BY <1>1, <1>2, <1>3, <1>4, <1>5, <1>6, <1>7 DEF Next, Step

\* Every reachable state of an opening and of the stream it opens is one of
\* IInv: what is open and allocated is known at each place, what the peer has
\* sent is in one place and in order, and what the engine took is accounted for.
THEOREM Inductive == Spec => []IInv
<1>1. QED BY InitInv, NextInv, PTL DEF Spec

\* Every variable keeps its type; a wait goes on only where its caller can.
THEOREM TypeCorrect == Spec => []TypeOK
<1>1. IInv => TypeOK
  BY DEF IInv
<1>2. QED BY <1>1, Inductive, PTL
-----------------------------------------------------------------------------
(* What follows from it.                                                   *)

\* An open stream that is TLS is one whose handshake is through.
LEMMA OpenIsShaken ==
  ASSUME IInv, pc = "open", "tls" \in held
  PROVE  At = "open" /\ cfg.https /\ TlsShaken /\ TlsUp /\ Coming = <<>>
<1>1. At = "open" /\ Coming = <<>>
  BY DEF At, Coming
<1>2. cfg.https
  BY <1>1 DEF IInv, Holding
<1>3. QED BY <1>1, <1>2 DEF TlsShaken, TlsUp

\* open_stream(), zuh_tls_connect(), net_destroy(): each failing step undoes
\* those before it, once; an opening that fails or a stream that is closed
\* leaves nothing, and an open one holds exactly its socket and its streams.
THEOREM NothingLeft == Spec => []NothingLeaks
<1>1. IInv => NothingLeaks
  <2> SUFFICES ASSUME IInv PROVE NothingLeaks
    OBVIOUS
  <2>1. Holding
    BY DEF IInv
  <2>2. CASE pc = "open"
    <3>1. At = "open"
      BY <2>2 DEF At
    <3>2. cfg.https => TlsUp
      BY <3>1 DEF TlsUp, TlsShaken
    <3>3. QED BY <2>1, <2>2, <3>1, <3>2 DEF Holding, NothingLeaks
  <2>3. CASE pc \in {"failed", "closed"}
    <3>1. At \in {"failed", "closed"}
      BY <2>3 DEF At
    <3>2. QED BY <2>1, <2>3, <3>1 DEF Holding, NothingLeaks
  <2>4. CASE pc \notin {"open", "failed", "closed"}
    BY <2>1, <2>4 DEF Holding, NothingLeaks
  <2>5. QED BY <2>2, <2>3, <2>4
<1>2. QED BY <1>1, Inductive, PTL

\* zuh_deadline_poll_ms() under wait_ready(): all the waits of an opening
\* share one deadline, which only getaddrinfo() can overrun.
THEOREM OneDeadline == Spec => []DeadlineSpentOnce
<1>1. IInv => DeadlineSpentOnce
  <2> SUFFICES ASSUME IInv PROVE DeadlineSpentOnce
    OBVIOUS
  <2>1. now \in Nat /\ dns \in Nat /\ Deadline \in Nat
    BY NetAssumption DEF IInv, TypeOK
  <2>2. now <= Deadline \/ now <= dns
    BY DEF IInv, InTime
  <2>3. Max({Deadline, dns}) \in {Deadline, dns} /\ Max({Deadline, dns}) >= Deadline
        /\ Max({Deadline, dns}) >= dns
    BY <2>1, MaxOfTwo
  <2> DEFINE m == Max({Deadline, dns})
  <2>4. m \in Nat /\ m >= Deadline /\ m >= dns
    BY <2>1, <2>3
  <2> HIDE DEF m
  <2>5. now <= m
    BY <2>1, <2>2, <2>4
  <2>6. QED BY <2>5 DEF DeadlineSpentOnce, m
<1>2. QED BY <1>1, Inductive, PTL

\* zuh_tls_config_check() and the checks of the certificate: with verification
\* on, an open TLS stream is to a peer with a good chain, and with one of the
\* pins where the request has any, whichever the backend.
THEOREM Verified == Spec => []VerifiedAsAsked
<1>1. IInv => VerifiedAsAsked
  <2> SUFFICES ASSUME IInv, pc = "open", "tls" \in held, cfg.verify
               PROVE  peer.cert # "bad" /\ ("pins" \in cfg.asks => peer.cert # "key")
    BY DEF VerifiedAsAsked
  <2>1. ConfigCheck(cfg.asks, cfg.backend) /\ Verdict = "OK"
    BY OpenIsShaken DEF IInv, Checked
  <2>2. peer.cert # "bad"
    BY <2>1 DEF Verdict
  <2>3. CASE "pins" \in cfg.asks
    <3>1. OpenSSL
      BY <2>1, <2>3 DEF ConfigCheck, Caps, OpenSSL
    <3>2. QED BY <2>1, <2>2, <2>3, <3>1 DEF Verdict
  <2>4. QED BY <2>2, <2>3
<1>2. QED BY <1>1, Inductive, PTL

\* A piece of a script is the script's own subsequence.
LEMMA PieceIs ==
  ASSUME NEW s \in Seq(Units), NEW script \in Seq(Units), NEW o \in Nat, NEW e \in Nat,
         e = o + Len(s), e <= Len(script), PieceOf(s, script, o)
  PROVE  s = SubSeq(script, o + 1, e)
<1> DEFINE v == SubSeq(script, o + 1, e)
<1>1. Len(s) \in Nat /\ Len(script) \in Nat
  OBVIOUS
<1>2. /\ o + 1 \in 1..Len(script) + 1 /\ e \in o..Len(script)
      /\ e - (o + 1) + 1 = Len(s)
  BY <1>1
<1>3. /\ v \in Seq(Units) /\ Len(v) = Len(s)
      /\ \A i \in 1..Len(s) : v[i] = script[o + i]
  <2>1. CASE Len(s) = 0
    <3>1. v = <<>>
      BY <1>1, <2>1, SubSeqEmpty
    <3>2. QED BY <2>1, <3>1
  <2>2. CASE Len(s) > 0
    <3>1. o + 1 \in 1..Len(script) /\ e \in (o + 1)..Len(script)
      BY <1>1, <2>2
    <3>2. \A i \in (o + 1)..e : script[i] \in Units
      BY <1>1
    <3>3. /\ v \in Seq(Units)
          /\ Len(v) = IF o + 1 <= e THEN e - (o + 1) + 1 ELSE 0
          /\ \A i \in 1..(e - (o + 1) + 1) : v[i] = script[o + 1 + i - 1]
      BY <3>2, SubSeqProperties
    <3>4. \A i \in 1..Len(s) : o + 1 + i - 1 = o + i
      OBVIOUS
    <3>5. QED BY <1>1, <1>2, <2>2, <3>3, <3>4
  <2>3. QED BY <1>1, <2>1, <2>2
<1>4. \A i \in 1..Len(s) : s[i] = v[i]
  BY <1>3 DEF PieceOf
<1> HIDE DEF v
<1>5. s = v
  BY <1>3, <1>4, SeqEqual
<1>6. QED BY <1>5 DEF v

\* proxy_tunnel(): the TLS engine was given, or will read, exactly what the
\* peer sent behind the proxy's answer.
THEOREM TunnelInStep == Spec => []TunnelClean
<1>1. IInv => TunnelClean
  <2> SUFFICES ASSUME IInv, pc \in {"shake", "made", "open", "read"}, "tls" \in held
               PROVE  fed \o wire = SubSeq(peer.script, AnswerLen(peer) + 1, sent)
    BY DEF TunnelClean
  <2> DEFINE a == AnswerLen(peer)
  <2>1. TlsUp /\ At \notin Over /\ Coming = <<>>
    <3>1. CASE pc = "open"
      BY <3>1, OpenIsShaken DEF Over
    <3>2. CASE pc # "open"
      BY <3>2 DEF At, TlsUp, TlsShaken, Shaking, Using, Over, Coming
    <3>3. QED BY <3>1, <3>2
  <2>2. a \in Nat /\ a = Len(raw)
    BY <2>1, Buffered
  <2> HIDE DEF a
  <2>3. /\ {fed, wire, peer.script} \subseteq Seq(Units) /\ sent <= Len(peer.script)
        /\ Len(raw) + Len(fed) + Len(Coming) + Len(wire) = sent
        /\ \A i \in DOMAIN fed  : fed[i]  = peer.script[Len(raw) + i]
        /\ \A i \in DOMAIN wire : wire[i] = peer.script[Len(raw) + Len(fed) + Len(Coming) + i]
    BY <2>1, Placed
  <2>4. Len(Coming) = 0 /\ Len(fed) \in Nat /\ Len(wire) \in Nat /\ sent \in Nat
    BY <2>1, <2>3 DEF IInv, TypeOK
  <2>5. a + Len(fed) + Len(Coming) = a + Len(fed) /\ a + (Len(fed) + Len(wire)) = sent
    BY <2>2, <2>3, <2>4
  <2>6. PieceOf(fed, peer.script, a) /\ PieceOf(wire, peer.script, a + Len(fed))
    BY <2>2, <2>3, <2>5 DEF PieceOf
  <2> DEFINE u == fed \o wire
  <2>7. u \in Seq(Units) /\ Len(u) = Len(fed) + Len(wire) /\ PieceOf(u, peer.script, a)
    BY <2>2, <2>3, <2>6, Joined
  <2> HIDE DEF u
  <2>8. u = SubSeq(peer.script, a + 1, sent)
    <3> DEFINE t == peer.script
    <3>1. /\ u \in Seq(Units) /\ t \in Seq(Units) /\ a \in Nat /\ sent \in Nat
          /\ sent = a + Len(u) /\ sent <= Len(t) /\ PieceOf(u, t, a)
      BY <2>2, <2>3, <2>4, <2>5, <2>7
    <3> HIDE DEF t
    <3>2. u = SubSeq(t, a + 1, sent)
      BY <3>1, PieceIs
    <3>3. QED BY <3>2 DEF t
  <2>9. QED BY <2>8 DEF u, a
<1>2. QED BY <1>1, Inductive, PTL

\* Behind the first o units, lo + 1 to hi are the units c + 1 to d.
Window(n, o, c, d, lo, hi) ==
  \A i \in 1..n : (c < o + i /\ o + i <= d) <=> (lo < i /\ i <= hi)

\* The records among the units of a piece of a script.
LEMMA CountRecords ==
  ASSUME NEW p \in Peers, NEW b \in Nat, NEW c \in Nat, NEW d \in Nat, Parts(p, b, c, d),
         NEW s \in Seq(Units), NEW o \in Nat, o + Len(s) <= Len(p.script),
         PieceOf(s, p.script, o), NEW lo \in Nat, NEW hi \in Nat, lo <= hi, hi <= Len(s),
         Window(Len(s), o, c, d, lo, hi)
  PROVE  Count("r", s) = hi - lo
<1>1. \A i \in DOMAIN s : s[i][1] = "r" <=> lo < i /\ i <= hi
  <2> TAKE i \in DOMAIN s
  <2>1. i \in 1..Len(s) /\ s[i] = p.script[o + i] /\ Len(s) \in Nat
    BY DEF PieceOf
  <2>2. Len(p.script) \in Nat /\ DOMAIN p.script = 1..Len(p.script)
    BY ScriptParts
  <2>3. o + i \in DOMAIN p.script
    BY <2>1, <2>2
  <2>4. p.script[o + i][1] = "r" <=> c < o + i /\ o + i <= d
    BY <2>3 DEF Parts
  <2>5. QED BY <2>1, <2>4 DEF Window
<1>2. QED BY <1>1, CountOfInterval

\* What has been taken of an open stream, in positions of the script.
LEMMA Taking ==
  ASSUME IInv, pc = "open", "tls" \in held,
         NEW b \in Nat, NEW c \in Nat, NEW d \in Nat, Parts(peer, b, c, d)
  PROVE  LET a == AnswerLen(peer)
             n == Len(out) + Len(dec)
             k == Len(fed) - Len(buf)
             e == IF peer_closed THEN 1 ELSE 0
         IN  /\ a \in Nat /\ n \in Nat /\ k \in Nat /\ hs \in Nat /\ sent \in Nat
             /\ Len(buf) \in Nat /\ Len(wire) \in Nat /\ Len(fed) = k + Len(buf)
             /\ a + k = c + n + e /\ c = a + hs /\ c + n <= d /\ (peer_closed => c + n = d)
             /\ a + Len(fed) + Len(wire) = sent
             /\ sent <= Len(peer.script) /\ Len(peer.script) \in Nat
             /\ Len(peer.script) <= d + 1 /\ d <= Len(peer.script)
<1> DEFINE a == AnswerLen(peer)
           n == Len(out) + Len(dec)
           k == Len(fed) - Len(buf)
           e == IF peer_closed THEN 1 ELSE 0
<1>1. TlsShaken /\ TlsUp /\ Coming = <<>>
  BY OpenIsShaken
<1>2. /\ a \in Nat /\ k \in Nat /\ Len(buf) \in Nat /\ Len(fed) = k + Len(buf)
      /\ a + Len(fed) + Len(Coming) + Len(wire) = sent
      /\ sent \in Nat /\ sent <= Len(peer.script)
  BY <1>1, Buffered
<1>3. c = a + hs
  BY <1>1, Handshaken
<1>4. /\ k = hs + n + e /\ n <= Count("r", peer.script)
      /\ peer_closed => n = Count("r", peer.script)
  BY <1>1 DEF IInv, Accounted
<1>5. Count("r", peer.script) = d - c /\ c <= d /\ Len(peer.script) <= d + 1 /\ d <= Len(peer.script)
  BY DEF Parts
<1>6. /\ n \in Nat /\ hs \in Nat /\ Len(wire) \in Nat /\ Len(peer.script) \in Nat
      /\ Len(Coming) = 0 /\ e \in Nat
  BY <1>1, ScriptParts DEF IInv, TypeOK
<1> DEFINE L == Len(peer.script)  B == Len(buf)  W == Len(wire)  F == Len(fed)
           R == Count("r", peer.script)
<1>7. a + F + W = sent
  <2>1. F \in Nat /\ W \in Nat /\ a + F + Len(Coming) + W = sent /\ Len(Coming) = 0
    BY <1>2, <1>6
  <2> HIDE DEF a, F, W
  <2>2. QED BY <1>2, <2>1
<1> HIDE DEF a, n, k, e, L, B, W, F, R
<1>8. a + k = c + n + e /\ c + n <= d /\ (peer_closed => c + n = d)
  <2>1. R = d - c /\ n <= R /\ (peer_closed => n = R)
    BY <1>4, <1>5 DEF R
  <2>2. QED BY <1>2, <1>3, <1>4, <1>6, <2>1
<1>9. QED BY <1>2, <1>3, <1>5, <1>6, <1>7, <1>8 DEF a, n, k, e, W, F

\* sch_readable(), tls_readable(): a stream that says it is not readable has
\* handed over every record the peer has sent, and neither the close_notify
\* nor the end of the connection has come: it can be reused.
THEOREM QuietWhenReused == Spec => []QuietIsQuiet
<1>1. IInv => QuietIsQuiet
  <2> SUFFICES ASSUME IInv, pc = "open", "tls" \in held, ~TlsReadable
               PROVE  /\ ended = "no" /\ fed = SubSeq(peer.script, AnswerLen(peer) + 1, sent)
                      /\ Len(out) = Count("r", fed)
                      /\ \A i \in DOMAIN fed : fed[i][1] # "fin"
    BY DEF QuietIsQuiet
  <2> DEFINE a == AnswerLen(peer)
             t == peer.script
  <2>1. dec = <<>> /\ buf = <<>> /\ ~peer_closed /\ wire = <<>> /\ ended = "no"
    BY DEF TlsReadable, NetReadable, IInv, TypeOK
  <2>2. peer \in Peers /\ fed \in Seq(Units) /\ Len(out) \in Nat
    BY DEF IInv, TypeOK
  <2>3. PICK b \in Nat, c \in Nat, d \in Nat : Parts(peer, b, c, d)
    BY <2>2, ScriptParts
  <2>4. /\ a \in Nat /\ hs \in Nat /\ sent \in Nat /\ Len(t) \in Nat
        /\ a + Len(fed) + Len(wire) = sent /\ sent <= Len(t)
        /\ c = a + hs /\ c + (Len(out) + Len(dec)) <= d
        /\ a + (Len(fed) - Len(buf)) = c + (Len(out) + Len(dec)) + 0
    BY <2>1, <2>3, Taking
  <2>5. Len(<<>>) = 0
    OBVIOUS
  <2> DEFINE F == Len(fed)
             N == Len(out)
  <2>6. F \in Nat /\ N \in Nat /\ F = hs + N /\ a + F = sent /\ a + F <= d
    <3>1. F \in Nat /\ N \in Nat /\ a + F + 0 = sent /\ a + (F - 0) = c + (N + 0) + 0 /\ c + (N + 0) <= d
      BY <2>1, <2>2, <2>4, <2>5
    <3> HIDE DEF F, N, a
    <3>2. QED BY <2>4, <3>1
  <2>7. PieceOf(fed, t, a) /\ \A i \in DOMAIN fed : a + i \in DOMAIN t
    BY OpenIsShaken, Buffered DEF PieceOf
  <2>8. t \in Seq(Units)
    BY <2>2, ScriptParts
  <2> HIDE DEF a
  <2>9. fed = SubSeq(t, a + 1, sent)
    <3>1. sent = a + Len(fed) /\ sent <= Len(t)
      BY <2>4, <2>6
    <3> HIDE DEF t
    <3>2. QED BY <2>2, <2>4, <2>7, <2>8, <3>1, PieceIs
  <2>10. Count("r", fed) = N
    <3>1. Window(Len(fed), a, c, d, hs, F)
      BY <2>4, <2>6 DEF Window
    <3>2. a + Len(fed) <= Len(peer.script) /\ hs <= F /\ F <= Len(fed) /\ F - hs = N
      BY <2>4, <2>6
    <3>3. peer \in Peers /\ fed \in Seq(Units) /\ a \in Nat /\ hs \in Nat /\ F \in Nat
      BY <2>2, <2>4, <2>6
    <3>4. PieceOf(fed, peer.script, a) /\ Parts(peer, b, c, d)
      BY <2>3, <2>7
    <3> HIDE DEF t, F, N
    <3>5. Count("r", fed) = F - hs
      BY <3>1, <3>2, <3>3, <3>4, CountRecords
    <3>6. QED BY <3>2, <3>5
  <2>11. \A i \in DOMAIN fed : fed[i][1] # "fin"
    <3> TAKE i \in DOMAIN fed
    <3>1. i \in 1..F /\ a + i \in DOMAIN t /\ fed[i] = t[a + i]
      BY <2>2, <2>7 DEF PieceOf
    <3>2. ~(d < a + i)
      <4>1. a \in Nat /\ F \in Nat /\ i \in 1..F /\ a + F <= d
        BY <2>4, <2>6, <3>1
      <4> HIDE DEF F
      <4>2. QED BY <4>1
    <3>3. QED BY <2>3, <3>1, <3>2 DEF Parts
  <2>12. QED BY <2>1, <2>9, <2>10, <2>11 DEF a
<1>2. QED BY <1>1, Inductive, PTL

\* The records of what the peer has sent.
LEMMA RecordsSent ==
  ASSUME NEW p \in Peers, NEW b \in Nat, NEW c \in Nat, NEW d \in Nat, Parts(p, b, c, d),
         NEW m \in Nat, c <= m, m <= Len(p.script)
  PROVE  Count("r", SubSeq(p.script, 1, m)) = (IF m <= d THEN m ELSE d) - c
<1> DEFINE t == p.script
           v == SubSeq(t, 1, m)
           hi == IF m <= d THEN m ELSE d
<1>1. t \in Seq(Units) /\ Len(t) \in Nat
  BY ScriptParts
<1>2. m \in 0..Len(t)
  BY <1>1
<1>3. v \in Seq(Units) /\ Len(v) = m /\ \A i \in 1..m : v[i] = t[i]
  <2> HIDE DEF t
  <2>1. QED BY <1>1, <1>2, Cut
<1>4. PieceOf(v, t, 0)
  <2>1. DOMAIN v = 1..m
    BY <1>3
  <2>2. \A i \in 1..m : 0 + i = i
    OBVIOUS
  <2> HIDE DEF v, t
  <2>3. QED BY <1>3, <2>1, <2>2 DEF PieceOf
<1>5. c <= d
  BY DEF Parts
<1>6. hi \in Nat /\ c <= hi /\ hi <= m /\ Window(m, 0, c, d, c, hi)
  BY <1>5 DEF Window
<1> HIDE DEF v, hi
<1>7. 0 \in Nat /\ 0 + Len(v) <= Len(p.script) /\ hi <= Len(v) /\ Window(Len(v), 0, c, d, c, hi)
  BY <1>1, <1>2, <1>3, <1>6
<1>8. Count("r", v) = hi - c
  BY <1>3, <1>4, <1>6, <1>7, CountRecords
<1>9. QED BY <1>8 DEF v, hi, t

\* decrypt_available() and the buffers around it: the plaintext comes out in
\* order and each record once, and a record that was sent is handed over,
\* decrypted, in the buffer or in the socket: none is lost.
THEOREM RecordsInOrder == Spec => []PlaintextInOrder
<1>1. IInv => PlaintextInOrder
  <2> SUFFICES ASSUME IInv PROVE PlaintextInOrder
    OBVIOUS
  <2>1. out = [i \in 1..Len(out) |-> i]
    <3>1. out \in Seq(Nat) /\ \A i \in DOMAIN out : out[i] = i
      BY DEF IInv, TypeOK, Accounted
    <3>2. QED BY <3>1
  <2>2. ASSUME pc = "open", "tls" \in held
        PROVE  Len(out) + Len(dec) + Count("r", buf \o wire)
                 = Count("r", SubSeq(peer.script, 1, sent))
    <3> DEFINE a == AnswerLen(peer)
               n == Len(out) + Len(dec)
               k == Len(fed) - Len(buf)
               e == IF peer_closed THEN 1 ELSE 0
               t == peer.script
               w == buf \o wire
    <3>1. peer \in Peers /\ {buf, wire, fed} \subseteq Seq(Units)
      BY DEF IInv, TypeOK
    <3>2. PICK b \in Nat, c \in Nat, d \in Nat : Parts(peer, b, c, d)
      BY <3>1, ScriptParts
    <3> DEFINE hi == IF sent <= d THEN sent ELSE d
               B == Len(buf)  W == Len(wire)  F == Len(fed)
    <3>3. /\ a \in Nat /\ n \in Nat /\ k \in Nat /\ hs \in Nat /\ sent \in Nat
          /\ B \in Nat /\ W \in Nat /\ F = k + B
          /\ a + k = c + n + e /\ c = a + hs /\ c + n <= d /\ (peer_closed => c + n = d)
          /\ a + F + W = sent /\ sent <= Len(t) /\ Len(t) \in Nat /\ Len(t) <= d + 1
      <4>1. pc = "open" /\ "tls" \in held /\ IInv
        BY <2>2
      <4>2. /\ a \in Nat /\ n \in Nat /\ k \in Nat /\ hs \in Nat /\ sent \in Nat
            /\ Len(buf) \in Nat /\ Len(wire) \in Nat /\ Len(fed) = k + Len(buf)
            /\ a + k = c + n + e /\ c = a + hs /\ c + n <= d /\ (peer_closed => c + n = d)
            /\ a + Len(fed) + Len(wire) = sent
            /\ sent <= Len(t) /\ Len(t) \in Nat /\ Len(t) <= d + 1
        BY <3>2, <4>1, Taking, SMTT(30)
      <4> HIDE DEF a, n, k, e, t
      <4>3. QED BY <4>2
    <3>4. e \in {0, 1} /\ (e = 1 => c + n = d)
      BY <3>3
    \* what is left begins behind what was taken, and goes on to the last unit sent
    <3>5. w \in Seq(Units) /\ Len(w) = B + W /\ PieceOf(w, t, a + k)
      <4>1. /\ TlsUp /\ At \notin Over /\ Coming = <<>>
        BY <2>2, OpenIsShaken DEF Over
      <4>2. PieceOf(buf, t, a + k)
        BY <4>1, Buffered DEF PieceOf
      <4>3. a = Len(raw)
        BY <4>1, Buffered
      <4>4. \A i \in DOMAIN wire : wire[i] = t[Len(raw) + F + Len(Coming) + i]
        BY <4>1, Placed
      <4>5. Len(Coming) = 0
        BY <4>1
      <4> HIDE DEF a, k, t, F, B
      <4>6. Len(raw) + F + Len(Coming) = (a + k) + B
        BY <3>3, <4>3, <4>5
      <4>7. PieceOf(wire, t, (a + k) + Len(buf))
        BY <4>4, <4>6 DEF PieceOf, B
      <4>8. a + k \in Nat /\ buf \in Seq(Units) /\ wire \in Seq(Units)
        BY <3>1, <3>3
      <4>9. /\ buf \o wire \in Seq(Units) /\ Len(buf \o wire) = Len(buf) + Len(wire)
            /\ PieceOf(buf \o wire, t, a + k)
        BY <4>2, <4>7, <4>8, Joined
      <4>10. QED BY <4>9 DEF B
    <3>6. Count("r", SubSeq(t, 1, sent)) = hi - c
      <4>1. c <= sent
        <5> HIDE DEF a, n, k, e, B, W, F
        <5>1. QED BY <3>3, <3>4
      <4>2. peer \in Peers /\ sent \in Nat /\ sent <= Len(peer.script)
        BY <3>1, <3>3
      <4> HIDE DEF hi
      <4>3. Count("r", SubSeq(peer.script, 1, sent)) = (IF sent <= d THEN sent ELSE d) - c
        BY <3>2, <4>1, <4>2, RecordsSent
      <4>4. QED BY <4>3 DEF hi
    \* the records of it: those behind the n that were taken
    <3>7. Count("r", w) = hi - (c + n)
      <4> DEFINE o == a + k
                 lo == 0
                 m == hi - (c + n)
      <4>1. o \in Nat /\ o + (B + W) = sent /\ o = c + n + e
        <5> HIDE DEF a, n, k, e, B, W, F
        <5>1. QED BY <3>3, <3>4
      <4> HIDE DEF o
      <4>2. m \in Nat /\ m <= B + W /\ lo <= m /\ lo \in Nat /\ Window(B + W, o, c, d, lo, m)
        <5> DEFINE L == Len(t)
        <5>1. /\ c \in Nat /\ d \in Nat /\ n \in Nat /\ sent \in Nat /\ B \in Nat /\ W \in Nat
              /\ c + n <= d /\ sent <= d + 1
          <6>1. L \in Nat /\ sent <= L /\ L <= d + 1
            BY <3>3
          <6> HIDE DEF L
          <6>2. QED BY <3>3, <6>1
        <5> HIDE DEF n, B, W, e
        <5>2. CASE e = 0
          BY <3>4, <4>1, <5>1, <5>2 DEF Window
        <5>3. CASE e = 1
          <6>1. c + n = d /\ B + W = 0 /\ sent = d + 1
            BY <3>4, <4>1, <5>1, <5>3
          <6>2. m = 0
            BY <5>1, <6>1
          <6>3. QED BY <6>1, <6>2 DEF Window
        <5>4. QED BY <3>4, <5>2, <5>3
      <4>3. /\ w \in Seq(Units) /\ o + Len(w) <= Len(peer.script) /\ m <= Len(w)
            /\ PieceOf(w, peer.script, o) /\ Window(Len(w), o, c, d, lo, m)
        <5>1. Len(w) = B + W /\ w \in Seq(Units) /\ PieceOf(w, t, o)
          BY <3>5 DEF o
        <5>2. sent <= Len(peer.script)
          BY <3>3
        <5> HIDE DEF w, B, W, m, lo
        <5>3. QED BY <4>1, <4>2, <5>1, <5>2
      <4> HIDE DEF w, lo, m, B, W
      <4>4. Count("r", w) = m - lo
        <5>1. peer \in Peers /\ o \in Nat /\ lo \in Nat /\ m \in Nat /\ lo <= m
          BY <3>1, <4>1, <4>2
        <5>2. QED BY <3>2, <4>3, <5>1, CountRecords
      <4>5. m - lo = m
        BY <4>2 DEF lo
      <4>6. QED BY <4>4, <4>5 DEF m
    <3>8. hi \in Nat
      BY <3>3
    <3> DEFINE X == Count("r", w)
    <3>9. n + X = hi - c
      <4>1. n \in Nat /\ X = hi - (c + n)
        BY <3>3, <3>7
      <4> HIDE DEF hi, n, X
      <4>2. QED BY <3>8, <4>1
    <3> HIDE DEF hi, n, w
    <3>10. QED BY <3>6, <3>9 DEF n, w, X
  <2>3. QED BY <2>1, <2>2 DEF PlaintextInOrder
<1>2. QED BY <1>1, Inductive, PTL
=============================================================================
