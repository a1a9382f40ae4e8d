----------------------------- MODULE PoolProofs -----------------------------
(***************************************************************************)
(* Proofs about Pool and PoolOwners, for any number of connections, keys   *)
(* and nested calls and any limits.  An action changes the pool of one     *)
(* process, so the lemmas below speak of one list, one call stack and one  *)
(* set of holders.                                                         *)
(*                                                                         *)
(*   1. lists: an element taken out, taken off the end, put in front       *)
(*   2. IInv, who owns which connection, action by action                  *)
(*   3. HInv, how many entries a host has and what the calls in progress   *)
(*      have in hand, action by action                                     *)
(*   4. SInv, what stays true of an entry between the question put to it   *)
(*      and the hand-out, and so what an acquisition hands out             *)
(*   5. the pool implements Ownership                                      *)
(***************************************************************************)
EXTENDS PoolOwners, SequenceTheorems, FiniteSetTheorems, TLAPS

(* Facts about the list operators the pool uses.                           *)

\* No element twice.
Distinct(s) == \A i, j \in DOMAIN s : s[i] = s[j] => i = j

\* Taking out element i keeps the others in their order.
LEMMA RemoveAtProperties ==
  ASSUME NEW S, NEW s \in Seq(S), NEW i \in 1..Len(s)
  PROVE  /\ RemoveAt(s, i) \in Seq(S)
         /\ Len(RemoveAt(s, i)) = Len(s) - 1
         /\ \A j \in 1..Len(s) - 1 :
              RemoveAt(s, i)[j] = IF j < i THEN s[j] ELSE s[j + 1]
<1> DEFINE a == SubSeq(s, 1, i - 1)
           b == SubSeq(s, i + 1, Len(s))
<1>1. Len(s) \in Nat /\ i \in Int
  OBVIOUS
<1>2. a \in Seq(S) /\ Len(a) = i - 1 /\ \A j \in 1..i - 1 : a[j] = s[j]
  BY <1>1
<1>3. b \in Seq(S) /\ Len(b) = Len(s) - i /\ \A j \in 1..Len(s) - i : b[j] = s[i + j]
  BY <1>1
<1>4. RemoveAt(s, i) = a \o b
  BY DEF RemoveAt
<1> HIDE DEF a, b
<1>5. /\ a \o b \in Seq(S)
      /\ Len(a \o b) = Len(a) + Len(b)
      /\ \A j \in 1..Len(a) + Len(b) : (a \o b)[j] = IF j <= Len(a) THEN a[j] ELSE b[j - Len(a)]
  <2>1. a \in Seq(S) /\ b \in Seq(S)
    BY <1>2, <1>3
  <2>2. QED BY <2>1, ConcatProperties
<1>6. ASSUME NEW j \in 1..Len(s) - 1
      PROVE  RemoveAt(s, i)[j] = IF j < i THEN s[j] ELSE s[j + 1]
  <2>1. (a \o b)[j] = IF j <= i - 1 THEN a[j] ELSE b[j - (i - 1)]
    BY <1>1, <1>2, <1>3, <1>5
  <2>2. CASE j < i
    BY <1>1, <1>2, <1>4, <2>1, <2>2
  <2>3. CASE ~(j < i)
    <3>1. j - (i - 1) \in 1..Len(s) - i /\ i + (j - (i - 1)) = j + 1
      BY <1>1, <2>3
    <3>2. b[j - (i - 1)] = s[j + 1]
      BY <1>3, <3>1
    <3>3. QED BY <1>1, <1>4, <2>1, <2>3, <3>2
  <2>4. QED BY <2>2, <2>3
<1>7. Len(RemoveAt(s, i)) = Len(s) - 1
  BY <1>1, <1>2, <1>3, <1>4, <1>5
<1>8. QED BY <1>4, <1>5, <1>6, <1>7

\* Of a list of distinct elements, taking out element i removes exactly it.
LEMMA RemoveAtDistinct ==
  ASSUME NEW S, NEW s \in Seq(S), NEW i \in 1..Len(s), Distinct(s)
  PROVE  /\ ToSet(RemoveAt(s, i)) = ToSet(s) \ {s[i]}
         /\ Distinct(RemoveAt(s, i))
<1> DEFINE t == RemoveAt(s, i)
<1>1. /\ t \in Seq(S) /\ Len(t) = Len(s) - 1
      /\ \A j \in 1..Len(s) - 1 : t[j] = IF j < i THEN s[j] ELSE s[j + 1]
  BY RemoveAtProperties
<1>2. DOMAIN s = 1..Len(s) /\ DOMAIN t = 1..Len(s) - 1 /\ Len(s) \in Nat /\ i \in Int
  BY <1>1
<1> HIDE DEF t
<1> DEFINE g(j) == IF j < i THEN j ELSE j + 1
<1>a. ASSUME NEW j \in DOMAIN t
      PROVE  g(j) \in DOMAIN s /\ g(j) # i /\ t[j] = s[g(j)]
  BY <1>1, <1>2
<1>b. ASSUME NEW j \in DOMAIN t, NEW k \in DOMAIN t, g(j) = g(k)
      PROVE  j = k
  BY <1>b, <1>2
<1> HIDE DEF g
<1>3. Distinct(t)
  <2> SUFFICES ASSUME NEW j \in DOMAIN t, NEW k \in DOMAIN t, t[j] = t[k]
               PROVE  j = k
    BY DEF Distinct
  <2>1. g(j) = g(k)
    BY <1>a DEF Distinct
  <2>2. QED BY <1>b, <2>1
<1>4. ASSUME NEW j \in DOMAIN t
      PROVE  t[j] \in ToSet(s) \ {s[i]}
  <2>1. i \in DOMAIN s
    BY <1>2
  <2>2. QED BY <1>a, <2>1 DEF Distinct, ToSet
<1>5. ASSUME NEW j \in DOMAIN s, s[j] # s[i]
      PROVE  \E k \in DOMAIN t : t[k] = s[j]
  <2>1. CASE j < i
    BY <1>1, <1>2, <2>1
  <2>2. CASE j > i
    <3>1. j - 1 \in DOMAIN t /\ t[j - 1] = s[j]
      BY <1>1, <1>2, <2>2
    <3>2. QED BY <3>1
  <2>3. QED BY <1>2, <1>5, <2>1, <2>2
<1>6. ToSet(t) = ToSet(s) \ {s[i]}
  BY <1>4, <1>5 DEF ToSet
<1>7. QED BY <1>3, <1>6 DEF t

\* Putting a new element in front of a list.
LEMMA PrependProperties ==
  ASSUME NEW S, NEW s \in Seq(S), NEW c \in S
  PROVE  /\ <<c>> \o s \in Seq(S)
         /\ Len(<<c>> \o s) = Len(s) + 1
         /\ ToSet(<<c>> \o s) = ToSet(s) \cup {c}
         /\ Distinct(s) /\ c \notin ToSet(s) => Distinct(<<c>> \o s)
<1> DEFINE t == <<c>> \o s
<1>1. <<c>> \in Seq(S) /\ Len(<<c>>) = 1 /\ <<c>>[1] = c
  OBVIOUS
<1>2. /\ t \in Seq(S) /\ Len(t) = Len(<<c>>) + Len(s)
      /\ \A j \in 1..Len(<<c>>) + Len(s) :
           t[j] = IF j <= Len(<<c>>) THEN <<c>>[j] ELSE s[j - Len(<<c>>)]
  BY <1>1, ConcatProperties
<1>3. DOMAIN s = 1..Len(s) /\ DOMAIN t = 1..Len(s) + 1 /\ Len(s) \in Nat
  BY <1>1, <1>2
<1>4. t[1] = c /\ \A j \in 1..Len(s) : t[j + 1] = s[j]
  BY <1>1, <1>2, <1>3
<1>5. \A j \in 2..Len(s) + 1 : t[j] = s[j - 1]
  BY <1>1, <1>2, <1>3
<1> HIDE DEF t
<1>6. ToSet(t) = ToSet(s) \cup {c}
  <2>1. ASSUME NEW j \in DOMAIN t PROVE t[j] \in ToSet(s) \cup {c}
    BY <1>3, <1>4, <1>5 DEF ToSet
  <2>2. ASSUME NEW j \in DOMAIN s PROVE \E k \in DOMAIN t : t[k] = s[j]
    <3>1. j + 1 \in DOMAIN t /\ t[j + 1] = s[j]
      BY <1>3, <1>4
    <3>2. QED BY <3>1
  <2>3. \E k \in DOMAIN t : t[k] = c
    BY <1>3, <1>4
  <2>4. QED BY <2>1, <2>2, <2>3 DEF ToSet
<1>7. ASSUME Distinct(s), c \notin ToSet(s) PROVE Distinct(t)
  <2> SUFFICES ASSUME NEW j \in DOMAIN t, NEW k \in DOMAIN t, t[j] = t[k]
               PROVE  j = k
    BY DEF Distinct
  <2>1. ASSUME NEW m \in DOMAIN t, m # 1
        PROVE  m - 1 \in DOMAIN s /\ t[m] = s[m - 1] /\ t[m] # c
    <3>1. m - 1 \in DOMAIN s /\ t[m] = s[m - 1]
      BY <1>3, <1>5, <2>1
    <3>2. QED BY <3>1, <1>7 DEF ToSet
  <2>2. CASE j = 1 \/ k = 1
    BY <1>4, <2>1, <2>2
  <2>3. CASE j # 1 /\ k # 1
    <3>1. j - 1 = k - 1
      BY <1>7, <2>1, <2>3 DEF Distinct
    <3>2. QED BY <1>3, <3>1
  <2>4. QED BY <2>2, <2>3
<1>8. QED BY <1>1, <1>2, <1>6, <1>7 DEF t

\* Front drops the last element and nothing else.
LEMMA FrontProperties ==
  ASSUME NEW S, NEW s \in Seq(S), s # <<>>
  PROVE  /\ Front(s) \in Seq(S)
         /\ Len(Front(s)) = Len(s) - 1
         /\ \A j \in 1..Len(s) - 1 : Front(s)[j] = s[j]
         /\ Len(s) \in Nat \ {0} /\ s[Len(s)] \in S
<1>1. Len(s) \in Nat \ {0}
  BY EmptySeq, LenProperties
<1>2. ASSUME NEW i \in 1..Len(s)
      PROVE  /\ SubSeq(s, 1, i - 1) \in Seq(S)
             /\ Len(SubSeq(s, 1, i - 1)) = i - 1
             /\ \A j \in 1..i - 1 : SubSeq(s, 1, i - 1)[j] = s[j]
  BY <1>1
<1>3. Len(s) \in 1..Len(s)
  BY <1>1
<1>4. QED BY <1>1, <1>2, <1>3 DEF Front
-----------------------------------------------------------------------------
(* Call stacks.                                                            *)

\* No two calls of a stack have the same connection in hand.
NoCallShares(s) ==
  \A i, j \in DOMAIN s : s[i].conn = s[j].conn /\ s[i].conn # None => i = j

StackOK(s) == s \in Seq(Call) /\ NoCallShares(s) /\ WellShaped(s)

TopOf(s) == s[Len(s)]

\* The outermost calls of a stack, once the running one has returned.
LEMMA FrontStack ==
  ASSUME NEW s, StackOK(s), s # <<>>
  PROVE  /\ StackOK(Front(s))
         /\ TopOf(s) \in Call
         /\ TopOf(s).conn # None => TopOf(s).conn \in InHand(s)
         /\ InHand(Front(s)) = InHand(s) \ {TopOf(s).conn}
<1> DEFINE n == Len(s)
           f == Front(s)
<1>1. s \in Seq(Call)
  BY DEF StackOK
<1>2. /\ f \in Seq(Call) /\ Len(f) = n - 1 /\ \A j \in 1..n - 1 : f[j] = s[j]
      /\ n \in Nat \ {0} /\ s[n] \in Call
  BY <1>1, FrontProperties
<1>3. DOMAIN s = 1..n /\ DOMAIN f = 1..n - 1 /\ n \in DOMAIN s
  BY <1>1, <1>2
<1> HIDE DEF n, f
<1>4. \A j \in DOMAIN f : j \in DOMAIN s /\ f[j] = s[j] /\ j # n
  BY <1>2, <1>3
<1>5. \A j \in DOMAIN s : j # n => j \in DOMAIN f
  BY <1>2, <1>3
<1>6. StackOK(f)
  BY <1>2, <1>4 DEF StackOK, NoCallShares, WellShaped
<1>7. InHand(f) = InHand(s) \ {s[n].conn}
  <2>1. ASSUME NEW x \in InHand(f) PROVE x \in InHand(s) \ {s[n].conn}
    <3>1. PICK j \in DOMAIN f : x = f[j].conn /\ x # None
      BY <2>1 DEF InHand
    <3>2. j \in DOMAIN s /\ x = s[j].conn /\ j # n
      BY <3>1, <1>4
    <3>3. x # s[n].conn
      BY <3>1, <3>2, <1>3 DEF StackOK, NoCallShares
    <3>4. QED BY <3>1, <3>2, <3>3 DEF InHand
  <2>2. ASSUME NEW x \in InHand(s), x # s[n].conn PROVE x \in InHand(f)
    <3>1. PICK j \in DOMAIN s : x = s[j].conn /\ x # None
      BY <2>2 DEF InHand
    <3>2. j \in DOMAIN f /\ x = f[j].conn
      BY <2>2, <3>1, <1>4, <1>5
    <3>3. QED BY <3>1, <3>2 DEF InHand
  <2>3. QED BY <2>1, <2>2
<1>8. s[n].conn # None => s[n].conn \in InHand(s)
  BY <1>3 DEF InHand
<1>9. QED BY <1>2, <1>6, <1>7, <1>8 DEF n, f, TopOf

\* A call is entered with a connection that no call on the stack has in hand.
LEMMA PushStack ==
  ASSUME NEW s, StackOK(s), NEW e \in Call, e.conn \notin InHand(s),
         e.conn = None <=> e.phase = "scan"
  PROVE  /\ StackOK(Append(s, e))
         /\ InHand(Append(s, e)) = InHand(s) \cup ({e.conn} \ {None})
         /\ Append(s, e) # <<>>
<1> DEFINE t == Append(s, e)
           n == Len(s)
<1>1. s \in Seq(Call)
  BY DEF StackOK
<1>2. /\ t \in Seq(Call) /\ t # <<>> /\ Len(t) = n + 1
      /\ \A i \in 1..n : t[i] = s[i]
      /\ t[n + 1] = e
  BY <1>1, AppendProperties
<1>3. DOMAIN s = 1..n /\ DOMAIN t = 1..n + 1 /\ n \in Nat
  BY <1>1, <1>2
<1> HIDE DEF t, n
<1>4. \A i \in DOMAIN t : (i \in DOMAIN s /\ t[i] = s[i]) \/ (i = n + 1 /\ t[i] = e)
  BY <1>2, <1>3
<1>5. /\ \A i \in DOMAIN s : i \in DOMAIN t /\ t[i] = s[i]
      /\ n + 1 \in DOMAIN t /\ t[n + 1] = e
  BY <1>2, <1>3
<1>6. WellShaped(t)
  BY <1>4 DEF StackOK, WellShaped
<1>7. \A i \in DOMAIN s : s[i].conn # None => s[i].conn # e.conn
  BY DEF InHand
<1>8. NoCallShares(t)
  BY <1>4, <1>7 DEF StackOK, NoCallShares
<1>9. InHand(t) = InHand(s) \cup ({e.conn} \ {None})
  BY <1>4, <1>5 DEF InHand
<1>10. QED BY <1>2, <1>6, <1>8, <1>9 DEF StackOK, t

\* The running call takes a connection in hand, keeps it, or lets go of it.
LEMMA SwapTop ==
  ASSUME NEW s, StackOK(s), s # <<>>, NEW e \in Call,
         e.conn \notin InHand(s) \/ e.conn = TopOf(s).conn,
         e.conn = None <=> e.phase = "scan"
  PROVE  /\ StackOK(Append(Front(s), e))
         /\ InHand(Append(Front(s), e))
              = (InHand(s) \ {TopOf(s).conn}) \cup ({e.conn} \ {None})
         /\ Append(Front(s), e) # <<>>
<1>1. StackOK(Front(s)) /\ InHand(Front(s)) = InHand(s) \ {TopOf(s).conn}
  BY FrontStack
<1>2. e.conn \notin InHand(Front(s))
  BY <1>1
<1>3. QED BY <1>1, <1>2, PushStack
-----------------------------------------------------------------------------
(* The part of IInv that concerns the pool of one process.                 *)

PoolOK(h, s, hold, opened, n) ==
  /\ h \in Seq(Conns) /\ StackOK(s) /\ hold \subseteq Conns /\ opened \subseteq Conns
  /\ OneOwnerEach(h, s, hold, opened)
  /\ n = Len(h) /\ Len(h) <= MaxIdle

\* An entry leaves the list for the hand of the running call.
LEMMA UnlinkOK ==
  ASSUME NEW h, NEW s, NEW hold, NEW o, NEW n, PoolOK(h, s, hold, o, n),
         s # <<>>, TopOf(s).conn = None, NEW i \in DOMAIN h,
         NEW e \in Call, e.conn = h[i], e.phase = "probe"
  PROVE  PoolOK(RemoveAt(h, i), Append(Front(s), e), hold, o, n - 1)
<1>1. /\ h \in Seq(Conns) /\ StackOK(s) /\ Distinct(h) /\ i \in 1..Len(h)
      /\ Len(h) \in Nat /\ h[i] \in Conns /\ h[i] \in ToSet(h)
  BY DEF PoolOK, OneOwnerEach, Distinct, ToSet
<1>2. /\ RemoveAt(h, i) \in Seq(Conns) /\ Len(RemoveAt(h, i)) = Len(h) - 1
      /\ ToSet(RemoveAt(h, i)) = ToSet(h) \ {h[i]} /\ Distinct(RemoveAt(h, i))
  BY <1>1, RemoveAtProperties, RemoveAtDistinct
<1>3. h[i] # None /\ h[i] \notin InHand(s) /\ h[i] \notin hold
  BY <1>1, ConnsAssumption DEF PoolOK, OneOwnerEach
<1>4. /\ StackOK(Append(Front(s), e))
      /\ InHand(Append(Front(s), e)) = (InHand(s) \ {None}) \cup {h[i]}
  BY <1>1, <1>3, SwapTop
<1>5. InHand(s) \ {None} = InHand(s)
  BY DEF InHand
<1>6. OneOwnerEach(RemoveAt(h, i), Append(Front(s), e), hold, o)
  BY <1>1, <1>2, <1>3, <1>4, <1>5 DEF PoolOK, OneOwnerEach, Distinct, StackOK, NoCallShares
<1>7. n - 1 = Len(RemoveAt(h, i)) /\ Len(RemoveAt(h, i)) <= MaxIdle
  BY <1>1, <1>2, LimitAssumption DEF PoolOK
<1>8. QED BY <1>2, <1>4, <1>6, <1>7 DEF PoolOK

\* The running call returns with nothing in hand.
LEMMA ReturnOK ==
  ASSUME NEW h, NEW s, NEW hold, NEW o, NEW n, PoolOK(h, s, hold, o, n),
         s # <<>>, TopOf(s).conn = None
  PROVE  PoolOK(h, Front(s), hold, o, n)
<1>1. StackOK(Front(s)) /\ InHand(Front(s)) = InHand(s) \ {None}
  BY FrontStack DEF PoolOK
<1>2. InHand(s) \ {None} = InHand(s)
  BY DEF InHand
<1>3. OneOwnerEach(h, Front(s), hold, o)
  BY <1>1, <1>2 DEF PoolOK, OneOwnerEach, StackOK, NoCallShares
<1>4. QED BY <1>1, <1>3 DEF PoolOK

\* The running call closes what it has in hand and goes on.
LEMMA DiscardOK ==
  ASSUME NEW h, NEW s, NEW hold, NEW o, NEW n, PoolOK(h, s, hold, o, n),
         s # <<>>, TopOf(s).conn # None,
         NEW e \in Call, e.conn = None, e.phase = "scan"
  PROVE  PoolOK(h, Append(Front(s), e), hold, o \ {TopOf(s).conn}, n)
<1> DEFINE c == TopOf(s).conn
<1>1. StackOK(s) /\ c \in InHand(s) /\ None \notin InHand(s)
  BY FrontStack DEF PoolOK, InHand
<1>2. /\ StackOK(Append(Front(s), e))
      /\ InHand(Append(Front(s), e)) = InHand(s) \ {c}
  BY <1>1, SwapTop
<1>3. OneOwnerEach(h, Append(Front(s), e), hold, o \ {c})
  BY <1>1, <1>2 DEF PoolOK, OneOwnerEach, StackOK, NoCallShares
<1>4. QED BY <1>2, <1>3 DEF PoolOK

\* The running call returns the connection in hand to a request.
LEMMA HitOK ==
  ASSUME NEW h, NEW s, NEW hold, NEW o, NEW n, PoolOK(h, s, hold, o, n),
         s # <<>>, TopOf(s).conn # None
  PROVE  PoolOK(h, Front(s), hold \cup {TopOf(s).conn}, o, n)
<1> DEFINE c == TopOf(s).conn
<1>1. StackOK(s) /\ c \in InHand(s) /\ TopOf(s) \in Call
  BY FrontStack DEF PoolOK
<1>2. c \in Conns
  BY <1>1 DEF Call
<1>3. StackOK(Front(s)) /\ InHand(Front(s)) = InHand(s) \ {c}
  BY <1>1, FrontStack
<1>4. OneOwnerEach(h, Front(s), hold \cup {c}, o)
  BY <1>1, <1>3 DEF PoolOK, OneOwnerEach, StackOK, NoCallShares
<1>5. QED BY <1>2, <1>3, <1>4 DEF PoolOK

\* A release ends by closing the connection in hand.
LEMMA CloseOK ==
  ASSUME NEW h, NEW s, NEW hold, NEW o, NEW n, PoolOK(h, s, hold, o, n),
         s # <<>>, TopOf(s).conn # None
  PROVE  PoolOK(h, Front(s), hold, o \ {TopOf(s).conn}, n)
<1> DEFINE c == TopOf(s).conn
<1>1. StackOK(s) /\ c \in InHand(s)
  BY FrontStack DEF PoolOK
<1>2. StackOK(Front(s)) /\ InHand(Front(s)) = InHand(s) \ {c}
  BY <1>1, FrontStack
<1>3. OneOwnerEach(h, Front(s), hold, o \ {c})
  BY <1>1, <1>2 DEF PoolOK, OneOwnerEach, StackOK, NoCallShares
<1>4. QED BY <1>2, <1>3 DEF PoolOK

\* An entry is evicted: out of the list, and closed.
LEMMA EvictOK ==
  ASSUME NEW h, NEW s, NEW hold, NEW o, NEW n, PoolOK(h, s, hold, o, n),
         NEW i \in DOMAIN h
  PROVE  PoolOK(RemoveAt(h, i), s, hold, o \ {h[i]}, n - 1)
<1>1. /\ h \in Seq(Conns) /\ Distinct(h) /\ i \in 1..Len(h)
      /\ Len(h) \in Nat /\ h[i] \in ToSet(h)
  BY DEF PoolOK, OneOwnerEach, Distinct, ToSet
<1>2. /\ RemoveAt(h, i) \in Seq(Conns) /\ Len(RemoveAt(h, i)) = Len(h) - 1
      /\ ToSet(RemoveAt(h, i)) = ToSet(h) \ {h[i]} /\ Distinct(RemoveAt(h, i))
  BY <1>1, RemoveAtProperties, RemoveAtDistinct
<1>3. OneOwnerEach(RemoveAt(h, i), s, hold, o \ {h[i]})
  BY <1>1, <1>2 DEF PoolOK, OneOwnerEach, Distinct
<1>4. n - 1 = Len(RemoveAt(h, i)) /\ Len(RemoveAt(h, i)) <= MaxIdle
  BY <1>1, <1>2, LimitAssumption DEF PoolOK
<1>5. QED BY <1>2, <1>3, <1>4 DEF PoolOK

\* The running call moves to its next phase with the same connection in hand.
LEMMA PhaseOK ==
  ASSUME NEW h, NEW s, NEW hold, NEW o, NEW n, PoolOK(h, s, hold, o, n),
         s # <<>>, TopOf(s).conn # None,
         NEW e \in Call, e.conn = TopOf(s).conn, e.phase # "scan"
  PROVE  PoolOK(h, Append(Front(s), e), hold, o, n) /\ Append(Front(s), e) # <<>>
<1>1. StackOK(s) /\ TopOf(s).conn \in InHand(s)
  BY FrontStack DEF PoolOK
<1>a. e.conn = None <=> e.phase = "scan"
  OBVIOUS
<1>b. /\ StackOK(Append(Front(s), e)) /\ Append(Front(s), e) # <<>>
      /\ InHand(Append(Front(s), e))
           = (InHand(s) \ {TopOf(s).conn}) \cup ({e.conn} \ {None})
  BY <1>1, <1>a, SwapTop
<1>2. /\ StackOK(Append(Front(s), e)) /\ Append(Front(s), e) # <<>>
      /\ InHand(Append(Front(s), e)) = InHand(s)
  BY <1>1, <1>b
<1>3. OneOwnerEach(h, Append(Front(s), e), hold, o)
  BY <1>2 DEF PoolOK, OneOwnerEach, StackOK, NoCallShares
<1>4. QED BY <1>2, <1>3 DEF PoolOK

\* The connection in hand becomes the newest entry.
LEMMA LinkOK ==
  ASSUME NEW h, NEW s, NEW hold, NEW o, NEW n, PoolOK(h, s, hold, o, n),
         s # <<>>, TopOf(s).conn # None, n < MaxIdle
  PROVE  PoolOK(<<TopOf(s).conn>> \o h, Front(s), hold, o, n + 1)
<1> DEFINE c == TopOf(s).conn
<1>1. StackOK(s) /\ c \in InHand(s) /\ TopOf(s) \in Call
  BY FrontStack DEF PoolOK
<1>2. c \in Conns /\ h \in Seq(Conns) /\ Len(h) \in Nat
  BY <1>1 DEF Call, PoolOK
<1>3. StackOK(Front(s)) /\ InHand(Front(s)) = InHand(s) \ {c}
  BY <1>1, FrontStack
<1>4. c \notin ToSet(h) /\ Distinct(h)
  BY <1>1 DEF PoolOK, OneOwnerEach, Distinct
<1>5. /\ <<c>> \o h \in Seq(Conns) /\ Len(<<c>> \o h) = Len(h) + 1
      /\ ToSet(<<c>> \o h) = ToSet(h) \cup {c} /\ Distinct(<<c>> \o h)
  BY <1>2, <1>4, PrependProperties
<1> HIDE DEF c
<1>6. OneOwnerEach(<<c>> \o h, Front(s), hold, o)
  BY <1>1, <1>3, <1>5 DEF PoolOK, OneOwnerEach, Distinct, StackOK, NoCallShares
<1>7. n + 1 = Len(<<c>> \o h) /\ Len(<<c>> \o h) <= MaxIdle
  BY <1>2, <1>5, LimitAssumption DEF PoolOK
<1>8. QED BY <1>3, <1>5, <1>6, <1>7 DEF PoolOK, c

\* The whole list goes, closed or not.
LEMMA DropOK ==
  ASSUME NEW h, NEW s, NEW hold, NEW o, NEW n, PoolOK(h, s, hold, o, n)
  PROVE  PoolOK(<<>>, s, hold, o \ ToSet(h), 0)
<1>1. <<>> \in Seq(Conns) /\ Len(<<>>) = 0 /\ ToSet(<<>>) = {} /\ DOMAIN <<>> = {}
  BY DEF ToSet
<1>2. OneOwnerEach(<<>>, s, hold, o \ ToSet(h))
  BY <1>1 DEF PoolOK, OneOwnerEach
<1>3. QED BY <1>1, <1>2, LimitAssumption DEF PoolOK

\* An acquisition begins.
LEMMA EnterOK ==
  ASSUME NEW h, NEW s, NEW hold, NEW o, NEW n, PoolOK(h, s, hold, o, n),
         NEW e \in Call, e.conn = None, e.phase = "scan"
  PROVE  PoolOK(h, Append(s, e), hold, o, n)
<1>1. StackOK(s) /\ None \notin InHand(s)
  BY DEF PoolOK, InHand
<1>a. e.conn \notin InHand(s) /\ (e.conn = None <=> e.phase = "scan")
  BY <1>1
<1>b. /\ StackOK(Append(s, e))
      /\ InHand(Append(s, e)) = InHand(s) \cup ({e.conn} \ {None})
  BY <1>1, <1>a, PushStack
<1>2. StackOK(Append(s, e)) /\ InHand(Append(s, e)) = InHand(s)
  BY <1>b
<1>3. OneOwnerEach(h, Append(s, e), hold, o)
  BY <1>2 DEF PoolOK, OneOwnerEach, StackOK, NoCallShares
<1>4. QED BY <1>2, <1>3 DEF PoolOK

\* A release of a reusable connection begins.
LEMMA HandBackOK ==
  ASSUME NEW h, NEW s, NEW hold, NEW o, NEW n, PoolOK(h, s, hold, o, n),
         NEW c \in hold, NEW e \in Call, e.conn = c, e.phase = "probe"
  PROVE  PoolOK(h, Append(s, e), hold \ {c}, o, n)
<1>1. StackOK(s) /\ c \notin InHand(s) /\ c # None
  BY ConnsAssumption DEF PoolOK, OneOwnerEach
<1>2. StackOK(Append(s, e)) /\ InHand(Append(s, e)) = InHand(s) \cup {c}
  BY <1>1, PushStack
<1>3. OneOwnerEach(h, Append(s, e), hold \ {c}, o)
  BY <1>1, <1>2 DEF PoolOK, OneOwnerEach, StackOK, NoCallShares
<1>4. QED BY <1>2, <1>3 DEF PoolOK

\* A holder's connection is closed.
LEMMA HolderClosesOK ==
  ASSUME NEW h, NEW s, NEW hold, NEW o, NEW n, PoolOK(h, s, hold, o, n),
         NEW c \in hold
  PROVE  PoolOK(h, s, hold \ {c}, o \ {c}, n)
  BY DEF PoolOK, OneOwnerEach

\* A request opens a new connection.
LEMMA DialOK ==
  ASSUME NEW h, NEW s, NEW hold, NEW o, NEW n, PoolOK(h, s, hold, o, n),
         NEW c \in Conns, c \notin o
  PROVE  PoolOK(h, s, hold \cup {c}, o \cup {c}, n)
  BY DEF PoolOK, OneOwnerEach
-----------------------------------------------------------------------------
(* IInv, process by process.                                               *)

ProcOK(p) == PoolOK(head[p], stack[p], held[p], open[p], idle[p])

LEMMA IInvOfEach ==
  IInv <=> (\A p \in Procs : ProcOK(p)) /\ TypeOK /\ OpenIsDialled /\ ChildNotYet
<1>1. ASSUME IInv, NEW p \in Procs PROVE ProcOK(p)
  <2>1. /\ head[p] \in Seq(Conns) /\ stack[p] \in Seq(Call)
        /\ held[p] \subseteq Conns /\ open[p] \subseteq Conns
    BY <1>1 DEF IInv, TypeOK
  <2>2. OneOwnerEach(head[p], stack[p], held[p], open[p]) /\ WellShaped(stack[p])
    BY <1>1 DEF IInv, OwnedOnce, CallShape
  <2>3. idle[p] = Len(head[p]) /\ Len(head[p]) <= MaxIdle
    BY <1>1 DEF IInv, WithinMaxIdle
  <2>4. NoCallShares(stack[p])
    BY <2>2 DEF OneOwnerEach, NoCallShares
  <2>5. QED BY <2>1, <2>2, <2>3, <2>4 DEF ProcOK, PoolOK, StackOK
<1>2. ASSUME \A p \in Procs : ProcOK(p)
      PROVE  OwnedOnce /\ WithinMaxIdle /\ CallShape
  BY <1>2 DEF ProcOK, PoolOK, StackOK, OwnedOnce, WithinMaxIdle, CallShape
<1>3. QED BY <1>1, <1>2 DEF IInv

\* What a step of the running call of p knows about that call.
LEMMA RunningCall ==
  ASSUME IInv, NEW p \in Procs, stack[p] # <<>>
  PROVE  /\ ProcOK(p) /\ Top(p) = TopOf(stack[p]) /\ Top(p) \in Call
         /\ Top(p).conn = None <=> Top(p).phase = "scan"
         /\ Running(p)
<1>1. ProcOK(p) /\ StackOK(stack[p])
  BY IInvOfEach DEF ProcOK, PoolOK
<1>2. Top(p) = TopOf(stack[p]) /\ Top(p) \in Call
  BY <1>1, FrontStack DEF Top, TopOf
<1>3. stack[p] \in Seq(Call) /\ Len(stack[p]) \in DOMAIN stack[p]
  BY <1>1 DEF StackOK
<1>4. Top(p).conn = None <=> Top(p).phase = "scan"
  BY <1>1, <1>3 DEF StackOK, WellShaped, Top
<1>5. Running(p)
  BY DEF IInv, ChildNotYet, Running, Procs
<1>6. QED BY <1>1, <1>2, <1>4, <1>5

\* A step that changes the pool of p alone.
Touches(p) ==
  /\ head'  = [head  EXCEPT ![p] = head'[p]]
  /\ stack' = [stack EXCEPT ![p] = stack'[p]]
  /\ held'  = [held  EXCEPT ![p] = held'[p]]
  /\ open'  = [open  EXCEPT ![p] = open'[p]]
  /\ idle'  = [idle  EXCEPT ![p] = idle'[p]]

RestTyped ==
  /\ since \in [Procs -> [Conns -> Nat]]
  /\ guard \in [Procs -> Procs]
  /\ shut \subseteq Conns

\* If it opens nothing and keeps that pool in order, it keeps IInv.
LEMMA StepOfOne ==
  ASSUME IInv, NEW p \in Procs, Running(p), Touches(p), ProcOK(p)',
         open'[p] \subseteq open[p], RestTyped',
         UNCHANGED <<connVars, clock, inherited, forked>>
  PROVE  IInv'
<1>1. TypeOK /\ OpenIsDialled /\ ChildNotYet /\ \A q \in Procs : ProcOK(q)
  BY IInvOfEach
<1>2. /\ head'[p] \in Seq(Conns) /\ stack'[p] \in Seq(Call) /\ held'[p] \in SUBSET Conns
      /\ open'[p] \in SUBSET Conns /\ idle'[p] \in Int
  BY DEF ProcOK, PoolOK, StackOK
<1>3. TypeOK'
  BY <1>1, <1>2 DEF TypeOK, connVars, Touches, RestTyped
<1>4. ASSUME NEW q \in Procs PROVE ProcOK(q)'
  <2>1. CASE q = p
    BY <2>1
  <2>2. CASE q # p
    <3>1. /\ head'[q] = head[q] /\ stack'[q] = stack[q] /\ held'[q] = held[q]
          /\ open'[q] = open[q] /\ idle'[q] = idle[q]
      BY <1>1, <2>2 DEF TypeOK, Touches
    <3>2. QED BY <1>1, <3>1 DEF ProcOK
  <2>3. QED BY <2>1, <2>2
<1>5. OpenIsDialled'
  <2>1. \A q \in Procs : open'[q] \subseteq open[q]
    BY <1>1 DEF TypeOK, Touches
  <2>2. QED BY <1>1, <2>1 DEF OpenIsDialled, connVars
<1>6. ChildNotYet'
  <2>1. ASSUME ~forked PROVE p # Child
    BY <2>1, ProcAssumption DEF Running
  <2>2. ASSUME ~forked PROVE stack'[Child] = <<>>
    BY <1>1, <2>1, <2>2 DEF ChildNotYet, TypeOK, Procs, Touches
  <2>3. QED BY <2>2 DEF ChildNotYet
<1>7. IInvOfEach'
  BY IInvOfEach, PTL
<1>8. QED BY <1>3, <1>4, <1>5, <1>6, <1>7
-----------------------------------------------------------------------------
(* IInv, action by action.                                                 *)

\* Closing connections of Conns keeps shut within Conns.
LEMMA ShutType ==
  ASSUME TypeOK, NEW p, NEW C, C \subseteq Conns, Shut(p, C)
  PROVE  shut' \subseteq Conns
  BY DEF TypeOK, Shut

LEMMA AcquireUnlinkInv ==
  ASSUME IInv, NEW p \in Procs, AcquireUnlink(p) PROVE IInv'
<1>1. /\ stack[p] # <<>> /\ Top(p).op = "acquire" /\ Top(p).phase = "scan" /\ TypeOK
  BY DEF AcquireUnlink, InCall, IInv
<1>2. /\ ProcOK(p) /\ Top(p) = TopOf(stack[p]) /\ Top(p) \in Call
      /\ Top(p).conn = None /\ Running(p)
  BY <1>1, RunningCall
<1>3. PICK i \in DOMAIN head[p] :
        /\ head' = [head EXCEPT ![p] = RemoveAt(@, i)]
        /\ idle' = [idle EXCEPT ![p] = @ - 1]
        /\ SetTop(p, [Top(p) EXCEPT !.conn = head[p][i], !.phase = "probe"])
  BY DEF AcquireUnlink, Matches
<1> DEFINE e == [Top(p) EXCEPT !.conn = head[p][i], !.phase = "probe"]
<1>4. head[p][i] \in Conns
  BY <1>1 DEF TypeOK
<1>5. e \in Call /\ e.conn = head[p][i] /\ e.phase = "probe"
  BY <1>2, <1>4 DEF Call
<1>6. stack' = [stack EXCEPT ![p] = Append(Front(stack[p]), e)]
  BY <1>3 DEF SetTop
<1>7. UNCHANGED <<held, open, since, guard, shut, connVars, clock, inherited, forked>>
  BY DEF AcquireUnlink
<1> HIDE DEF e
<1>8. PoolOK(RemoveAt(head[p], i), Append(Front(stack[p]), e), held[p], open[p], idle[p] - 1)
  BY <1>1, <1>2, <1>5, UnlinkOK DEF ProcOK
<1>9. /\ Touches(p) /\ RestTyped'
      /\ head'[p] = RemoveAt(head[p], i) /\ stack'[p] = Append(Front(stack[p]), e)
      /\ held'[p] = held[p] /\ open'[p] = open[p] /\ idle'[p] = idle[p] - 1
  BY <1>1, <1>3, <1>6, <1>7 DEF TypeOK, Touches, RestTyped
<1>10. ProcOK(p)'
  BY <1>8, <1>9 DEF ProcOK
<1>11. QED BY <1>2, <1>7, <1>9, <1>10, StepOfOne

LEMMA AcquireMissInv ==
  ASSUME IInv, NEW p \in Procs, AcquireMiss(p) PROVE IInv'
<1>1. /\ stack[p] # <<>> /\ Top(p).op = "acquire" /\ Top(p).phase = "scan" /\ TypeOK
  BY DEF AcquireMiss, InCall, IInv
<1>2. /\ ProcOK(p) /\ Top(p) = TopOf(stack[p]) /\ Top(p).conn = None /\ Running(p)
  BY <1>1, RunningCall
<1>3. PoolOK(head[p], Front(stack[p]), held[p], open[p], idle[p])
  BY <1>1, <1>2, ReturnOK DEF ProcOK
<1>4. /\ stack' = [stack EXCEPT ![p] = Front(stack[p])]
      /\ UNCHANGED <<head, idle, held, open, since, guard, shut, connVars, clock,
                     inherited, forked>>
  BY DEF AcquireMiss, Pop, poolVars
<1>5. /\ Touches(p) /\ RestTyped'
      /\ head'[p] = head[p] /\ stack'[p] = Front(stack[p])
      /\ held'[p] = held[p] /\ open'[p] = open[p] /\ idle'[p] = idle[p]
  BY <1>1, <1>4 DEF TypeOK, Touches, RestTyped
<1>6. ProcOK(p)'
  BY <1>3, <1>5 DEF ProcOK
<1>7. QED BY <1>2, <1>4, <1>5, <1>6, StepOfOne

LEMMA AcquireAskInv ==
  ASSUME IInv, NEW p \in Procs, AcquireAsk(p) PROVE IInv'
<1> DEFINE e == [Top(p) EXCEPT !.phase = "asked"]
<1>1. /\ stack[p] # <<>> /\ Top(p).phase # "scan" /\ TypeOK
  BY DEF AcquireAsk, InCall, IInv
<1>2. /\ ProcOK(p) /\ Top(p) = TopOf(stack[p]) /\ Top(p) \in Call
      /\ Top(p).conn # None /\ Running(p)
  BY <1>1, RunningCall
<1>3. e \in Call /\ e.conn = TopOf(stack[p]).conn /\ e.phase # "scan"
  BY <1>2 DEF Call
<1>4. /\ stack' = [stack EXCEPT ![p] = Append(Front(stack[p]), e)]
      /\ UNCHANGED <<head, idle, held, open, since, guard, shut, connVars, clock,
                     inherited, forked>>
  BY DEF AcquireAsk, SetTop, poolVars
<1> HIDE DEF e
<1>5. PoolOK(head[p], Append(Front(stack[p]), e), held[p], open[p], idle[p])
  BY <1>1, <1>2, <1>3, PhaseOK DEF ProcOK
<1>6. /\ Touches(p) /\ RestTyped'
      /\ head'[p] = head[p] /\ stack'[p] = Append(Front(stack[p]), e)
      /\ held'[p] = held[p] /\ open'[p] = open[p] /\ idle'[p] = idle[p]
  BY <1>1, <1>4 DEF TypeOK, Touches, RestTyped
<1>7. ProcOK(p)'
  BY <1>5, <1>6 DEF ProcOK
<1>8. QED BY <1>2, <1>4, <1>6, <1>7, StepOfOne

LEMMA AcquireDiscardInv ==
  ASSUME IInv, NEW p \in Procs, AcquireDiscard(p) PROVE IInv'
<1> DEFINE c == Top(p).conn
           e == [Top(p) EXCEPT !.conn = None, !.phase = "scan"]
<1>1. /\ stack[p] # <<>> /\ Top(p).phase # "scan" /\ TypeOK
  BY DEF AcquireDiscard, InCall, IInv
<1>2. /\ ProcOK(p) /\ Top(p) = TopOf(stack[p]) /\ Top(p) \in Call
      /\ c # None /\ Running(p)
  BY <1>1, RunningCall
<1>3. e \in Call /\ e.conn = None /\ e.phase = "scan" /\ c \in Conns
  BY <1>2 DEF Call
<1>4. /\ stack' = [stack EXCEPT ![p] = Append(Front(stack[p]), e)]
      /\ open' = [open EXCEPT ![p] = open[p] \ {c}]
      /\ Shut(p, {c})
      /\ UNCHANGED <<head, idle, held, since, guard, connVars, clock, inherited, forked>>
  BY DEF AcquireDiscard, SetTop, Close, poolVars
<1> HIDE DEF e
<1>5. PoolOK(head[p], Append(Front(stack[p]), e), held[p], open[p] \ {c}, idle[p])
  BY <1>1, <1>2, <1>3, DiscardOK DEF ProcOK
<1> HIDE DEF c
<1>6. shut' \subseteq Conns
  BY <1>1, <1>3, <1>4, ShutType
<1>7. /\ Touches(p) /\ RestTyped'
      /\ head'[p] = head[p] /\ stack'[p] = Append(Front(stack[p]), e)
      /\ held'[p] = held[p] /\ open'[p] = open[p] \ {c} /\ idle'[p] = idle[p]
  BY <1>1, <1>4, <1>6 DEF TypeOK, Touches, RestTyped
<1>8. ProcOK(p)'
  BY <1>5, <1>7 DEF ProcOK
<1>9. open'[p] \subseteq open[p]
  BY <1>7
<1>10. QED BY <1>2, <1>4, <1>7, <1>8, <1>9, StepOfOne

LEMMA AcquireHitInv ==
  ASSUME IInv, NEW p \in Procs, AcquireHit(p) PROVE IInv'
<1> DEFINE c == Top(p).conn
<1>1. /\ stack[p] # <<>> /\ Top(p).phase # "scan" /\ TypeOK
  BY DEF AcquireHit, InCall, IInv
<1>2. ProcOK(p) /\ Top(p) = TopOf(stack[p]) /\ c # None /\ Running(p)
  BY <1>1, RunningCall
<1>3. PoolOK(head[p], Front(stack[p]), held[p] \cup {c}, open[p], idle[p])
  BY <1>1, <1>2, HitOK DEF ProcOK
<1>4. /\ stack' = [stack EXCEPT ![p] = Front(stack[p])]
      /\ held' = [held EXCEPT ![p] = held[p] \cup {c}]
      /\ UNCHANGED <<head, idle, open, since, guard, shut, connVars, clock,
                     inherited, forked>>
  BY DEF AcquireHit, Pop, poolVars
<1> HIDE DEF c
<1>5. /\ Touches(p) /\ RestTyped'
      /\ head'[p] = head[p] /\ stack'[p] = Front(stack[p])
      /\ held'[p] = held[p] \cup {c} /\ open'[p] = open[p] /\ idle'[p] = idle[p]
  BY <1>1, <1>4 DEF TypeOK, Touches, RestTyped
<1>6. ProcOK(p)'
  BY <1>3, <1>5 DEF ProcOK
<1>7. QED BY <1>2, <1>4, <1>5, <1>6, StepOfOne
\* The fork check leaves the pool in order.
LEMMA CheckForkOK ==
  ASSUME IInv, NEW p \in Procs
  PROVE  /\ PoolOK(HeadChecked(p), stack[p], held[p], OpenChecked(p), IdleChecked(p))
         /\ OpenChecked(p) \subseteq open[p]
<1>1. ProcOK(p)
  BY IInvOfEach
<1>2. CASE Tripped(p)
  BY <1>1, <1>2, DropOK DEF ProcOK, HeadChecked, OpenChecked, IdleChecked
<1>3. CASE ~Tripped(p)
  BY <1>1, <1>3 DEF ProcOK, HeadChecked, OpenChecked, IdleChecked
<1>4. QED BY <1>2, <1>3

LEMMA AcquireBeginInv ==
  ASSUME IInv, NEW p \in Procs, NEW k \in Keys, AcquireBegin(p, k) PROVE IInv'
<1> DEFINE e == [op |-> "acquire", key |-> k, conn |-> None, at |-> clock,
                left |-> GoneOf(k), phase |-> "scan"]
<1>1. Running(p) /\ TypeOK
  BY DEF AcquireBegin, IInv
<1>2. e \in Call /\ e.conn = None /\ e.phase = "scan"
  BY <1>1 DEF Call, TypeOK, GoneOf, Gone
<1>3. /\ head' = [head EXCEPT ![p] = HeadChecked(p)]
      /\ idle' = [idle EXCEPT ![p] = IdleChecked(p)]
      /\ guard' = [guard EXCEPT ![p] = p]
      /\ open' = [open EXCEPT ![p] = OpenChecked(p)]
      /\ stack' = [stack EXCEPT ![p] = Append(stack[p], e)]
      /\ UNCHANGED <<since, held, shut, connVars, clock, inherited, forked>>
  BY DEF AcquireBegin, CheckFork, Push
<1> HIDE DEF e
<1>4. /\ PoolOK(HeadChecked(p), stack[p], held[p], OpenChecked(p), IdleChecked(p))
      /\ OpenChecked(p) \subseteq open[p]
  BY CheckForkOK
<1>5. PoolOK(HeadChecked(p), Append(stack[p], e), held[p], OpenChecked(p), IdleChecked(p))
  BY <1>2, <1>4, EnterOK
<1>6. /\ Touches(p) /\ RestTyped'
      /\ head'[p] = HeadChecked(p) /\ stack'[p] = Append(stack[p], e)
      /\ held'[p] = held[p] /\ open'[p] = OpenChecked(p) /\ idle'[p] = IdleChecked(p)
  BY <1>1, <1>3 DEF TypeOK, Touches, RestTyped
<1>7. ProcOK(p)'
  BY <1>5, <1>6 DEF ProcOK
<1>8. QED BY <1>1, <1>3, <1>4, <1>6, <1>7, StepOfOne

LEMMA ReleaseBeginInv ==
  ASSUME IInv, NEW p \in Procs, NEW c \in Conns, NEW reuse \in BOOLEAN,
         ReleaseBegin(p, c, reuse)
  PROVE  IInv'
<1> DEFINE e == [op |-> "release", key |-> key[c], conn |-> c, at |-> clock,
                left |-> {}, phase |-> "probe"]
<1>1. Running(p) /\ TypeOK /\ c \in held[p] /\ ProcOK(p)
  BY IInvOfEach DEF ReleaseBegin
<1>2. c \in open[p]
  BY <1>1 DEF ProcOK, PoolOK, OneOwnerEach
<1>3. e \in Call /\ e.conn = c /\ e.phase = "probe"
  BY <1>1, <1>2 DEF Call, TypeOK, IInv, OpenIsDialled
<1>4. /\ head' = [head EXCEPT ![p] = HeadChecked(p)]
      /\ idle' = [idle EXCEPT ![p] = IdleChecked(p)]
      /\ guard' = [guard EXCEPT ![p] = p]
      /\ held' = [held EXCEPT ![p] = held[p] \ {c}]
      /\ UNCHANGED <<since, connVars, clock, inherited, forked>>
  BY DEF ReleaseBegin, CheckFork
<1>5. /\ PoolOK(HeadChecked(p), stack[p], held[p], OpenChecked(p), IdleChecked(p))
      /\ OpenChecked(p) \subseteq open[p]
  BY CheckForkOK
<1>6. CASE reuse
  <2>1. /\ open' = [open EXCEPT ![p] = OpenChecked(p)]
        /\ stack' = [stack EXCEPT ![p] = Append(stack[p], e)]
        /\ UNCHANGED shut
    BY <1>6 DEF ReleaseBegin, Push
  <2> HIDE DEF e
  <2>2. PoolOK(HeadChecked(p), Append(stack[p], e), held[p] \ {c}, OpenChecked(p), IdleChecked(p))
    BY <1>1, <1>3, <1>5, HandBackOK
  <2>3. /\ Touches(p) /\ RestTyped'
        /\ head'[p] = HeadChecked(p) /\ stack'[p] = Append(stack[p], e)
        /\ held'[p] = held[p] \ {c} /\ open'[p] = OpenChecked(p) /\ idle'[p] = IdleChecked(p)
    BY <1>1, <1>4, <2>1 DEF TypeOK, Touches, RestTyped
  <2>4. ProcOK(p)'
    BY <2>2, <2>3 DEF ProcOK
  <2>5. QED BY <1>1, <1>4, <1>5, <2>3, <2>4, StepOfOne
<1>7. CASE ~reuse
  <2>1. /\ open' = [open EXCEPT ![p] = OpenChecked(p) \ {c}]
        /\ Shut(p, {c}) /\ UNCHANGED stack
    BY <1>7 DEF ReleaseBegin
  <2>2. PoolOK(HeadChecked(p), stack[p], held[p] \ {c}, OpenChecked(p) \ {c}, IdleChecked(p))
    BY <1>1, <1>5, HolderClosesOK
  <2>3. shut' \subseteq Conns
    BY <1>1, <2>1, ShutType
  <2>4. /\ Touches(p) /\ RestTyped'
        /\ head'[p] = HeadChecked(p) /\ stack'[p] = stack[p]
        /\ held'[p] = held[p] \ {c} /\ open'[p] = OpenChecked(p) \ {c}
        /\ idle'[p] = IdleChecked(p)
    BY <1>1, <1>4, <2>1, <2>3 DEF TypeOK, Touches, RestTyped
  <2>5. ProcOK(p)' /\ open'[p] \subseteq open[p]
    BY <1>5, <2>2, <2>4 DEF ProcOK
  <2>6. QED BY <1>1, <1>4, <2>4, <2>5, StepOfOne
<1>8. QED BY <1>6, <1>7

LEMMA ReleaseCloseInv ==
  ASSUME IInv, NEW p \in Procs, ReleaseClose(p) PROVE IInv'
<1> DEFINE c == Top(p).conn
<1>1. /\ stack[p] # <<>> /\ Top(p).op = "release" /\ Top(p).phase = "probe" /\ TypeOK
  BY DEF ReleaseClose, InCall, IInv
<1>2. /\ ProcOK(p) /\ Top(p) = TopOf(stack[p]) /\ Top(p) \in Call
      /\ c # None /\ Running(p)
  BY <1>1, RunningCall
<1>3. c \in Conns
  BY <1>2 DEF Call
<1>4. /\ stack' = [stack EXCEPT ![p] = Front(stack[p])]
      /\ open' = [open EXCEPT ![p] = open[p] \ {c}]
      /\ Shut(p, {c})
      /\ UNCHANGED <<head, idle, held, since, guard, connVars, clock, inherited, forked>>
  BY DEF ReleaseClose, Pop, Close, poolVars
<1>5. PoolOK(head[p], Front(stack[p]), held[p], open[p] \ {c}, idle[p])
  BY <1>1, <1>2, CloseOK DEF ProcOK
<1> HIDE DEF c
<1>6. shut' \subseteq Conns
  BY <1>1, <1>3, <1>4, ShutType
<1>7. /\ Touches(p) /\ RestTyped'
      /\ head'[p] = head[p] /\ stack'[p] = Front(stack[p])
      /\ held'[p] = held[p] /\ open'[p] = open[p] \ {c} /\ idle'[p] = idle[p]
  BY <1>1, <1>4, <1>6 DEF TypeOK, Touches, RestTyped
<1>8. ProcOK(p)' /\ open'[p] \subseteq open[p]
  BY <1>5, <1>7 DEF ProcOK
<1>9. QED BY <1>2, <1>4, <1>7, <1>8, StepOfOne

\* evict_oldest() drops at most one entry of the list.
LEMMA EvictOldestOK ==
  ASSUME TypeOK, NEW p \in Procs, ProcOK(p), NEW I, I \subseteq DOMAIN head[p],
         EvictOldest(p, I)
  PROVE  /\ PoolOK(head'[p], stack[p], held[p], open'[p], idle'[p])
         /\ head' = [head EXCEPT ![p] = head'[p]]
         /\ idle' = [idle EXCEPT ![p] = idle'[p]]
         /\ open' = [open EXCEPT ![p] = open'[p]]
         /\ open'[p] \subseteq open[p]
         /\ shut' \subseteq Conns
<1>1. CASE I = {}
  <2>1. UNCHANGED <<head, idle, open, shut>>
    BY <1>1 DEF EvictOldest
  <2>2. QED BY <2>1 DEF TypeOK, ProcOK
<1>2. CASE I # {}
  <2>1. PICK i \in I :
          /\ head' = [head EXCEPT ![p] = RemoveAt(head[p], i)]
          /\ idle' = [idle EXCEPT ![p] = idle[p] - 1]
          /\ open' = [open EXCEPT ![p] = open[p] \ {head[p][i]}]
          /\ Shut(p, {head[p][i]})
    BY <1>2 DEF EvictOldest, Close
  <2>2. i \in DOMAIN head[p] /\ head[p][i] \in Conns
    BY DEF TypeOK
  <2>3. PoolOK(RemoveAt(head[p], i), stack[p], held[p], open[p] \ {head[p][i]}, idle[p] - 1)
    BY <2>2, EvictOK DEF ProcOK
  <2>4. /\ head'[p] = RemoveAt(head[p], i) /\ idle'[p] = idle[p] - 1
        /\ open'[p] = open[p] \ {head[p][i]}
    BY <2>1 DEF TypeOK
  <2>5. shut' \subseteq Conns
    BY <2>1, <2>2, ShutType
  <2>6. QED BY <2>1, <2>3, <2>4, <2>5
<1>3. QED BY <1>1, <1>2
LEMMA ReleaseHostRoomInv ==
  ASSUME IInv, NEW p \in Procs, ReleaseHostRoom(p) PROVE IInv'
<1> DEFINE c == Top(p).conn
           e == [Top(p) EXCEPT !.phase = "room"]
<1>1. /\ stack[p] # <<>> /\ Top(p).op = "release" /\ Top(p).phase = "probe" /\ TypeOK
  BY DEF ReleaseHostRoom, InCall, IInv
<1>2. /\ ProcOK(p) /\ Top(p) = TopOf(stack[p]) /\ Top(p) \in Call
      /\ c # None /\ Running(p)
  BY <1>1, RunningCall
<1>3. e \in Call /\ e.conn = TopOf(stack[p]).conn /\ e.phase # "scan" /\ c \in Conns
  BY <1>2 DEF Call
<1>4. /\ stack' = [stack EXCEPT ![p] = Append(Front(stack[p]), e)]
      /\ since' = [since EXCEPT ![p][c] = clock]
      /\ UNCHANGED <<guard, held, connVars, clock, inherited, forked>>
  BY DEF ReleaseHostRoom, SetTop
<1>5. /\ PoolOK(head'[p], stack[p], held[p], open'[p], idle'[p])
      /\ head' = [head EXCEPT ![p] = head'[p]]
      /\ idle' = [idle EXCEPT ![p] = idle'[p]]
      /\ open' = [open EXCEPT ![p] = open'[p]]
      /\ open'[p] \subseteq open[p]
      /\ shut' \subseteq Conns
  <2>1. CASE UNCHANGED <<head, idle, open, shut>>
    BY <1>1, <1>2, <2>1 DEF TypeOK, ProcOK
  <2>2. CASE EvictOldest(p, SameHost(p))
    <3>1. SameHost(p) \subseteq DOMAIN head[p]
      BY DEF SameHost
    <3>2. QED BY <1>1, <1>2, <2>2, <3>1, EvictOldestOK
  <2>3. QED BY <2>1, <2>2 DEF ReleaseHostRoom
<1> HIDE DEF e
<1>6. PoolOK(head'[p], Append(Front(stack[p]), e), held[p], open'[p], idle'[p])
  BY <1>1, <1>2, <1>3, <1>5, PhaseOK
<1> HIDE DEF c
<1>7. since' \in [Procs -> [Conns -> Nat]]
  BY <1>1, <1>3, <1>4 DEF TypeOK
<1>8. /\ Touches(p) /\ RestTyped'
      /\ stack'[p] = Append(Front(stack[p]), e) /\ held'[p] = held[p]
  BY <1>1, <1>4, <1>5, <1>7 DEF TypeOK, Touches, RestTyped
<1>9. ProcOK(p)'
  BY <1>6, <1>8 DEF ProcOK
<1>10. QED BY <1>2, <1>4, <1>5, <1>8, <1>9, StepOfOne

LEMMA ReleaseEvictInv ==
  ASSUME IInv, NEW p \in Procs, ReleaseEvict(p) PROVE IInv'
<1>1. stack[p] # <<>> /\ TypeOK
  BY DEF ReleaseEvict, InCall, IInv
<1>2. ProcOK(p) /\ Running(p)
  BY <1>1, RunningCall
<1>3. UNCHANGED <<stack, since, guard, held, connVars, clock, inherited, forked>>
  BY DEF ReleaseEvict
<1>4. /\ PoolOK(head'[p], stack[p], held[p], open'[p], idle'[p])
      /\ head' = [head EXCEPT ![p] = head'[p]]
      /\ idle' = [idle EXCEPT ![p] = idle'[p]]
      /\ open' = [open EXCEPT ![p] = open'[p]]
      /\ open'[p] \subseteq open[p]
      /\ shut' \subseteq Conns
  BY <1>1, <1>2, EvictOldestOK DEF ReleaseEvict
<1>5. Touches(p) /\ RestTyped' /\ stack'[p] = stack[p] /\ held'[p] = held[p]
  BY <1>1, <1>3, <1>4 DEF TypeOK, Touches, RestTyped
<1>6. ProcOK(p)'
  BY <1>4, <1>5 DEF ProcOK
<1>7. QED BY <1>2, <1>3, <1>4, <1>5, <1>6, StepOfOne

LEMMA ReleaseLinkInv ==
  ASSUME IInv, NEW p \in Procs, ReleaseLink(p) PROVE IInv'
<1> DEFINE c == Top(p).conn
<1>1. /\ stack[p] # <<>> /\ Top(p).phase = "room" /\ TypeOK /\ idle[p] < MaxIdle
  BY DEF ReleaseLink, InCall, IInv
<1>2. /\ ProcOK(p) /\ Top(p) = TopOf(stack[p]) /\ c # None /\ Running(p)
  BY <1>1, RunningCall
<1>3. PoolOK(<<c>> \o head[p], Front(stack[p]), held[p], open[p], idle[p] + 1)
  BY <1>1, <1>2, LinkOK DEF ProcOK
<1>4. /\ stack' = [stack EXCEPT ![p] = Front(stack[p])]
      /\ head' = [head EXCEPT ![p] = <<c>> \o head[p]]
      /\ idle' = [idle EXCEPT ![p] = idle[p] + 1]
      /\ UNCHANGED <<since, guard, held, open, shut, connVars, clock, inherited, forked>>
  BY DEF ReleaseLink, Pop
<1> HIDE DEF c
<1>5. /\ Touches(p) /\ RestTyped'
      /\ head'[p] = <<c>> \o head[p] /\ stack'[p] = Front(stack[p])
      /\ held'[p] = held[p] /\ open'[p] = open[p] /\ idle'[p] = idle[p] + 1
  BY <1>1, <1>4 DEF TypeOK, Touches, RestTyped
<1>6. ProcOK(p)'
  BY <1>3, <1>5 DEF ProcOK
<1>7. QED BY <1>2, <1>4, <1>5, <1>6, StepOfOne

\* Clear and free empty the list; they differ in whether they close.
LEMMA EmptiedInv ==
  ASSUME IInv, NEW p \in Procs, Clear(p) \/ FreeAndRenew(p) PROVE IInv'
<1>1. Running(p) /\ TypeOK /\ ProcOK(p)
  BY IInvOfEach DEF Clear, FreeAndRenew
<1>2. ToSet(head[p]) \subseteq Conns
  BY <1>1 DEF TypeOK, ToSet
<1>3. /\ head' = [head EXCEPT ![p] = <<>>]
      /\ idle' = [idle EXCEPT ![p] = 0]
      /\ open' = [open EXCEPT ![p] = open[p] \ ToSet(head[p])]
      /\ guard' = guard \/ guard' = [guard EXCEPT ![p] = p]
      /\ UNCHANGED shut \/ Shut(p, ToSet(head[p]))
      /\ UNCHANGED <<since, stack, held, connVars, clock, inherited, forked>>
  BY DEF Clear, FreeAndRenew, Close
<1>4. PoolOK(<<>>, stack[p], held[p], open[p] \ ToSet(head[p]), 0)
  BY <1>1, DropOK DEF ProcOK
<1>5. shut' \subseteq Conns
  <2>1. CASE UNCHANGED shut
    BY <1>1, <2>1 DEF TypeOK
  <2>2. CASE Shut(p, ToSet(head[p]))
    BY <1>1, <1>2, <2>2, ShutType
  <2>3. QED BY <1>3, <2>1, <2>2
<1>6. /\ Touches(p) /\ RestTyped'
      /\ head'[p] = <<>> /\ stack'[p] = stack[p] /\ held'[p] = held[p]
      /\ open'[p] = open[p] \ ToSet(head[p]) /\ idle'[p] = 0
  <2>1. guard' \in [Procs -> Procs]
    <3>1. CASE guard' = guard
      BY <1>1, <3>1 DEF TypeOK
    <3>2. CASE guard' = [guard EXCEPT ![p] = p]
      BY <1>1, <3>2 DEF TypeOK
    <3>3. QED BY <1>3, <3>1, <3>2
  <2>2. /\ head'[p] = <<>> /\ stack'[p] = stack[p] /\ held'[p] = held[p]
        /\ open'[p] = open[p] \ ToSet(head[p]) /\ idle'[p] = 0
    BY <1>1, <1>3 DEF TypeOK
  <2>3. Touches(p)
    BY <1>1, <1>3, <2>2 DEF TypeOK, Touches
  <2>4. RestTyped'
    BY <1>1, <1>3, <1>5, <2>1 DEF TypeOK, RestTyped
  <2>5. QED BY <2>2, <2>3, <2>4
<1>7. ProcOK(p)' /\ open'[p] \subseteq open[p]
  BY <1>4, <1>6 DEF ProcOK
<1>8. QED BY <1>1, <1>3, <1>6, <1>7, StepOfOne

LEMMA DialInv ==
  ASSUME IInv, NEW p \in Procs, NEW c \in Conns, NEW k \in Keys, Dial(p, c, k)
  PROVE  IInv'
<1>1. TypeOK /\ OpenIsDialled /\ ChildNotYet /\ \A q \in Procs : ProcOK(q)
  BY IInvOfEach
<1>2. /\ maker[c] = None
      /\ maker' = [maker EXCEPT ![c] = p]
      /\ key' = [key EXCEPT ![c] = k]
      /\ held' = [held EXCEPT ![p] = held[p] \cup {c}]
      /\ open' = [open EXCEPT ![p] = open[p] \cup {c}]
      /\ UNCHANGED <<head, since, idle, guard, stack, peer, clock, inherited, forked, shut>>
  BY DEF Dial, poolVars
<1>3. \A q \in Procs : c \notin open[q]
  BY <1>1, <1>2 DEF OpenIsDialled
<1>4. TypeOK'
  BY <1>1, <1>2 DEF TypeOK
<1>5. PoolOK(head[p], stack[p], held[p] \cup {c}, open[p] \cup {c}, idle[p])
  BY <1>1, <1>3, DialOK DEF ProcOK
<1>6. ASSUME NEW q \in Procs PROVE ProcOK(q)'
  <2>1. CASE q = p
    BY <1>1, <1>2, <1>5, <2>1 DEF ProcOK, TypeOK
  <2>2. CASE q # p
    BY <1>1, <1>2, <2>2 DEF ProcOK, TypeOK
  <2>3. QED BY <2>1, <2>2
<1>7. OpenIsDialled'
  <2> SUFFICES ASSUME NEW q \in Procs, NEW d \in open'[q]
               PROVE  maker'[d] # None /\ key'[d] \in Keys
    BY DEF OpenIsDialled
  <2>1. d \in Conns
    BY <1>4 DEF TypeOK
  <2>2. CASE d = c
    <3>1. maker'[c] = p /\ key'[c] = k
      BY <1>1, <1>2 DEF TypeOK
    <3>2. QED BY <2>2, <3>1, ProcAssumption DEF Procs
  <2>3. CASE d # c
    <3>1. d \in open[q] /\ maker'[d] = maker[d] /\ key'[d] = key[d]
      BY <1>1, <1>2, <2>1, <2>3 DEF TypeOK
    <3>2. QED BY <1>1, <3>1 DEF OpenIsDialled
  <2>4. QED BY <2>2, <2>3
<1>8. ChildNotYet'
  BY <1>1, <1>2 DEF ChildNotYet
<1>9. IInvOfEach'
  BY IInvOfEach, PTL
<1>10. QED BY <1>4, <1>6, <1>7, <1>8, <1>9

LEMMA ForkInv ==
  ASSUME IInv, Fork PROVE IInv'
<1>1. TypeOK /\ OpenIsDialled /\ ChildNotYet /\ \A q \in Procs : ProcOK(q)
  BY IInvOfEach
<1>2. Parent \in Procs /\ Child \in Procs /\ Procs = {Parent, Child}
  BY DEF Procs
<1>3. /\ ~forked /\ stack[Parent] = <<>> /\ forked' = TRUE
      /\ head'  = [head  EXCEPT ![Child] = head[Parent]]
      /\ since' = [since EXCEPT ![Child] = since[Parent]]
      /\ idle'  = [idle  EXCEPT ![Child] = idle[Parent]]
      /\ guard' = [guard EXCEPT ![Child] = guard[Parent]]
      /\ held'  = [held  EXCEPT ![Child] = held[Parent]]
      /\ open'  = [open  EXCEPT ![Child] = open[Parent]]
      /\ inherited' = ToSet(head[Parent])
      /\ UNCHANGED <<stack, maker, key, peer, clock, shut>>
  BY DEF Fork, connVars
<1>4. stack[Child] = stack[Parent]
  BY <1>1, <1>3 DEF ChildNotYet
<1>5. inherited' \subseteq Conns
  BY <1>1, <1>2, <1>3 DEF TypeOK, ToSet
<1>6. TypeOK'
  BY <1>1, <1>2, <1>3, <1>5 DEF TypeOK
<1>7. /\ head'[Child] = head[Parent] /\ idle'[Child] = idle[Parent]
      /\ held'[Child] = held[Parent] /\ open'[Child] = open[Parent]
      /\ stack'[Child] = stack[Parent]
  BY <1>1, <1>2, <1>3, <1>4 DEF TypeOK
<1>8. ProcOK(Child)'
  BY <1>1, <1>2, <1>7 DEF ProcOK
<1>9. /\ head'[Parent] = head[Parent] /\ idle'[Parent] = idle[Parent]
      /\ held'[Parent] = held[Parent] /\ open'[Parent] = open[Parent]
      /\ stack'[Parent] = stack[Parent]
  BY <1>1, <1>2, <1>3, ProcAssumption DEF TypeOK
<1>10. ProcOK(Parent)'
  BY <1>1, <1>2, <1>9 DEF ProcOK
<1>11. OpenIsDialled'
  BY <1>1, <1>2, <1>3, <1>7, <1>9 DEF OpenIsDialled
<1>12. ChildNotYet'
  BY <1>3 DEF ChildNotYet
<1>13. IInvOfEach'
  BY IInvOfEach, PTL
<1>14. QED BY <1>2, <1>6, <1>8, <1>10, <1>11, <1>12, <1>13

\* The peer, the clock and a stuttering step leave every pool alone.
LEMMA OutsideInv ==
  ASSUME IInv, (\E c \in Conns : PeerLeaves(c)) \/ Tick \/ UNCHANGED vars
  PROVE  IInv'
<1>1. TypeOK /\ OpenIsDialled /\ ChildNotYet /\ \A q \in Procs : ProcOK(q)
  BY IInvOfEach
<1>2. UNCHANGED <<head, since, idle, guard, stack, held, open, maker, key, inherited, forked, shut>>
  BY DEF PeerLeaves, Tick, vars, poolVars, connVars
<1>3. peer' \in [Conns -> {"live", "closed"}] /\ clock' \in Nat
  <2>1. CASE \E c \in Conns : PeerLeaves(c)
    BY <1>1, <2>1 DEF PeerLeaves, TypeOK
  <2>2. CASE Tick
    BY <1>1, <2>2 DEF Tick, connVars, TypeOK
  <2>3. CASE UNCHANGED vars
    BY <1>1, <2>3 DEF vars, connVars, TypeOK
  <2>4. QED BY <2>1, <2>2, <2>3
<1>4. TypeOK'
  BY <1>1, <1>2, <1>3 DEF TypeOK
<1>5. (\A q \in Procs : ProcOK(q))' /\ OpenIsDialled' /\ ChildNotYet'
  BY <1>1, <1>2 DEF ProcOK, OpenIsDialled, ChildNotYet
<1>6. IInvOfEach'
  BY IInvOfEach, PTL
<1>7. QED BY <1>4, <1>5, <1>6
-----------------------------------------------------------------------------
LEMMA InitInv == Init => IInv
<1> SUFFICES ASSUME Init PROVE IInv
  OBVIOUS
<1>1. \A p \in Procs : /\ head[p] = <<>> /\ stack[p] = <<>> /\ held[p] = {}
                       /\ open[p] = {} /\ idle[p] = 0
  BY DEF Init
<1>2. <<>> \in Seq(Conns) /\ <<>> \in Seq(Call) /\ DOMAIN <<>> = {} /\ Len(<<>>) = 0
  OBVIOUS
<1>3. TypeOK
  <2>1. head \in [Procs -> Seq(Conns)] /\ stack \in [Procs -> Seq(Call)]
    BY <1>2 DEF Init
  <2>2. since \in [Procs -> [Conns -> Nat]] /\ idle \in [Procs -> Int]
    BY DEF Init
  <2>3. /\ guard \in [Procs -> Procs] /\ held \in [Procs -> SUBSET Conns]
        /\ open \in [Procs -> SUBSET Conns]
    BY DEF Init, Procs
  <2>4. /\ maker \in [Conns -> Procs \cup {None}] /\ key \in [Conns -> Keys \cup {None}]
        /\ peer \in [Conns -> {"live", "closed"}]
    BY DEF Init
  <2>5. clock \in Nat /\ inherited \subseteq Conns /\ forked \in BOOLEAN /\ shut \subseteq Conns
    BY DEF Init
  <2>6. QED BY <2>1, <2>2, <2>3, <2>4, <2>5 DEF TypeOK
<1>4. PoolOK(<<>>, <<>>, {}, {}, 0)
  BY <1>2, LimitAssumption
     DEF PoolOK, StackOK, NoCallShares, WellShaped, OneOwnerEach, InHand, ToSet
<1>5. \A p \in Procs : ProcOK(p)
  BY <1>1, <1>4 DEF ProcOK
<1>6. OpenIsDialled /\ ChildNotYet
  BY <1>1 DEF OpenIsDialled, ChildNotYet, Procs
<1>7. QED BY <1>3, <1>5, <1>6, IInvOfEach

LEMMA NextInv == IInv /\ [Next]_vars => IInv'
<1> SUFFICES ASSUME IInv, [Next]_vars PROVE IInv'
  OBVIOUS
<1>1. CASE \E p \in Procs : CallStep(p)
  BY <1>1, AcquireUnlinkInv, AcquireMissInv, AcquireAskInv, AcquireDiscardInv, AcquireHitInv,
     ReleaseCloseInv, ReleaseHostRoomInv, ReleaseEvictInv, ReleaseLinkInv DEF CallStep
<1>2. CASE \E p \in Procs, k \in Keys : AcquireBegin(p, k)
  BY <1>2, AcquireBeginInv
<1>3. CASE \E p \in Procs, k \in Keys, c \in Conns : Dial(p, c, k)
  BY <1>3, DialInv
<1>4. CASE \E p \in Procs, c \in Conns, reuse \in BOOLEAN : ReleaseBegin(p, c, reuse)
  BY <1>4, ReleaseBeginInv
<1>5. CASE \E p \in Procs : Clear(p) \/ FreeAndRenew(p)
  BY <1>5, EmptiedInv
<1>6. CASE Fork
  BY <1>6, ForkInv
<1>7. CASE (\E c \in Conns : PeerLeaves(c)) \/ Tick \/ UNCHANGED vars
  BY <1>7, OutsideInv
<1>8. QED BY <1>1, <1>2, <1>3, <1>4, <1>5, <1>6, <1>7 DEF Next

\* IInv holds in every reachable state.
THEOREM Inductive == Spec => []IInv
  BY InitInv, NextInv, PTL DEF Spec

\* The variables of zuh_pool.c and its callers keep their types.
THEOREM TypeCorrect == Spec => []TypeOK
<1>1. IInv => TypeOK
  BY DEF IInv
<1>2. QED BY <1>1, Inductive, PTL

\* However pool calls nest and whenever the process forks, every open
\* connection has exactly one owner in each process: none is handed out twice,
\* closed while owned, or lost.
THEOREM SingleOwnership == Spec => []OwnedOnce
<1>1. IInv => OwnedOnce
  BY DEF IInv
<1>2. QED BY <1>1, Inductive, PTL

\* The idle counter is exact and never exceeds max_idle.
THEOREM IdleBounded == Spec => []WithinMaxIdle
<1>1. IInv => WithinMaxIdle
  BY DEF IInv
<1>2. QED BY <1>1, Inductive, PTL
-----------------------------------------------------------------------------
(* How many entries a host has.                                            *)

\* The entries of a list that go to the host of k, as places and as
\* connections; kk is the key of each connection.
Places(h, kk, k)  == {i \in DOMAIN h : HostOf[kk[h[i]]] = HostOf[k]}
Entries(h, kk, k) == {c \in ToSet(h) : HostOf[kk[c]] = HostOf[k]}

\* A list without repetitions has as many places as entries.
LEMMA PlacesAreEntries ==
  ASSUME NEW h \in Seq(Conns), Distinct(h), NEW kk, NEW k
  PROVE  /\ IsFiniteSet(Entries(h, kk, k)) /\ Cardinality(Entries(h, kk, k)) \in Nat
         /\ Cardinality(Places(h, kk, k)) = Cardinality(Entries(h, kk, k))
<1> DEFINE P == Places(h, kk, k)
           E == Entries(h, kk, k)
           f == [i \in P |-> h[i]]
<1>1. Len(h) \in Nat /\ DOMAIN h = 1..Len(h) /\ P \in SUBSET (1..Len(h))
  BY DEF Places
<1>2. IsFiniteSet(P)
  <2>1. IsFiniteSet(1..Len(h))
    BY <1>1, FS_Interval
  <2>2. QED BY <1>1, <2>1, FS_Subset
<1>3. f \in [P -> E]
  BY DEF Places, Entries, ToSet
<1>4. \A i, j \in P : f[i] = f[j] => i = j
  BY DEF Distinct, Places
<1>5. \A c \in E : \E i \in P : f[i] = c
  BY DEF Places, Entries, ToSet
<1>6. f \in Bijection(P, E)
  BY <1>3, <1>4, <1>5 DEF Bijection, Injection, Surjection, IsInjective
<1>7. ExistsBijection(P, E)
  BY <1>6 DEF ExistsBijection
<1>8. QED BY <1>2, <1>7, FS_Bijection, FS_CardinalityType

\* Taking an entry out leaves one fewer for its host, and no host more.
LEMMA PlacesAfterRemoval ==
  ASSUME NEW h \in Seq(Conns), Distinct(h), NEW kk, NEW k, NEW i \in DOMAIN h
  PROVE  /\ Cardinality(Places(RemoveAt(h, i), kk, k)) <= Cardinality(Places(h, kk, k))
         /\ i \in Places(h, kk, k) =>
              Cardinality(Places(RemoveAt(h, i), kk, k)) = Cardinality(Places(h, kk, k)) - 1
<1> DEFINE t == RemoveAt(h, i)
<1>1. i \in 1..Len(h)
  OBVIOUS
<1>2. t \in Seq(Conns) /\ Distinct(t) /\ ToSet(t) = ToSet(h) \ {h[i]}
  BY <1>1, RemoveAtProperties, RemoveAtDistinct
<1> HIDE DEF t
<1>3. Entries(t, kk, k) = Entries(h, kk, k) \ {h[i]}
  BY <1>2 DEF Entries
<1>4. i \in Places(h, kk, k) => h[i] \in Entries(h, kk, k)
  BY DEF Places, Entries, ToSet
<1>5. /\ Cardinality(Places(t, kk, k)) = Cardinality(Entries(t, kk, k))
      /\ Cardinality(Places(h, kk, k)) = Cardinality(Entries(h, kk, k))
      /\ IsFiniteSet(Entries(h, kk, k)) /\ Cardinality(Entries(h, kk, k)) \in Nat
  BY <1>2, PlacesAreEntries
<1>6. Cardinality(Entries(t, kk, k)) = IF h[i] \in Entries(h, kk, k)
        THEN Cardinality(Entries(h, kk, k)) - 1 ELSE Cardinality(Entries(h, kk, k))
  BY <1>3, <1>5, FS_RemoveElement
<1>7. QED BY <1>4, <1>5, <1>6 DEF t

\* A new entry in front counts for its own host and no other.
LEMMA PlacesAfterLink ==
  ASSUME NEW h \in Seq(Conns), Distinct(h), NEW kk, NEW k,
         NEW c \in Conns, c \notin ToSet(h)
  PROVE  Cardinality(Places(<<c>> \o h, kk, k))
           = IF HostOf[kk[c]] = HostOf[k] THEN Cardinality(Places(h, kk, k)) + 1
             ELSE Cardinality(Places(h, kk, k))
<1> DEFINE t == <<c>> \o h
<1>1. t \in Seq(Conns) /\ Distinct(t) /\ ToSet(t) = ToSet(h) \cup {c}
  BY PrependProperties
<1> HIDE DEF t
<1>2. /\ Cardinality(Places(t, kk, k)) = Cardinality(Entries(t, kk, k))
      /\ Cardinality(Places(h, kk, k)) = Cardinality(Entries(h, kk, k))
      /\ IsFiniteSet(Entries(h, kk, k))
  BY <1>1, PlacesAreEntries
<1>3. CASE HostOf[kk[c]] = HostOf[k]
  <2>1. Entries(t, kk, k) = Entries(h, kk, k) \cup {c} /\ c \notin Entries(h, kk, k)
    BY <1>1, <1>3 DEF Entries
  <2>2. QED BY <1>2, <1>3, <2>1, FS_AddElement DEF t
<1>4. CASE HostOf[kk[c]] # HostOf[k]
  <2>1. Entries(t, kk, k) = Entries(h, kk, k)
    BY <1>1, <1>4 DEF Entries
  <2>2. QED BY <1>2, <1>4, <2>1 DEF t
<1>5. QED BY <1>3, <1>4
-----------------------------------------------------------------------------
(* The part of HInv that concerns the pool of one process.                 *)

\* No host has more entries than max_per_host.
FewPerHost(h, kk) ==
  MaxPerHost > 0 => \A k \in Keys : Cardinality(Places(h, kk, k)) <= MaxPerHost

CallsRight(s, kk) ==
  /\ NestedInProbe(s)
  /\ \A i \in DOMAIN s : s[i].conn # None => kk[s[i].conn] = s[i].key

Roomy(h, s, kk) ==
  s # <<>> /\ TopOf(s).op = "release" /\ TopOf(s).phase = "room" /\ MaxPerHost > 0
    => Cardinality(Places(h, kk, TopOf(s).key)) < MaxPerHost

HostOK(h, s, kk) == FewPerHost(h, kk) /\ CallsRight(s, kk) /\ Roomy(h, s, kk)

\* When the running call returns, the one below it is in its probe.
LEMMA CallsBelow ==
  ASSUME NEW s \in Seq(Call), s # <<>>, NEW kk, CallsRight(s, kk)
  PROVE  /\ CallsRight(Front(s), kk)
         /\ Front(s) # <<>> => TopOf(Front(s)).phase \in Waiting
         /\ TopOf(s).conn # None => kk[TopOf(s).conn] = TopOf(s).key
<1> DEFINE f == Front(s)
           n == Len(s)
<1>1. /\ f \in Seq(Call) /\ Len(f) = n - 1 /\ n \in Nat \ {0}
      /\ \A j \in 1..n - 1 : f[j] = s[j]
  BY FrontProperties
<1>2. DOMAIN s = 1..n /\ DOMAIN f = 1..n - 1
  BY <1>1
<1>3. f # <<>> => Len(f) \in DOMAIN f /\ Len(f) # n
  <2>1. f # <<>> => Len(f) # 0
    BY <1>1, EmptySeq
  <2>2. QED BY <1>1, <1>2, <2>1
<1> HIDE DEF f, n
<1>4. \A j \in DOMAIN f : j \in DOMAIN s /\ j # n /\ f[j] = s[j]
  BY <1>1, <1>2
<1>5. \A j \in DOMAIN f : f[j].phase \in Waiting
  BY <1>4 DEF CallsRight, NestedInProbe, n
<1>6. CallsRight(f, kk)
  <2>1. NestedInProbe(f)
    BY <1>5 DEF NestedInProbe
  <2>2. \A i \in DOMAIN f : f[i].conn # None => kk[f[i].conn] = f[i].key
    BY <1>4 DEF CallsRight
  <2>3. QED BY <2>1, <2>2 DEF CallsRight
<1>7. f # <<>> => TopOf(f).phase \in Waiting
  BY <1>3, <1>5 DEF TopOf
<1>8. TopOf(s).conn # None => kk[TopOf(s).conn] = TopOf(s).key
  <2>1. n \in DOMAIN s
    BY <1>1, <1>2
  <2>2. QED BY <2>1 DEF TopOf, CallsRight, n
<1>9. QED BY <1>6, <1>7, <1>8 DEF f

\* A call begins in the probe of another, or where no call runs.
LEMMA CallsAbove ==
  ASSUME NEW s \in Seq(Call), NEW kk, CallsRight(s, kk),
         s = <<>> \/ TopOf(s).phase \in Waiting,
         NEW e \in Call, e.conn # None => kk[e.conn] = e.key
  PROVE  CallsRight(Append(s, e), kk) /\ TopOf(Append(s, e)) = e
<1> DEFINE t == Append(s, e)
           n == Len(s)
<1>1. /\ t \in Seq(Call) /\ Len(t) = n + 1 /\ t[n + 1] = e
      /\ \A i \in 1..n : t[i] = s[i]
  BY AppendProperties
<1>2. DOMAIN s = 1..n /\ DOMAIN t = 1..n + 1 /\ n \in Nat
  BY <1>1
<1>3. \A i \in 1..n : s[i].phase \in Waiting
  <2>1. CASE s = <<>>
    BY <2>1, <1>2
  <2>2. CASE s # <<>> /\ TopOf(s).phase \in Waiting
    BY <1>2, <2>2 DEF CallsRight, NestedInProbe, TopOf
  <2>3. QED BY <2>1, <2>2
<1> HIDE DEF t
<1>4. \A i \in DOMAIN t : (i # n + 1 /\ i \in DOMAIN s /\ t[i] = s[i]) \/ (i = n + 1 /\ t[i] = e)
  BY <1>1, <1>2
<1>5. NestedInProbe(t)
  BY <1>1, <1>2, <1>3, <1>4 DEF NestedInProbe
<1>6. \A i \in DOMAIN t : t[i].conn # None => kk[t[i].conn] = t[i].key
  BY <1>4 DEF CallsRight
<1>7. TopOf(t) = e
  BY <1>1 DEF TopOf
<1>8. QED BY <1>5, <1>6, <1>7 DEF CallsRight, t

\* The running call moves on with another record e.
LEMMA CallsSwapped ==
  ASSUME NEW s \in Seq(Call), s # <<>>, NEW kk, CallsRight(s, kk),
         NEW e \in Call, e.conn # None => kk[e.conn] = e.key
  PROVE  CallsRight(Append(Front(s), e), kk) /\ TopOf(Append(Front(s), e)) = e
<1>1. /\ Front(s) \in Seq(Call) /\ CallsRight(Front(s), kk)
      /\ Front(s) = <<>> \/ TopOf(Front(s)).phase \in Waiting
  BY CallsBelow, FrontProperties
<1>2. QED BY <1>1, CallsAbove

\* HInv, process by process.
HostFine(p) == HostOK(head[p], stack[p], key)

LEMMA HInvOfEach == HInv <=> \A p \in Procs : HostFine(p)
<1>1. WithinMaxPerHost <=> \A p \in Procs : FewPerHost(head[p], key)
  BY DEF WithinMaxPerHost, FewPerHost, Places
<1>2. ASSUME NEW p \in Procs
      PROVE  /\ NestedInProbe(stack[p]) /\ KeysInHand(stack[p]) <=> CallsRight(stack[p], key)
             /\ RoomMade(p) <=> Roomy(head[p], stack[p], key)
  BY DEF KeysInHand, CallsRight, RoomMade, Roomy, InCall, Top, TopOf, SameHost, Places
<1>3. QED BY <1>1, <1>2 DEF HInv, HostFine, HostOK

\* What a step of p needs to show when it leaves the keys and the other
\* process alone.
LEMMA HostStep ==
  ASSUME HInv, NEW p \in Procs, UNCHANGED key,
         \A q \in Procs : q # p => head'[q] = head[q] /\ stack'[q] = stack[q],
         NEW h, NEW s, head'[p] = h, stack'[p] = s, HostOK(h, s, key)
  PROVE  HInv'
<1>1. \A q \in Procs : HostFine(q)
  BY HInvOfEach
<1>2. ASSUME NEW q \in Procs PROVE HostFine(q)'
  <2>1. CASE q = p
    BY <2>1 DEF HostFine
  <2>2. CASE q # p
    <3>1. HostOK(head[q], stack[q], key)
      BY <1>1 DEF HostFine
    <3>2. head'[q] = head[q] /\ stack'[q] = stack[q] /\ key' = key
      BY <2>2
    <3>3. QED BY <3>1, <3>2 DEF HostFine
  <2>3. QED BY <2>1, <2>2
<1>3. HInvOfEach'
  BY HInvOfEach, PTL
<1>4. QED BY <1>2, <1>3

\* What a step on the pool of p knows.
LEMMA HostContext ==
  ASSUME IInv, HInv, NEW p \in Procs
  PROVE  /\ TypeOK /\ head[p] \in Seq(Conns) /\ Distinct(head[p]) /\ stack[p] \in Seq(Call)
         /\ FewPerHost(head[p], key) /\ CallsRight(stack[p], key)
         /\ Roomy(head[p], stack[p], key)
         /\ stack[p] # <<>> =>
              /\ Top(p) \in Call /\ Top(p) = TopOf(stack[p])
              /\ Top(p).conn # None =>
                   key[Top(p).conn] = Top(p).key /\ Top(p).conn \notin ToSet(head[p])
<1>1. TypeOK /\ ProcOK(p) /\ HostOK(head[p], stack[p], key)
  BY IInvOfEach, HInvOfEach DEF HostFine
<1>2. Distinct(head[p])
  BY <1>1 DEF ProcOK, PoolOK, OneOwnerEach, Distinct
<1>3. head[p] \in Seq(Conns) /\ stack[p] \in Seq(Call) /\ StackOK(stack[p])
  BY <1>1 DEF TypeOK, ProcOK, PoolOK
<1>4. ASSUME stack[p] # <<>>, Top(p).conn # None
      PROVE  key[Top(p).conn] = Top(p).key /\ Top(p).conn \notin ToSet(head[p])
  <2>1. Top(p) = TopOf(stack[p])
    BY DEF Top, TopOf
  <2>2. Top(p).conn \in InHand(stack[p])
    BY <1>3, <1>4, <2>1, FrontStack
  <2>3. QED BY <1>1, <1>3, <1>4, <2>1, <2>2, CallsBelow
        DEF HostOK, ProcOK, PoolOK, OneOwnerEach
<1>5. stack[p] # <<>> => Top(p) \in Call /\ Top(p) = TopOf(stack[p])
  BY RunningCall
<1>6. QED BY <1>1, <1>2, <1>3, <1>4, <1>5 DEF HostOK

\* An empty list has room for every host.
LEMMA EmptyHost ==
  ASSUME NEW s, NEW kk PROVE FewPerHost(<<>>, kk) /\ Roomy(<<>>, s, kk)
<1>1. \A k : Places(<<>>, kk, k) = {}
  BY DEF Places
<1>2. \A k : Cardinality(Places(<<>>, kk, k)) = 0
  BY <1>1, FS_EmptySet
<1>3. MaxPerHost \in Nat
  BY LimitAssumption
<1> HIDE DEF Places
<1>4. FewPerHost(<<>>, kk)
  BY <1>2, <1>3 DEF FewPerHost
<1>5. Roomy(<<>>, s, kk)
  BY <1>2, <1>3 DEF Roomy
<1>6. QED BY <1>4, <1>5

\* Taking an entry out keeps every host within its limit.
LEMMA FewerPerHost ==
  ASSUME NEW h \in Seq(Conns), Distinct(h), NEW kk, FewPerHost(h, kk), NEW i \in DOMAIN h
  PROVE  FewPerHost(RemoveAt(h, i), kk)
<1> SUFFICES ASSUME MaxPerHost > 0, NEW k \in Keys
             PROVE  Cardinality(Places(RemoveAt(h, i), kk, k)) <= MaxPerHost
  BY DEF FewPerHost
<1>1. i \in 1..Len(h) /\ Cardinality(Places(h, kk, k)) <= MaxPerHost /\ MaxPerHost \in Nat
  BY LimitAssumption DEF FewPerHost
<1>2. RemoveAt(h, i) \in Seq(Conns) /\ Distinct(RemoveAt(h, i))
  BY <1>1, RemoveAtProperties, RemoveAtDistinct
<1>3. /\ Cardinality(Places(h, kk, k)) \in Nat
      /\ Cardinality(Places(RemoveAt(h, i), kk, k)) \in Nat
  BY <1>2, PlacesAreEntries
<1>4. Cardinality(Places(RemoveAt(h, i), kk, k)) <= Cardinality(Places(h, kk, k))
  BY PlacesAfterRemoval
<1>5. QED BY <1>1, <1>3, <1>4
-----------------------------------------------------------------------------
(* HInv, action by action.                                                 *)

LEMMA UnlinkHost ==
  ASSUME IInv, HInv, NEW p \in Procs, AcquireUnlink(p) PROVE HInv'
<1>1. stack[p] # <<>> /\ UNCHANGED key
  BY DEF AcquireUnlink, InCall, connVars
<1>2. PICK i \in DOMAIN head[p] :
        /\ key[head[p][i]] = Top(p).key
        /\ head' = [head EXCEPT ![p] = RemoveAt(head[p], i)]
        /\ SetTop(p, [Top(p) EXCEPT !.conn = head[p][i], !.phase = "probe"])
  BY DEF AcquireUnlink, Matches
<1> DEFINE e == [Top(p) EXCEPT !.conn = head[p][i], !.phase = "probe"]
           h == RemoveAt(head[p], i)
           s == Append(Front(stack[p]), e)
<1>3. /\ TypeOK /\ head[p] \in Seq(Conns) /\ Distinct(head[p]) /\ stack[p] \in Seq(Call)
      /\ FewPerHost(head[p], key) /\ CallsRight(stack[p], key) /\ Top(p) \in Call
  BY <1>1, HostContext
<1>a. head[p][i] \in Conns
  BY <1>3
<1>4. e \in Call /\ e.conn = head[p][i] /\ e.key = Top(p).key /\ e.phase = "probe"
  BY <1>3, <1>a DEF Call
<1>5. head'[p] = h /\ stack'[p] = s /\ \A q \in Procs : q # p => head'[q] = head[q] /\ stack'[q] = stack[q]
  BY <1>2, <1>3 DEF TypeOK, SetTop
<1>6. FewPerHost(h, key)
  BY <1>3, FewerPerHost
<1> HIDE DEF e
<1>7. CallsRight(s, key) /\ TopOf(s) = e
  BY <1>1, <1>2, <1>3, <1>4, CallsSwapped
<1> HIDE DEF h, s
<1>8. HostOK(h, s, key)
  BY <1>4, <1>6, <1>7 DEF HostOK, Roomy
<1>9. QED BY <1>1, <1>5, <1>8, HostStep

\* A call that returns leaves one in its probe, or none.
LEMMA ReturnHost ==
  ASSUME IInv, HInv, NEW p \in Procs, stack[p] # <<>>, Pop(p), UNCHANGED <<head, key>>
  PROVE  HInv'
<1>1. /\ TypeOK /\ FewPerHost(head[p], key) /\ CallsRight(stack[p], key)
      /\ stack[p] \in Seq(Call)
  BY HostContext
<1>2. /\ CallsRight(Front(stack[p]), key)
      /\ Front(stack[p]) # <<>> => TopOf(Front(stack[p])).phase \in Waiting
  BY <1>1, CallsBelow
<1>3. HostOK(head[p], Front(stack[p]), key)
  BY <1>1, <1>2 DEF HostOK, Roomy, Waiting
<1>4. /\ head'[p] = head[p] /\ stack'[p] = Front(stack[p])
      /\ \A q \in Procs : q # p => head'[q] = head[q] /\ stack'[q] = stack[q]
  BY <1>1 DEF Pop, TypeOK
<1>5. QED BY <1>3, <1>4, HostStep

LEMMA AskHost ==
  ASSUME IInv, HInv, NEW p \in Procs, AcquireAsk(p) PROVE HInv'
<1> DEFINE e == [Top(p) EXCEPT !.phase = "asked"]
           s == Append(Front(stack[p]), e)
<1>1. stack[p] # <<>> /\ SetTop(p, e) /\ UNCHANGED <<head, key>>
  BY DEF AcquireAsk, InCall, connVars, poolVars
<1>2. /\ TypeOK /\ stack[p] \in Seq(Call) /\ Top(p) \in Call
      /\ FewPerHost(head[p], key) /\ CallsRight(stack[p], key)
      /\ Top(p).conn # None => key[Top(p).conn] = Top(p).key
  BY <1>1, HostContext
<1>3. e \in Call /\ e.conn = Top(p).conn /\ e.key = Top(p).key /\ e.phase = "asked"
  BY <1>2 DEF Call
<1>4. /\ head'[p] = head[p] /\ stack'[p] = s
      /\ \A q \in Procs : q # p => head'[q] = head[q] /\ stack'[q] = stack[q]
  BY <1>1, <1>2 DEF SetTop, TypeOK
<1> HIDE DEF e
<1>5. CallsRight(s, key) /\ TopOf(s) = e
  BY <1>1, <1>2, <1>3, CallsSwapped
<1> HIDE DEF s
<1>6. HostOK(head[p], s, key)
  BY <1>2, <1>3, <1>5 DEF HostOK, Roomy
<1>7. QED BY <1>1, <1>4, <1>6, HostStep

LEMMA DiscardHost ==
  ASSUME IInv, HInv, NEW p \in Procs, AcquireDiscard(p) PROVE HInv'
<1> DEFINE e == [Top(p) EXCEPT !.conn = None, !.phase = "scan"]
           s == Append(Front(stack[p]), e)
<1>1. stack[p] # <<>> /\ SetTop(p, e) /\ UNCHANGED <<head, key>>
  BY DEF AcquireDiscard, InCall, connVars, poolVars
<1>2. /\ TypeOK /\ stack[p] \in Seq(Call) /\ Top(p) \in Call
      /\ FewPerHost(head[p], key) /\ CallsRight(stack[p], key)
  BY <1>1, HostContext
<1>3. e \in Call /\ e.conn = None /\ e.phase = "scan"
  BY <1>2 DEF Call
<1>4. /\ head'[p] = head[p] /\ stack'[p] = s
      /\ \A q \in Procs : q # p => head'[q] = head[q] /\ stack'[q] = stack[q]
  BY <1>1, <1>2 DEF SetTop, TypeOK
<1> HIDE DEF e
<1>5. CallsRight(s, key) /\ TopOf(s) = e
  BY <1>1, <1>2, <1>3, CallsSwapped
<1> HIDE DEF s
<1>6. HostOK(head[p], s, key)
  BY <1>2, <1>3, <1>5 DEF HostOK, Roomy
<1>7. QED BY <1>1, <1>4, <1>6, HostStep

\* The fork guard leaves the list as it is or empty.
LEMMA CheckedHost ==
  ASSUME IInv, HInv, NEW p \in Procs, CheckFork(p)
  PROVE  /\ FewPerHost(head'[p], key)
         /\ \A q \in Procs : q # p => head'[q] = head[q]
<1>1. TypeOK /\ FewPerHost(head[p], key)
  BY HostContext
<1>2. head'[p] = head[p] \/ head'[p] = <<>>
  BY <1>1 DEF CheckFork, HeadChecked, TypeOK
<1>3. \A q \in Procs : q # p => head'[q] = head[q]
  BY <1>1 DEF CheckFork, TypeOK
<1>4. FewPerHost(<<>>, key)
  BY EmptyHost
<1>5. QED BY <1>1, <1>2, <1>3, <1>4

LEMMA BeginHost ==
  ASSUME IInv, HInv, NEW p \in Procs, NEW k \in Keys, AcquireBegin(p, k) PROVE HInv'
<1> DEFINE e == [op |-> "acquire", key |-> k, conn |-> None, at |-> clock,
                left |-> GoneOf(k), phase |-> "scan"]
           s == Append(stack[p], e)
<1>1. stack[p] = <<>> /\ CheckFork(p) /\ Push(p, e) /\ UNCHANGED key
  BY DEF AcquireBegin, connVars
<1>2. TypeOK /\ stack[p] \in Seq(Call) /\ CallsRight(stack[p], key)
  BY HostContext
<1>3. e \in Call /\ e.conn = None /\ e.phase = "scan"
  BY <1>2 DEF Call, TypeOK, GoneOf, Gone
<1>4. stack'[p] = s /\ \A q \in Procs : q # p => stack'[q] = stack[q]
  BY <1>1, <1>2 DEF Push, TypeOK
<1> HIDE DEF e
<1>5. CallsRight(s, key) /\ TopOf(s) = e
  BY <1>1, <1>2, <1>3, CallsAbove
<1>6. FewPerHost(head'[p], key) /\ \A q \in Procs : q # p => head'[q] = head[q]
  BY <1>1, CheckedHost
<1> HIDE DEF s
<1>7. HostOK(head'[p], s, key)
  BY <1>3, <1>5, <1>6 DEF HostOK, Roomy
<1>8. QED BY <1>1, <1>4, <1>6, <1>7, HostStep

LEMMA HandBackHost ==
  ASSUME IInv, HInv, NEW p \in Procs, NEW c \in Conns, NEW reuse \in BOOLEAN,
         ReleaseBegin(p, c, reuse)
  PROVE  HInv'
<1> DEFINE e == [op |-> "release", key |-> key[c], conn |-> c, at |-> clock,
                left |-> {}, phase |-> "probe"]
           s == Append(stack[p], e)
<1>1. /\ stack[p] = <<>> \/ Top(p).phase \in Waiting
      /\ c \in held[p] /\ CheckFork(p) /\ UNCHANGED key
      /\ Push(p, e) \/ UNCHANGED stack
  BY DEF ReleaseBegin, Ticking, connVars
<1>2. /\ TypeOK /\ stack[p] \in Seq(Call) /\ CallsRight(stack[p], key)
      /\ OpenIsDialled /\ ProcOK(p)
      /\ stack[p] # <<>> => Top(p) = TopOf(stack[p])
  BY HostContext, IInvOfEach
<1>3. key[c] \in Keys
  BY <1>1, <1>2 DEF OpenIsDialled, ProcOK, PoolOK, OneOwnerEach
<1>4. e \in Call /\ e.conn = c /\ e.key = key[c] /\ e.phase = "probe"
  BY <1>2, <1>3 DEF Call, TypeOK
<1> HIDE DEF e
<1>5. CallsRight(s, key) /\ TopOf(s) = e
  BY <1>1, <1>2, <1>4, CallsAbove
<1>6. FewPerHost(head'[p], key) /\ \A q \in Procs : q # p => head'[q] = head[q]
  BY <1>1, CheckedHost
<1>7. CASE Push(p, e)
  <2>1. stack'[p] = s /\ \A q \in Procs : q # p => stack'[q] = stack[q]
    BY <1>2, <1>7 DEF Push, TypeOK
  <2> HIDE DEF s
  <2>2. HostOK(head'[p], s, key)
    BY <1>4, <1>5, <1>6 DEF HostOK, Roomy
  <2>3. QED BY <1>1, <1>6, <2>1, <2>2, HostStep
<1>8. CASE UNCHANGED stack
  <2>1. HostOK(head'[p], stack[p], key)
    BY <1>1, <1>2, <1>6 DEF HostOK, Roomy, Waiting
  <2>2. QED BY <1>1, <1>6, <1>8, <2>1, HostStep
<1>9. QED BY <1>1, <1>7, <1>8

\* Making room: after it the host of the entry has a place to spare.
LEMMA HostRoomHost ==
  ASSUME IInv, HInv, NEW p \in Procs, ReleaseHostRoom(p) PROVE HInv'
<1> DEFINE e == [Top(p) EXCEPT !.phase = "room"]
           s == Append(Front(stack[p]), e)
<1>1. /\ stack[p] # <<>> /\ Top(p).phase = "probe"
      /\ SetTop(p, e) /\ UNCHANGED key
      /\ IF MaxPerHost > 0 /\ Cardinality(SameHost(p)) >= MaxPerHost
           THEN EvictOldest(p, SameHost(p)) ELSE UNCHANGED <<head, idle, open, shut>>
  BY DEF ReleaseHostRoom, InCall, connVars
<1>2. /\ TypeOK /\ stack[p] \in Seq(Call) /\ Top(p) \in Call
      /\ head[p] \in Seq(Conns) /\ Distinct(head[p])
      /\ FewPerHost(head[p], key) /\ CallsRight(stack[p], key)
      /\ Top(p).conn # None => key[Top(p).conn] = Top(p).key
  BY <1>1, HostContext
<1>3. e \in Call /\ e.conn = Top(p).conn /\ e.key = Top(p).key
  BY <1>2 DEF Call
<1>4. stack'[p] = s /\ \A q \in Procs : q # p => stack'[q] = stack[q]
  BY <1>1, <1>2 DEF SetTop, TypeOK
<1> HIDE DEF e
<1>5. CallsRight(s, key) /\ TopOf(s) = e
  BY <1>1, <1>2, <1>3, CallsSwapped
<1>6. /\ SameHost(p) = Places(head[p], key, Top(p).key) /\ Top(p).key \in Keys
      /\ Cardinality(SameHost(p)) \in Nat /\ MaxPerHost \in Nat
  <2>1. SameHost(p) = Places(head[p], key, Top(p).key) /\ Top(p).key \in Keys
    BY <1>2 DEF SameHost, Places, Call
  <2>2. Cardinality(SameHost(p)) \in Nat
    BY <1>2, <2>1, PlacesAreEntries
  <2>3. QED BY <2>1, <2>2, LimitAssumption
<1> HIDE DEF s
<1>7. CASE MaxPerHost > 0 /\ Cardinality(SameHost(p)) >= MaxPerHost
  <2>1. SameHost(p) # {}
    <3>1. Cardinality(SameHost(p)) # 0
      BY <1>6, <1>7
    <3>2. QED BY <3>1, FS_EmptySet
  <2>2. PICK i \in SameHost(p) : head' = [head EXCEPT ![p] = RemoveAt(head[p], i)]
    BY <1>1, <1>7, <2>1 DEF EvictOldest
  <2> DEFINE h == RemoveAt(head[p], i)
  <2>3. i \in DOMAIN head[p] /\ i \in Places(head[p], key, Top(p).key)
    BY <1>6 DEF Places
  <2>4. head'[p] = h /\ \A q \in Procs : q # p => head'[q] = head[q]
    BY <1>2, <2>2 DEF TypeOK
  <2>5. FewPerHost(h, key)
    BY <1>2, <2>3, FewerPerHost
  <2>6. Cardinality(Places(h, key, Top(p).key)) = Cardinality(SameHost(p)) - 1
    BY <1>2, <1>6, <2>3, PlacesAfterRemoval
  <2>7. Cardinality(SameHost(p)) <= MaxPerHost
    BY <1>2, <1>6, <1>7 DEF FewPerHost
  <2> HIDE DEF h
  <2>8. Cardinality(Places(h, key, Top(p).key)) < MaxPerHost
    BY <1>6, <2>6, <2>7
  <2>9. HostOK(h, s, key)
    BY <1>3, <1>5, <2>5, <2>8 DEF HostOK, Roomy
  <2>10. QED BY <1>1, <1>4, <2>4, <2>9, HostStep
<1>8. CASE ~(MaxPerHost > 0 /\ Cardinality(SameHost(p)) >= MaxPerHost)
  <2>1. UNCHANGED head
    BY <1>1, <1>8
  <2>2. MaxPerHost > 0 => Cardinality(SameHost(p)) < MaxPerHost
    BY <1>6, <1>8
  <2>3. HostOK(head[p], s, key)
    BY <1>2, <1>3, <1>5, <1>6, <2>2 DEF HostOK, Roomy
  <2>4. QED BY <1>1, <1>4, <2>1, <2>3, HostStep
<1>9. QED BY <1>7, <1>8

\* Eviction for max_idle does not take the room away.
LEMMA EvictHost ==
  ASSUME IInv, HInv, NEW p \in Procs, ReleaseEvict(p) PROVE HInv'
<1>1. /\ stack[p] # <<>> /\ EvictOldest(p, DOMAIN head[p]) /\ UNCHANGED <<stack, key>>
  BY DEF ReleaseEvict, InCall, connVars
<1>2. /\ TypeOK /\ head[p] \in Seq(Conns) /\ Distinct(head[p])
      /\ FewPerHost(head[p], key) /\ CallsRight(stack[p], key)
      /\ Roomy(head[p], stack[p], key)
  BY <1>1, HostContext
<1>3. CASE DOMAIN head[p] = {}
  <2>1. UNCHANGED head
    BY <1>1, <1>3 DEF EvictOldest
  <2>2. HostOK(head[p], stack[p], key)
    BY <1>2 DEF HostOK
  <2>3. QED BY <1>1, <2>1, <2>2, HostStep
<1>4. CASE DOMAIN head[p] # {}
  <2>1. PICK i \in DOMAIN head[p] : head' = [head EXCEPT ![p] = RemoveAt(head[p], i)]
    BY <1>1, <1>4 DEF EvictOldest
  <2> DEFINE h == RemoveAt(head[p], i)
             k == TopOf(stack[p]).key
  <2>2. head'[p] = h /\ \A q \in Procs : q # p => head'[q] = head[q]
    BY <1>2, <2>1 DEF TypeOK
  <2>3. FewPerHost(h, key)
    BY <1>2, FewerPerHost
  <2>4. Cardinality(Places(h, key, k)) <= Cardinality(Places(head[p], key, k))
    BY <1>2, PlacesAfterRemoval
  <2>5. /\ Cardinality(Places(h, key, k)) \in Nat /\ MaxPerHost \in Nat
        /\ Cardinality(Places(head[p], key, k)) \in Nat
    <3>1. i \in 1..Len(head[p])
      BY <1>2
    <3>2. h \in Seq(Conns) /\ Distinct(h)
      BY <1>2, <3>1, RemoveAtProperties, RemoveAtDistinct
    <3> HIDE DEF h, k
    <3>3. QED BY <1>2, <3>2, PlacesAreEntries, LimitAssumption
  <2> HIDE DEF h
  <2>6. Roomy(h, stack[p], key)
    BY <1>2, <2>4, <2>5 DEF Roomy
  <2>7. HostOK(h, stack[p], key)
    BY <1>2, <2>3, <2>6 DEF HostOK
  <2>8. QED BY <1>1, <2>2, <2>7, HostStep
<1>5. QED BY <1>3, <1>4

\* The new entry takes the place that was made for it.
LEMMA LinkHost ==
  ASSUME IInv, HInv, NEW p \in Procs, ReleaseLink(p) PROVE HInv'
<1> DEFINE c == Top(p).conn
           h == <<c>> \o head[p]
           s == Front(stack[p])
<1>1. /\ stack[p] # <<>> /\ Top(p).op = "release" /\ Top(p).phase = "room"
      /\ head' = [head EXCEPT ![p] = h] /\ Pop(p) /\ UNCHANGED key
  BY DEF ReleaseLink, InCall, connVars
<1>2. /\ TypeOK /\ head[p] \in Seq(Conns) /\ Distinct(head[p]) /\ stack[p] \in Seq(Call)
      /\ FewPerHost(head[p], key) /\ CallsRight(stack[p], key)
      /\ Roomy(head[p], stack[p], key) /\ Top(p) \in Call /\ Top(p) = TopOf(stack[p])
      /\ c # None => key[c] = Top(p).key /\ c \notin ToSet(head[p])
  BY <1>1, HostContext
<1>3. c \in Conns /\ key[c] = Top(p).key /\ c \notin ToSet(head[p])
  <2>1. c # None
    BY <1>1, RunningCall
  <2>2. QED BY <1>2, <2>1 DEF Call
<1>4. /\ head'[p] = h /\ stack'[p] = s
      /\ \A q \in Procs : q # p => head'[q] = head[q] /\ stack'[q] = stack[q]
  BY <1>1, <1>2 DEF Pop, TypeOK
<1>5. FewPerHost(h, key)
  <2> SUFFICES ASSUME MaxPerHost > 0, NEW k \in Keys
               PROVE  Cardinality(Places(h, key, k)) <= MaxPerHost
    BY DEF FewPerHost
  <2>1. /\ Cardinality(Places(head[p], key, k)) <= MaxPerHost /\ MaxPerHost \in Nat
        /\ Cardinality(Places(head[p], key, k)) \in Nat
    BY <1>2, PlacesAreEntries, LimitAssumption DEF FewPerHost
  <2>2. Cardinality(Places(h, key, k)) = IF HostOf[key[c]] = HostOf[k]
          THEN Cardinality(Places(head[p], key, k)) + 1
          ELSE Cardinality(Places(head[p], key, k))
    BY <1>2, <1>3, PlacesAfterLink
  <2>3. ASSUME HostOf[key[c]] = HostOf[k]
        PROVE  Cardinality(Places(head[p], key, k)) < MaxPerHost
    <3>1. Places(head[p], key, k) = Places(head[p], key, TopOf(stack[p]).key)
      BY <1>2, <1>3, <2>3 DEF Places
    <3>2. QED BY <1>1, <1>2, <3>1 DEF Roomy
  <2> HIDE DEF h, c
  <2>4. QED BY <2>1, <2>2, <2>3
<1>6. CallsRight(s, key) /\ (s # <<>> => TopOf(s).phase \in Waiting)
  BY <1>1, <1>2, CallsBelow
<1> HIDE DEF h, s
<1>7. HostOK(h, s, key)
  BY <1>5, <1>6 DEF HostOK, Roomy, Waiting
<1>8. QED BY <1>1, <1>4, <1>7, HostStep

LEMMA EmptiedHost ==
  ASSUME IInv, HInv, NEW p \in Procs, Clear(p) \/ FreeAndRenew(p) PROVE HInv'
<1>1. head' = [head EXCEPT ![p] = <<>>] /\ UNCHANGED <<stack, key>>
  BY DEF Clear, FreeAndRenew, connVars
<1>2. TypeOK /\ CallsRight(stack[p], key)
  BY HostContext
<1>3. head'[p] = <<>> /\ \A q \in Procs : q # p => head'[q] = head[q]
  BY <1>1, <1>2 DEF TypeOK
<1>4. HostOK(<<>>, stack[p], key)
  BY <1>2, EmptyHost DEF HostOK
<1>5. QED BY <1>1, <1>3, <1>4, HostStep

\* A new connection gets its key before it is in any list or call.
LEMMA DialHost ==
  ASSUME IInv, HInv, NEW p \in Procs, NEW c \in Conns, NEW k \in Keys, Dial(p, c, k)
  PROVE  HInv'
<1>1. /\ maker[c] = None /\ key' = [key EXCEPT ![c] = k] /\ UNCHANGED <<head, stack>>
  BY DEF Dial, poolVars
<1>2. ASSUME NEW q \in Procs PROVE HostFine(q)'
  <2>1. /\ TypeOK /\ OpenIsDialled /\ ProcOK(q) /\ HostOK(head[q], stack[q], key)
    BY IInvOfEach, HInvOfEach DEF HostFine
  <2>2. c \notin ToSet(head[q]) /\ c \notin InHand(stack[q])
    BY <1>1, <2>1 DEF OpenIsDialled, ProcOK, PoolOK, OneOwnerEach
  <2>3. head[q] \in Seq(Conns) /\ stack[q] \in Seq(Call)
    BY <2>1 DEF TypeOK
  <2>4. \A i \in DOMAIN head[q] : key'[head[q][i]] = key[head[q][i]]
    BY <1>1, <2>1, <2>2, <2>3 DEF TypeOK, ToSet
  <2>5. \A g : Places(head[q], key', g) = Places(head[q], key, g)
    BY <2>4 DEF Places
  <2>6. \A i \in DOMAIN stack[q] : stack[q][i].conn # None
          => key'[stack[q][i].conn] = key[stack[q][i].conn]
    <3> SUFFICES ASSUME NEW i \in DOMAIN stack[q], stack[q][i].conn # None
                 PROVE  key'[stack[q][i].conn] = key[stack[q][i].conn]
      OBVIOUS
    <3>1. stack[q][i] \in Call
      BY <2>3
    <3>2. stack[q][i].conn \in Conns /\ stack[q][i].conn # c
      BY <2>2, <3>1 DEF Call, InHand
    <3>3. QED BY <1>1, <2>1, <3>2 DEF TypeOK
  <2>7. HostOK(head[q], stack[q], key')
    BY <2>1, <2>5, <2>6 DEF HostOK, FewPerHost, CallsRight, Roomy
  <2>8. QED BY <1>1, <2>7 DEF HostFine
<1>3. HInvOfEach'
  BY HInvOfEach, PTL
<1>4. QED BY <1>2, <1>3

LEMMA ForkHost ==
  ASSUME IInv, HInv, Fork PROVE HInv'
<1>1. /\ head' = [head EXCEPT ![Child] = head[Parent]]
      /\ ~forked /\ UNCHANGED <<stack, key>>
  BY DEF Fork, connVars
<1>2. stack[Child] = <<>> /\ Parent \in Procs /\ Child \in Procs
  BY <1>1 DEF IInv, ChildNotYet, Procs
<1>3. TypeOK /\ FewPerHost(head[Parent], key) /\ CallsRight(stack[Child], key)
  BY <1>2, HostContext
<1>4. head'[Child] = head[Parent] /\ \A q \in Procs : q # Child => head'[q] = head[q]
  BY <1>1, <1>2, <1>3 DEF TypeOK
<1>5. HostOK(head[Parent], stack[Child], key)
  BY <1>2, <1>3 DEF HostOK, Roomy
<1>6. QED BY <1>1, <1>2, <1>4, <1>5, HostStep

LEMMA OutsideHost ==
  ASSUME IInv, HInv, (\E c \in Conns : PeerLeaves(c)) \/ Tick \/ UNCHANGED vars
  PROVE  HInv'
<1>1. UNCHANGED <<head, stack, key>>
  BY DEF PeerLeaves, Tick, vars, poolVars, connVars
<1>2. \A q \in Procs : HostFine(q)
  BY HInvOfEach
<1>3. \A q \in Procs : HostFine(q)'
  BY <1>1, <1>2 DEF HostFine
<1>4. HInvOfEach'
  BY HInvOfEach, PTL
<1>5. QED BY <1>3, <1>4

LEMMA InitHost == Init => HInv
<1> SUFFICES ASSUME Init PROVE HInv
  OBVIOUS
<1>1. \A p \in Procs : head[p] = <<>> /\ stack[p] = <<>>
  BY DEF Init
<1>2. \A p \in Procs : HostFine(p)
  BY <1>1, EmptyHost DEF HostFine, HostOK, CallsRight, NestedInProbe
<1>3. QED BY <1>2, HInvOfEach

LEMMA NextHost == IInv /\ HInv /\ [Next]_vars => HInv'
<1> SUFFICES ASSUME IInv, HInv, [Next]_vars PROVE HInv'
  OBVIOUS
<1>1. ASSUME NEW p \in Procs, AcquireMiss(p) \/ AcquireHit(p) \/ ReleaseClose(p) PROVE HInv'
  BY <1>1, ReturnHost
     DEF AcquireMiss, AcquireHit, ReleaseClose, InCall, poolVars, connVars
<1>2. CASE \E p \in Procs : CallStep(p)
  BY <1>1, <1>2, UnlinkHost, AskHost, DiscardHost, HostRoomHost, EvictHost, LinkHost DEF CallStep
<1>3. CASE \E p \in Procs, k \in Keys : AcquireBegin(p, k)
  BY <1>3, BeginHost
<1>4. CASE \E p \in Procs, k \in Keys, c \in Conns : Dial(p, c, k)
  BY <1>4, DialHost
<1>5. CASE \E p \in Procs, c \in Conns, reuse \in BOOLEAN : ReleaseBegin(p, c, reuse)
  BY <1>5, HandBackHost
<1>6. CASE \E p \in Procs : Clear(p) \/ FreeAndRenew(p)
  BY <1>6, EmptiedHost
<1>7. CASE Fork
  BY <1>7, ForkHost
<1>8. CASE (\E c \in Conns : PeerLeaves(c)) \/ Tick \/ UNCHANGED vars
  BY <1>8, OutsideHost
<1>9. QED BY <1>2, <1>3, <1>4, <1>5, <1>6, <1>7, <1>8 DEF Next

\* Every reachable state is one of HInv: calls nest in probes only, what a call
\* has in hand has its key, and a release still has the room it made.
THEOREM HostInductive == Spec => []HInv
  BY InitHost, NextHost, Inductive, PTL DEF Spec

\* However releases nest in the probes of one another, no host ever has more
\* idle connections than max_per_host allows: the room that a release makes
\* is still there when it links its entry.
THEOREM HostBounded == Spec => []WithinMaxPerHost
<1>1. HInv => WithinMaxPerHost
  BY DEF HInv
<1>2. QED BY <1>1, HostInductive, PTL
-----------------------------------------------------------------------------
(* What an acquisition hands out.                                          *)

\* A call that returns is not on the stack any more.
LEMMA FrontDiffers ==
  ASSUME NEW s \in Seq(Call), s # <<>> PROVE Front(s) # s
<1>1. Len(Front(s)) = Len(s) - 1 /\ Len(s) \in Nat
  BY FrontProperties
<1>2. QED BY <1>1

\* The only step that answers a call with a connection is AcquireHit.
LEMMA OnlyAcquireHits ==
  ASSUME IInv, HInv, Next, NEW p \in Procs, NEW c \in Conns, Hit(p, c)
  PROVE  AcquireHit(p)
<1>1. TypeOK /\ stack[p] \in Seq(Call) /\ stack[p] # <<>>
  BY HostContext DEF Hit
<1>2. stack'[p] # stack[p] /\ ~(held'[p] \subseteq held[p])
  BY <1>1, FrontDiffers DEF Hit
<1>3. ASSUME NEW q \in Procs, CallStep(q) PROVE AcquireHit(p)
  <2>1. CASE AcquireHit(q)
    <3>1. q = p
      BY <1>1, <1>2, <2>1 DEF AcquireHit, TypeOK
    <3>2. QED BY <2>1, <3>1
  <2>2. CASE ~AcquireHit(q)
    <3>1. UNCHANGED held
      BY <1>3, <2>2 DEF CallStep, AcquireUnlink, AcquireMiss, AcquireAsk, AcquireDiscard,
           ReleaseClose, ReleaseHostRoom, ReleaseEvict, ReleaseLink
    <3>2. QED BY <1>2, <3>1
  <2>3. QED BY <2>1, <2>2
<1>4. ~(\E q \in Procs, k \in Keys : AcquireBegin(q, k))
  BY <1>2 DEF AcquireBegin
<1>5. ~(\E q \in Procs, d \in Conns, reuse \in BOOLEAN : ReleaseBegin(q, d, reuse))
  <2> SUFFICES ASSUME NEW q \in Procs, NEW d \in Conns, NEW reuse \in BOOLEAN,
                      ReleaseBegin(q, d, reuse)
               PROVE  FALSE
    OBVIOUS
  <2>1. held' = [held EXCEPT ![q] = held[q] \ {d}]
    BY DEF ReleaseBegin
  <2>2. held'[p] \subseteq held[p]
    BY <1>1, <2>1 DEF TypeOK
  <2>3. QED BY <1>2, <2>2
<1>6. ~(\E q \in Procs, k \in Keys, d \in Conns : Dial(q, d, k)) /\ ~Fork
  BY <1>2 DEF Dial, Fork
<1>7. ~(\E q \in Procs : Clear(q) \/ FreeAndRenew(q))
  BY <1>2 DEF Clear, FreeAndRenew
<1>8. ~(\E d \in Conns : PeerLeaves(d)) /\ ~Tick
  BY <1>2 DEF PeerLeaves, Tick
<1>9. QED BY <1>3, <1>4, <1>5, <1>6, <1>7, <1>8 DEF Next

(* SInv, process by process: e is a call, g the peers known to have gone,  *)
(* t the times at which a process linked its entries.                      *)

SoundIn(e, g, t) ==
  /\ e.left \subseteq g
  /\ e.phase = "asked" =>
       e.conn \notin e.left /\ ~(IdleTimeout > 0 /\ e.at - t[e.conn] >= IdleTimeout)
AllSound(s, g, t) == \A i \in DOMAIN s : SoundIn(s[i], g, t)

LEMMA SInvOfEach == SInv <=> \A p \in Procs : AllSound(stack[p], Gone, since[p])
  BY DEF SInv, AllSound, SoundIn, CallSound, Expired

\* A step of one process, when no peer comes back.
LEMMA SoundStep ==
  ASSUME SInv, NEW p \in Procs, Gone \subseteq Gone',
         \A q \in Procs : q # p => stack'[q] = stack[q] /\ since'[q] = since[q],
         AllSound(stack'[p], Gone', since'[p])
  PROVE  SInv'
<1>1. \A q \in Procs : AllSound(stack[q], Gone, since[q])
  BY SInvOfEach
<1>2. ASSUME NEW q \in Procs PROVE AllSound(stack[q], Gone, since[q])'
  <2>1. CASE q = p
    BY <2>1
  <2>2. CASE q # p
    <3>1. AllSound(stack[q], Gone', since[q])
      BY <1>1 DEF AllSound, SoundIn
    <3>2. QED BY <2>2, <3>1
  <2>3. QED BY <2>1, <2>2
<1>3. SInvOfEach'
  BY SInvOfEach, PTL
<1>4. QED BY <1>2, <1>3

\* A step that moves neither a call nor a peer nor a time.
LEMMA SoundStill ==
  ASSUME SInv, UNCHANGED <<stack, peer, since>> PROVE SInv'
  BY DEF SInv, CallSound, Expired, Gone

\* Calls that return, begin, or go on with another record.
LEMMA SoundFront ==
  ASSUME NEW s \in Seq(Call), s # <<>>, NEW g, NEW t, AllSound(s, g, t)
  PROVE  AllSound(Front(s), g, t) /\ SoundIn(TopOf(s), g, t)
<1>1. /\ Front(s) \in Seq(Call) /\ Len(Front(s)) = Len(s) - 1
      /\ \A j \in 1..Len(s) - 1 : Front(s)[j] = s[j]
      /\ Len(s) \in Nat \ {0}
  BY FrontProperties
<1>2. DOMAIN s = 1..Len(s) /\ DOMAIN Front(s) = 1..Len(s) - 1
  BY <1>1
<1>3. \A j \in DOMAIN Front(s) : j \in DOMAIN s /\ Front(s)[j] = s[j]
  BY <1>1, <1>2
<1>4. Len(s) \in DOMAIN s
  BY <1>1, <1>2
<1>5. QED BY <1>3, <1>4 DEF AllSound, TopOf

LEMMA SoundAppend ==
  ASSUME NEW s \in Seq(Call), NEW e \in Call, NEW g, NEW t, AllSound(s, g, t), SoundIn(e, g, t)
  PROVE  AllSound(Append(s, e), g, t)
<1>1. /\ Append(s, e) \in Seq(Call) /\ Len(Append(s, e)) = Len(s) + 1
      /\ \A j \in 1..Len(s) : Append(s, e)[j] = s[j]
      /\ Append(s, e)[Len(s) + 1] = e
  BY AppendProperties
<1>2. DOMAIN s = 1..Len(s) /\ DOMAIN Append(s, e) = 1..Len(s) + 1 /\ Len(s) \in Nat
  BY <1>1
<1>3. \A j \in DOMAIN Append(s, e) :
        \/ j \in DOMAIN s /\ Append(s, e)[j] = s[j]
        \/ Append(s, e)[j] = e
  BY <1>1, <1>2
<1>4. QED BY <1>3 DEF AllSound

\* What a step on the pool of p knows of the calls in progress.
LEMMA SoundContext ==
  ASSUME IInv, SInv, NEW p \in Procs
  PROVE  /\ TypeOK /\ stack[p] \in Seq(Call) /\ AllSound(stack[p], Gone, since[p])
         /\ stack[p] # <<>> =>
              /\ Top(p) \in Call /\ Front(stack[p]) \in Seq(Call)
              /\ AllSound(Front(stack[p]), Gone, since[p])
              /\ SoundIn(Top(p), Gone, since[p])
<1>1. TypeOK /\ stack[p] \in Seq(Call) /\ AllSound(stack[p], Gone, since[p])
  BY SInvOfEach DEF IInv, TypeOK
<1>2. QED BY <1>1, SoundFront, FrontProperties DEF Top, TopOf

LEMMA ReturnSound ==
  ASSUME IInv, SInv, NEW p \in Procs, stack[p] # <<>>, Pop(p), UNCHANGED <<peer, since>>
  PROVE  SInv'
<1>1. TypeOK /\ AllSound(Front(stack[p]), Gone, since[p])
  BY SoundContext
<1>2. /\ stack'[p] = Front(stack[p]) /\ Gone' = Gone
      /\ \A q \in Procs : q # p => stack'[q] = stack[q]
  BY <1>1 DEF Pop, TypeOK, Gone
<1>3. QED BY <1>1, <1>2, SoundStep

\* A call begins, or the running one goes on, with a sound record e.
LEMMA PushSound ==
  ASSUME IInv, SInv, NEW p \in Procs, NEW e \in Call, SoundIn(e, Gone, since[p]),
         \/ Push(p, e)
         \/ stack[p] # <<>> /\ SetTop(p, e),
         UNCHANGED <<peer, since>>
  PROVE  SInv'
<1>1. /\ TypeOK /\ stack[p] \in Seq(Call) /\ AllSound(stack[p], Gone, since[p])
      /\ stack[p] # <<>> => /\ Front(stack[p]) \in Seq(Call)
                            /\ AllSound(Front(stack[p]), Gone, since[p])
  BY SoundContext
<1>2. Gone' = Gone /\ since' = since
  BY DEF Gone
<1>3. CASE Push(p, e)
  <2>1. stack'[p] = Append(stack[p], e) /\ \A q \in Procs : q # p => stack'[q] = stack[q]
    BY <1>1, <1>3 DEF Push, TypeOK
  <2>2. AllSound(Append(stack[p], e), Gone, since[p])
    BY <1>1, SoundAppend
  <2>3. QED BY <1>2, <2>1, <2>2, SoundStep
<1>4. CASE stack[p] # <<>> /\ SetTop(p, e)
  <2>1. stack'[p] = Append(Front(stack[p]), e) /\ \A q \in Procs : q # p => stack'[q] = stack[q]
    BY <1>1, <1>4 DEF SetTop, TypeOK
  <2>2. AllSound(Append(Front(stack[p]), e), Gone, since[p])
    BY <1>1, <1>4, SoundAppend
  <2>3. QED BY <1>2, <2>1, <2>2, SoundStep
<1>5. QED BY <1>3, <1>4

LEMMA UnlinkSound ==
  ASSUME IInv, SInv, NEW p \in Procs, AcquireUnlink(p) PROVE SInv'
<1>1. PICK i \in DOMAIN head[p] :
        SetTop(p, [Top(p) EXCEPT !.conn = head[p][i], !.phase = "probe"])
  BY DEF AcquireUnlink, Matches
<1> DEFINE e == [Top(p) EXCEPT !.conn = head[p][i], !.phase = "probe"]
<1>2. stack[p] # <<>> /\ SetTop(p, e) /\ UNCHANGED <<peer, since>>
  BY <1>1 DEF AcquireUnlink, InCall, connVars
<1>3. TypeOK /\ Top(p) \in Call /\ SoundIn(Top(p), Gone, since[p])
  BY <1>2, SoundContext
<1>4. head[p][i] \in Conns
  BY <1>3 DEF TypeOK
<1>5. e \in Call /\ e.phase = "probe" /\ e.left = Top(p).left
  BY <1>3, <1>4 DEF Call
<1> HIDE DEF e
<1>6. SoundIn(e, Gone, since[p])
  BY <1>3, <1>5 DEF SoundIn
<1>7. QED BY <1>2, <1>5, <1>6, PushSound

LEMMA DiscardSound ==
  ASSUME IInv, SInv, NEW p \in Procs, AcquireDiscard(p) PROVE SInv'
<1> DEFINE e == [Top(p) EXCEPT !.conn = None, !.phase = "scan"]
<1>1. stack[p] # <<>> /\ SetTop(p, e) /\ UNCHANGED <<peer, since>>
  BY DEF AcquireDiscard, InCall, connVars, poolVars
<1>2. Top(p) \in Call /\ SoundIn(Top(p), Gone, since[p])
  BY <1>1, SoundContext
<1>3. e \in Call /\ e.phase = "scan" /\ e.left = Top(p).left
  BY <1>2 DEF Call
<1> HIDE DEF e
<1>4. SoundIn(e, Gone, since[p])
  BY <1>2, <1>3 DEF SoundIn
<1>5. QED BY <1>1, <1>3, <1>4, PushSound

\* Of a connection that is not stale now the peer had not gone before.
LEMMA AskSound ==
  ASSUME IInv, SInv, NEW p \in Procs, AcquireAsk(p) PROVE SInv'
<1> DEFINE c == Top(p).conn
           e == [Top(p) EXCEPT !.phase = "asked"]
<1>1. /\ stack[p] # <<>> /\ SetTop(p, e) /\ UNCHANGED <<peer, since>>
      /\ c \notin Gone /\ ~(IdleTimeout > 0 /\ Top(p).at - since[p][c] >= IdleTimeout)
  BY DEF AcquireAsk, InCall, connVars, poolVars, Unusable, Stale, Expired
<1>2. Top(p) \in Call /\ SoundIn(Top(p), Gone, since[p])
  BY <1>1, SoundContext
<1>3. /\ e \in Call /\ e.phase = "asked" /\ e.conn = c /\ e.at = Top(p).at
      /\ e.left = Top(p).left
  BY <1>2 DEF Call
<1> HIDE DEF e
<1>4. SoundIn(e, Gone, since[p])
  BY <1>1, <1>2, <1>3 DEF SoundIn
<1>5. QED BY <1>1, <1>3, <1>4, PushSound

\* A release stamps its own entry, and a call that waits has another in hand.
LEMMA RoomSound ==
  ASSUME IInv, SInv, NEW p \in Procs, ReleaseHostRoom(p) PROVE SInv'
<1> DEFINE c == Top(p).conn
           e == [Top(p) EXCEPT !.phase = "room"]
           f == Front(stack[p])
<1>1. /\ stack[p] # <<>> /\ Top(p).phase = "probe" /\ SetTop(p, e) /\ UNCHANGED peer
      /\ since' = [since EXCEPT ![p][c] = clock]
  BY DEF ReleaseHostRoom, InCall, connVars
<1>2. /\ TypeOK /\ Top(p) \in Call /\ f \in Seq(Call) /\ AllSound(f, Gone, since[p])
      /\ SoundIn(Top(p), Gone, since[p])
  BY <1>1, SoundContext
<1>3. /\ StackOK(stack[p]) /\ Top(p) = TopOf(stack[p]) /\ c # None
  BY <1>1, RunningCall DEF ProcOK, PoolOK
<1>4. c \notin InHand(f)
  BY <1>1, <1>3, FrontStack
<1>5. /\ stack'[p] = Append(f, e) /\ Gone' = Gone
      /\ \A q \in Procs : q # p => stack'[q] = stack[q] /\ since'[q] = since[q]
      /\ \A d : d # c => since'[p][d] = since[p][d]
  BY <1>1, <1>2 DEF SetTop, TypeOK, Gone
<1>6. AllSound(f, Gone, since'[p])
  <2> SUFFICES ASSUME NEW i \in DOMAIN f PROVE SoundIn(f[i], Gone, since'[p])
    BY DEF AllSound
  <2>1. SoundIn(f[i], Gone, since[p])
    BY <1>2 DEF AllSound
  <2>2. CASE f[i].phase = "asked"
    <3>1. f[i].conn # None
      BY <1>1, <1>3, <2>2, FrontStack DEF StackOK, WellShaped
    <3>2. f[i].conn \in InHand(f)
      BY <3>1 DEF InHand
    <3>3. since'[p][f[i].conn] = since[p][f[i].conn]
      BY <1>4, <1>5, <3>2
    <3>4. QED BY <2>1, <3>3 DEF SoundIn
  <2>3. CASE f[i].phase # "asked"
    BY <2>1, <2>3 DEF SoundIn
  <2>4. QED BY <2>2, <2>3
<1>7. e \in Call /\ e.phase = "room" /\ e.left = Top(p).left
  BY <1>2 DEF Call
<1> HIDE DEF e, f, c
<1>8. SoundIn(e, Gone, since'[p])
  BY <1>2, <1>7 DEF SoundIn
<1>9. AllSound(Append(f, e), Gone, since'[p])
  BY <1>2, <1>6, <1>7, <1>8, SoundAppend
<1>10. QED BY <1>5, <1>9, SoundStep

LEMMA BeginSound ==
  ASSUME IInv, SInv, NEW p \in Procs, NEW k \in Keys, AcquireBegin(p, k) PROVE SInv'
<1> DEFINE e == [op |-> "acquire", key |-> k, conn |-> None, at |-> clock,
                left |-> GoneOf(k), phase |-> "scan"]
<1>1. Push(p, e) /\ UNCHANGED <<peer, since>>
  BY DEF AcquireBegin, connVars
<1>2. e \in Call /\ e.left \subseteq Gone /\ e.phase = "scan"
  BY DEF Call, IInv, TypeOK, GoneOf, Gone
<1> HIDE DEF e
<1>3. SoundIn(e, Gone, since[p])
  BY <1>2 DEF SoundIn
<1>4. QED BY <1>1, <1>2, <1>3, PushSound

LEMMA HandBackSound ==
  ASSUME IInv, SInv, NEW p \in Procs, NEW c \in Conns, NEW reuse \in BOOLEAN,
         ReleaseBegin(p, c, reuse)
  PROVE  SInv'
<1> DEFINE e == [op |-> "release", key |-> key[c], conn |-> c, at |-> clock,
                left |-> {}, phase |-> "probe"]
<1>1. Push(p, e) \/ UNCHANGED stack
  BY DEF ReleaseBegin
<1>2. c \in held[p] /\ UNCHANGED <<peer, since>>
  BY DEF ReleaseBegin, connVars
<1>3. key[c] \in Keys
  BY <1>2, IInvOfEach DEF OpenIsDialled, ProcOK, PoolOK, OneOwnerEach
<1>4. e \in Call /\ e.left = {} /\ e.phase = "probe"
  BY <1>3 DEF Call, IInv, TypeOK
<1> HIDE DEF e
<1>5. SoundIn(e, Gone, since[p])
  BY <1>4 DEF SoundIn
<1>6. CASE Push(p, e)
  BY <1>2, <1>4, <1>5, <1>6, PushSound
<1>7. CASE UNCHANGED stack
  BY <1>2, <1>7, SoundStill
<1>8. QED BY <1>1, <1>6, <1>7

LEMMA ForkSound ==
  ASSUME IInv, SInv, Fork PROVE SInv'
<1>1. /\ ~forked /\ UNCHANGED <<stack, peer>>
      /\ since' = [since EXCEPT ![Child] = since[Parent]]
  BY DEF Fork, connVars
<1>2. TypeOK /\ stack[Child] = <<>> /\ Child \in Procs
  BY <1>1 DEF IInv, ChildNotYet, Procs
<1>3. Gone' = Gone /\ \A q \in Procs : q # Child => stack'[q] = stack[q] /\ since'[q] = since[q]
  BY <1>1, <1>2 DEF Gone, TypeOK
<1>4. AllSound(stack'[Child], Gone', since'[Child])
  BY <1>1, <1>2 DEF AllSound
<1>5. QED BY <1>2, <1>3, <1>4, SoundStep

LEMMA LeavesSound ==
  ASSUME IInv, SInv, NEW c \in Conns, PeerLeaves(c) PROVE SInv'
<1>1. UNCHANGED <<stack, since>> /\ peer' = [peer EXCEPT ![c] = "closed"] /\ TypeOK
  BY DEF PeerLeaves, poolVars, IInv
<1>2. Gone \subseteq Gone'
  BY <1>1 DEF Gone, TypeOK
<1>3. Parent \in Procs /\ AllSound(stack[Parent], Gone, since[Parent])
  BY SoundContext DEF Procs
<1>4. AllSound(stack'[Parent], Gone', since'[Parent])
  BY <1>1, <1>2, <1>3 DEF AllSound, SoundIn
<1>5. QED BY <1>1, <1>2, <1>3, <1>4, SoundStep

LEMMA InitSound == Init => SInv
  BY DEF Init, SInv

LEMMA NextSound == IInv /\ SInv /\ [Next]_vars => SInv'
<1> SUFFICES ASSUME IInv, SInv, [Next]_vars PROVE SInv'
  OBVIOUS
<1>1. ASSUME NEW p \in Procs,
             AcquireMiss(p) \/ AcquireHit(p) \/ ReleaseClose(p) \/ ReleaseLink(p)
      PROVE  SInv'
  <2>1. stack[p] # <<>> /\ Pop(p) /\ UNCHANGED <<peer, since>>
    BY <1>1 DEF AcquireMiss, AcquireHit, ReleaseClose, ReleaseLink, InCall, poolVars, connVars
  <2>2. QED BY <2>1, ReturnSound
<1>2. ASSUME NEW p \in Procs, ReleaseEvict(p) \/ Clear(p) \/ FreeAndRenew(p) PROVE SInv'
  BY <1>2, SoundStill DEF ReleaseEvict, Clear, FreeAndRenew, connVars
<1>3. CASE \E p \in Procs : CallStep(p)
  BY <1>1, <1>2, <1>3, UnlinkSound, AskSound, DiscardSound, RoomSound DEF CallStep
<1>4. CASE \E p \in Procs, k \in Keys : AcquireBegin(p, k)
  BY <1>4, BeginSound
<1>5. CASE \E p \in Procs, k \in Keys, c \in Conns : Dial(p, c, k)
  BY <1>5, SoundStill DEF Dial, poolVars
<1>6. CASE \E p \in Procs, c \in Conns, reuse \in BOOLEAN : ReleaseBegin(p, c, reuse)
  BY <1>6, HandBackSound
<1>7. CASE \E p \in Procs : Clear(p) \/ FreeAndRenew(p)
  BY <1>2, <1>7
<1>8. CASE Fork
  BY <1>8, ForkSound
<1>9. CASE \E c \in Conns : PeerLeaves(c)
  BY <1>9, LeavesSound
<1>10. CASE Tick \/ UNCHANGED vars
  BY <1>10, SoundStill DEF Tick, vars, poolVars, connVars
<1>11. QED BY <1>3, <1>4, <1>5, <1>6, <1>7, <1>8, <1>9, <1>10 DEF Next

\* What was asked of an entry before its PING waited is still so when it is
\* handed out, whatever releases nested in the wait.
THEOREM SoundInductive == Spec => []SInv
  BY InitSound, NextSound, Inductive, PTL DEF Spec

\* Between the question and the hand-out releases nest and peers leave, and
\* still a hit has the key asked for, a peer that had not gone when the
\* acquisition began, and an entry that had not expired then.
THEOREM HitsSound == Spec => HitsAreSound
<1>1. ASSUME IInv, HInv, SInv, Next, NEW p \in Procs, NEW c \in Conns, Hit(p, c)
      PROVE  /\ key[c] = Top(p).key
             /\ c \notin Top(p).left
             /\ IdleTimeout > 0 => Top(p).at - since[p][c] < IdleTimeout
  <2>1. AcquireHit(p)
    BY <1>1, OnlyAcquireHits
  <2>2. /\ TypeOK /\ Top(p) \in Call /\ stack[p] # <<>>
        /\ Top(p).conn # None => key[Top(p).conn] = Top(p).key
    BY <1>1, HostContext DEF Hit
  <2>3. c = Top(p).conn
    BY <1>1, <2>1, <2>2 DEF AcquireHit, Hit, TypeOK
  <2>4. c # None
    BY ConnsAssumption
  <2>5. Top(p).phase = "asked" /\ SoundIn(Top(p), Gone, since[p])
    BY <1>1, <2>1, <2>2, SoundContext DEF AcquireHit, InCall
  <2>6. Top(p).at \in Nat /\ since[p][c] \in Nat /\ IdleTimeout \in Nat
    BY <2>2, LimitAssumption DEF TypeOK, Call
  <2>7. c \notin Top(p).left /\ ~(IdleTimeout > 0 /\ Top(p).at - since[p][c] >= IdleTimeout)
    BY <2>3, <2>5 DEF SoundIn
  <2>8. IdleTimeout > 0 => Top(p).at - since[p][c] < IdleTimeout
    BY <2>6, <2>7
  <2>9. QED BY <2>2, <2>3, <2>4, <2>7, <2>8
<1>2. IInv /\ HInv /\ SInv /\ [Next]_vars =>
        [\A p \in Procs, c \in Conns : Hit(p, c) =>
           /\ key[c] = Top(p).key
           /\ c \notin Top(p).left
           /\ IdleTimeout > 0 => Top(p).at - since[p][c] < IdleTimeout]_vars
  BY <1>1
<1>3. QED BY <1>2, Inductive, HostInductive, SoundInductive, PTL DEF Spec, HitsAreSound
-----------------------------------------------------------------------------
(***************************************************************************)
(* The pool implements Ownership: the initial state maps to Ownership's,   *)
(* and every step maps to one of its steps or to a stutter.                *)
(***************************************************************************)

\* A list has no more different elements than places.
LEMMA CardinalityOfList ==
  ASSUME NEW S, NEW s \in Seq(S)
  PROVE  Cardinality(ToSet(s)) <= Len(s) /\ IsFiniteSet(ToSet(s))
<1>1. Len(s) \in Nat /\ DOMAIN s = 1..Len(s)
  OBVIOUS
<1>2. ToSet(s) = {s[i] : i \in 1..Len(s)}
  BY <1>1 DEF ToSet
<1>3. s \in Surjection(1..Len(s), ToSet(s))
  BY <1>1, <1>2 DEF Surjection
<1>4. ExistsSurjection(1..Len(s), ToSet(s))
  BY <1>3 DEF ExistsSurjection
<1>5. IsFiniteSet(1..Len(s))
  BY <1>1, FS_Interval
<1>6. QED BY <1>1, <1>3, <1>4, <1>5, FS_Surjection, FS_SurjCardinalityBound

\* How a step on the pool of p shows in the sets of Ownership.
LEMMA IdleMoves ==
  ASSUME TypeOK, NEW p \in Procs, NEW h, head' = [head EXCEPT ![p] = h]
  PROVE  IdleSets' = [IdleSets EXCEPT ![p] = ToSet(h)]
  BY DEF IdleSets, Idle, TypeOK

LEMMA ProbedMoves ==
  ASSUME TypeOK, NEW p \in Procs, NEW s, stack' = [stack EXCEPT ![p] = s]
  PROVE  ProbedSets' = [ProbedSets EXCEPT ![p] = InHand(s)]
  BY DEF ProbedSets, Probed, TypeOK

LEMMA OwnedMoves ==
  ASSUME TypeOK, NEW p \in Procs, guard' = [guard EXCEPT ![p] = p]
  PROVE  Owned' = [Owned EXCEPT ![p] = TRUE]
  BY DEF Owned, Tripped, TypeOK

LEMMA Unmoved ==
  /\ UNCHANGED head => IdleSets' = IdleSets
  /\ UNCHANGED stack => ProbedSets' = ProbedSets
  /\ UNCHANGED guard => Owned' = Owned
  /\ UNCHANGED maker => Dialled' = Dialled
  BY DEF IdleSets, Idle, ProbedSets, Probed, Owned, Tripped, Dialled
-----------------------------------------------------------------------------
\* The guard is right at the start and after every step.
LEMMA GuardInit == Init => GuardRight
  BY ProcAssumption DEF Init, GuardRight, Procs

LEMMA GuardNext == IInv /\ GuardRight /\ [Next]_vars => GuardRight'
<1> SUFFICES ASSUME IInv, GuardRight, [Next]_vars PROVE GuardRight'
  OBVIOUS
<1> USE ProcAssumption DEF Procs, GuardRight
<1>1. TypeOK /\ ChildNotYet
  BY DEF IInv
<1>2. ASSUME NEW p \in Procs, Running(p), guard' = [guard EXCEPT ![p] = p],
             \A q \in Procs : q # p => stack'[q] = stack[q], UNCHANGED forked
      PROVE  GuardRight'
  BY <1>1, <1>2 DEF TypeOK, Running
<1>3. ASSUME UNCHANGED <<guard, forked>>,
             \A q \in Procs : stack'[q] # <<>> => stack[q] # <<>>
      PROVE  GuardRight'
  BY <1>3
<1>4. CASE \E p \in Procs : CallStep(p)
  <2>1. PICK p \in Procs : CallStep(p)
    BY <1>4
  <2>2. stack[p] # <<>> /\ UNCHANGED <<guard, forked>>
    BY <2>1 DEF CallStep, AcquireUnlink, AcquireMiss, AcquireAsk, AcquireDiscard, AcquireHit,
         ReleaseClose, ReleaseHostRoom, ReleaseEvict, ReleaseLink, InCall, poolVars
  <2>3. \A q \in Procs : q # p => stack'[q] = stack[q]
    BY <1>1, <2>1 DEF TypeOK, CallStep, AcquireUnlink, AcquireMiss, AcquireAsk, AcquireDiscard,
         AcquireHit, ReleaseClose, ReleaseHostRoom, ReleaseEvict, ReleaseLink, SetTop, Pop
  <2>4. QED BY <1>3, <2>2, <2>3
<1>5. CASE \E p \in Procs, k \in Keys : AcquireBegin(p, k)
  BY <1>1, <1>2, <1>5 DEF AcquireBegin, CheckFork, Push, TypeOK
<1>6. CASE \E p \in Procs, k \in Keys, c \in Conns : Dial(p, c, k)
  BY <1>3, <1>6 DEF Dial, poolVars
<1>7. CASE \E p \in Procs, c \in Conns, reuse \in BOOLEAN : ReleaseBegin(p, c, reuse)
  BY <1>1, <1>2, <1>7 DEF ReleaseBegin, CheckFork, Push, TypeOK
<1>8. CASE \E p \in Procs : Clear(p)
  BY <1>3, <1>8 DEF Clear
<1>9. CASE \E p \in Procs : FreeAndRenew(p)
  BY <1>1, <1>2, <1>9 DEF FreeAndRenew
<1>10. CASE Fork
  BY <1>1, <1>10 DEF Fork, TypeOK, ChildNotYet
<1>11. CASE (\E c \in Conns : PeerLeaves(c)) \/ Tick \/ UNCHANGED vars
  BY <1>3, <1>11 DEF PeerLeaves, Tick, vars, poolVars
<1>12. QED BY <1>4, <1>5, <1>6, <1>7, <1>8, <1>9, <1>10, <1>11 DEF Next
-----------------------------------------------------------------------------
(* Each step is a step of Ownership or a stutter.                          *)

\* A step that changes the list, the stack or the holders of one pool, in a
\* process that runs and whose guard does not trip.
LEMMA CallContext ==
  ASSUME IInv, GuardRight, NEW p \in Procs, stack[p] # <<>>
  PROVE  /\ TypeOK /\ ProcOK(p) /\ StackOK(stack[p]) /\ Top(p) = TopOf(stack[p])
         /\ Top(p).conn = None <=> Top(p).phase = "scan"
         /\ IdleSets[p] = ToSet(head[p]) /\ ProbedSets[p] = InHand(stack[p])
         /\ Owned[p] /\ held[p] \subseteq Conns
         /\ InHand(Front(stack[p])) = InHand(stack[p]) \ {Top(p).conn}
         /\ Top(p).conn # None => Top(p).conn \in InHand(stack[p]) \cap Conns
<1>1. /\ TypeOK /\ ProcOK(p) /\ StackOK(stack[p]) /\ Top(p) = TopOf(stack[p])
      /\ Top(p) \in Call /\ (Top(p).conn = None <=> Top(p).phase = "scan")
  BY RunningCall DEF ProcOK, PoolOK, IInv
<1>2. /\ InHand(Front(stack[p])) = InHand(stack[p]) \ {Top(p).conn}
      /\ Top(p).conn # None => Top(p).conn \in InHand(stack[p]) \cap Conns
  BY <1>1, FrontStack DEF Call
<1>3. IdleSets[p] = ToSet(head[p]) /\ ProbedSets[p] = InHand(stack[p])
  BY DEF IdleSets, Idle, ProbedSets, Probed
<1>4. Owned[p] /\ held[p] \subseteq Conns
  BY <1>1 DEF Owned, Tripped, GuardRight, TypeOK
<1>5. QED BY <1>1, <1>2, <1>3, <1>4

\* Unlinking a match is the abstract probe of an idle connection.
LEMMA UnlinkMaps ==
  ASSUME IInv, GuardRight, NEW p \in Procs, AcquireUnlink(p)
  PROVE  \E c \in Conns : Owner!Probe(p, c)
<1>1. stack[p] # <<>> /\ Top(p).phase = "scan"
  BY DEF AcquireUnlink, InCall
<1>2. /\ TypeOK /\ ProcOK(p) /\ StackOK(stack[p]) /\ Top(p) = TopOf(stack[p])
      /\ Top(p).conn = None /\ Top(p) \in Call /\ Owned[p]
      /\ IdleSets[p] = ToSet(head[p]) /\ ProbedSets[p] = InHand(stack[p])
  BY <1>1, CallContext, RunningCall
<1>3. PICK i \in DOMAIN head[p] :
        /\ head' = [head EXCEPT ![p] = RemoveAt(head[p], i)]
        /\ SetTop(p, [Top(p) EXCEPT !.conn = head[p][i], !.phase = "probe"])
  BY DEF AcquireUnlink, Matches
<1> DEFINE c == head[p][i]
           e == [Top(p) EXCEPT !.conn = head[p][i], !.phase = "probe"]
<1>4. /\ head[p] \in Seq(Conns) /\ Distinct(head[p]) /\ i \in 1..Len(head[p])
      /\ c \in Conns /\ c \in ToSet(head[p]) /\ c \notin InHand(stack[p])
  BY <1>2 DEF ProcOK, PoolOK, OneOwnerEach, Distinct, ToSet
<1>5. e \in Call /\ e.conn = c /\ e.phase = "probe" /\ c # None
  BY <1>2, <1>4, ConnsAssumption DEF Call
<1>6. stack' = [stack EXCEPT ![p] = Append(Front(stack[p]), e)]
  BY <1>3 DEF SetTop
<1> HIDE DEF e
<1>7. ToSet(RemoveAt(head[p], i)) = ToSet(head[p]) \ {c}
  BY <1>4, RemoveAtDistinct
<1>8. InHand(Append(Front(stack[p]), e)) = (InHand(stack[p]) \ {None}) \cup {c}
  BY <1>1, <1>2, <1>4, <1>5, SwapTop
<1>9. InHand(Append(Front(stack[p]), e)) = ProbedSets[p] \cup {c}
  <2>1. None \notin InHand(stack[p])
    BY DEF InHand
  <2>2. QED BY <1>2, <1>8, <2>1
<1>10. IdleSets' = [IdleSets EXCEPT ![p] = @ \ {c}]
  BY <1>2, <1>3, <1>7, IdleMoves
<1>11. ProbedSets' = [ProbedSets EXCEPT ![p] = @ \cup {c}]
  <2>1. ProbedSets' = [ProbedSets EXCEPT ![p] = InHand(Append(Front(stack[p]), e))]
    BY <1>2, <1>6, ProbedMoves
  <2>2. QED BY <1>9, <2>1
<1>12. UNCHANGED <<held, Owned, Dialled, forked>>
  BY Unmoved DEF AcquireUnlink, connVars
<1>13. QED BY <1>2, <1>4, <1>10, <1>11, <1>12 DEF Owner!Probe

\* A miss returns with nothing in hand: a stutter.
LEMMA MissMaps ==
  ASSUME IInv, GuardRight, NEW p \in Procs, AcquireMiss(p)
  PROVE  UNCHANGED Owner!vars
<1>1. stack[p] # <<>> /\ Top(p).phase = "scan"
  BY DEF AcquireMiss, InCall
<1>2. /\ TypeOK /\ Top(p).conn = None /\ ProbedSets[p] = InHand(stack[p])
      /\ InHand(Front(stack[p])) = InHand(stack[p]) \ {None}
  BY <1>1, CallContext
<1>3. InHand(Front(stack[p])) = InHand(stack[p])
  BY <1>2 DEF InHand
<1>4. ProbedSets' = [ProbedSets EXCEPT ![p] = ProbedSets[p]]
  BY <1>2, <1>3, ProbedMoves DEF AcquireMiss, Pop
<1>5. ProbedSets' = ProbedSets
  BY <1>4 DEF ProbedSets
<1>6. UNCHANGED <<IdleSets, held, Owned, Dialled, forked>>
  BY Unmoved DEF AcquireMiss, poolVars, connVars
<1>7. QED BY <1>5, <1>6 DEF Owner!vars

\* The answer to the probe moves no connection: a stutter.
LEMMA AskMaps ==
  ASSUME IInv, GuardRight, NEW p \in Procs, AcquireAsk(p)
  PROVE  UNCHANGED Owner!vars
<1> DEFINE e == [Top(p) EXCEPT !.phase = "asked"]
<1>1. stack[p] # <<>> /\ Top(p).phase # "scan"
  BY DEF AcquireAsk, InCall
<1>2. /\ TypeOK /\ StackOK(stack[p]) /\ Top(p) = TopOf(stack[p]) /\ Top(p) \in Call
      /\ Top(p).conn # None /\ Top(p).conn \in InHand(stack[p])
      /\ ProbedSets[p] = InHand(stack[p])
  BY <1>1, CallContext, RunningCall
<1>3. e \in Call /\ e.conn = Top(p).conn /\ e.phase = "asked"
  BY <1>2 DEF Call
<1>4. stack' = [stack EXCEPT ![p] = Append(Front(stack[p]), e)]
  BY DEF AcquireAsk, SetTop
<1> HIDE DEF e
<1>5. InHand(Append(Front(stack[p]), e))
        = (InHand(stack[p]) \ {Top(p).conn}) \cup ({e.conn} \ {None})
  BY <1>1, <1>2, <1>3, SwapTop
<1>6. InHand(Append(Front(stack[p]), e)) = ProbedSets[p]
  BY <1>2, <1>3, <1>5
<1>7. ProbedSets' = [ProbedSets EXCEPT ![p] = InHand(Append(Front(stack[p]), e))]
  BY <1>2, <1>4, ProbedMoves
<1>8. ProbedSets' = ProbedSets
  BY <1>6, <1>7 DEF ProbedSets
<1>9. UNCHANGED <<IdleSets, held, Owned, Dialled, forked>>
  BY Unmoved DEF AcquireAsk, poolVars, connVars
<1>10. QED BY <1>8, <1>9 DEF Owner!vars

\* A call that ends, or goes on, without the connection it had in hand.
LEMMA LetGo ==
  ASSUME IInv, GuardRight, NEW p \in Procs, stack[p] # <<>>, Top(p).phase # "scan",
         \/ Pop(p)
         \/ SetTop(p, [Top(p) EXCEPT !.conn = None, !.phase = "scan"])
  PROVE  /\ Top(p).conn \in Conns /\ Top(p).conn \in ProbedSets[p]
         /\ ProbedSets' = [ProbedSets EXCEPT ![p] = @ \ {Top(p).conn}]
<1> DEFINE c == Top(p).conn
           e == [Top(p) EXCEPT !.conn = None, !.phase = "scan"]
<1>1. /\ TypeOK /\ StackOK(stack[p]) /\ Top(p) = TopOf(stack[p]) /\ Top(p) \in Call
      /\ c # None /\ c \in InHand(stack[p]) \cap Conns
      /\ ProbedSets[p] = InHand(stack[p])
      /\ InHand(Front(stack[p])) = InHand(stack[p]) \ {c}
  BY CallContext, RunningCall
<1>2. CASE Pop(p)
  BY <1>1, <1>2, ProbedMoves DEF Pop
<1>3. CASE SetTop(p, [Top(p) EXCEPT !.conn = None, !.phase = "scan"])
  <2>1. e \in Call /\ e.conn = None /\ e.phase = "scan"
    BY <1>1 DEF Call
  <2>2. stack' = [stack EXCEPT ![p] = Append(Front(stack[p]), e)]
    BY <1>3 DEF SetTop
  <2> HIDE DEF e
  <2>3. None \notin InHand(stack[p])
    BY DEF InHand
  <2>4. InHand(Append(Front(stack[p]), e)) = (InHand(stack[p]) \ {c}) \cup ({e.conn} \ {None})
    BY <1>1, <2>1, <2>3, SwapTop
  <2>a. InHand(Append(Front(stack[p]), e)) = ProbedSets[p] \ {c}
    BY <1>1, <2>1, <2>4
  <2>5. QED BY <1>1, <2>2, <2>a, ProbedMoves
<1>4. QED BY <1>2, <1>3

\* A discarded entry, and a connection found unfit on its release, are closed.
LEMMA CloseMaps ==
  ASSUME IInv, GuardRight, NEW p \in Procs, AcquireDiscard(p) \/ ReleaseClose(p)
  PROVE  \E c \in Conns : Owner!Decide(p, c)
<1>1. /\ stack[p] # <<>> /\ Top(p).phase # "scan"
      /\ Pop(p) \/ SetTop(p, [Top(p) EXCEPT !.conn = None, !.phase = "scan"])
      /\ UNCHANGED <<head, guard, held, maker, forked>>
  BY DEF AcquireDiscard, ReleaseClose, InCall, poolVars, connVars
<1>2. /\ Top(p).conn \in Conns /\ Top(p).conn \in ProbedSets[p] /\ Owned[p]
      /\ ProbedSets' = [ProbedSets EXCEPT ![p] = @ \ {Top(p).conn}]
  BY <1>1, LetGo, CallContext
<1>3. UNCHANGED <<IdleSets, held, Owned, Dialled, forked>>
  BY <1>1, Unmoved
<1>4. QED BY <1>2, <1>3 DEF Owner!Decide

\* A hit hands the probed connection to a request.
LEMMA HitMaps ==
  ASSUME IInv, GuardRight, NEW p \in Procs, AcquireHit(p)
  PROVE  \E c \in Conns : Owner!Decide(p, c)
<1>1. /\ stack[p] # <<>> /\ Top(p).phase # "scan" /\ Pop(p)
      /\ held' = [held EXCEPT ![p] = @ \cup {Top(p).conn}]
      /\ UNCHANGED <<head, guard, maker, forked>>
  BY DEF AcquireHit, InCall, poolVars, connVars
<1>2. /\ Top(p).conn \in Conns /\ Top(p).conn \in ProbedSets[p] /\ Owned[p]
      /\ ProbedSets' = [ProbedSets EXCEPT ![p] = @ \ {Top(p).conn}]
  BY <1>1, LetGo, CallContext
<1>3. UNCHANGED <<IdleSets, Owned, Dialled, forked>>
  BY <1>1, Unmoved
<1>4. QED BY <1>1, <1>2, <1>3 DEF Owner!Decide

\* A released connection is linked only where there is room.
LEMMA LinkMaps ==
  ASSUME IInv, GuardRight, NEW p \in Procs, ReleaseLink(p)
  PROVE  \E c \in Conns : Owner!Decide(p, c)
<1> DEFINE c == Top(p).conn
<1>1. /\ stack[p] # <<>> /\ Top(p).phase # "scan" /\ Pop(p) /\ idle[p] < MaxIdle
      /\ head' = [head EXCEPT ![p] = <<c>> \o head[p]]
      /\ UNCHANGED <<held, guard, maker, forked>>
  BY DEF ReleaseLink, InCall, connVars
<1>2. /\ c \in Conns /\ c \in ProbedSets[p] /\ Owned[p]
      /\ ProbedSets' = [ProbedSets EXCEPT ![p] = @ \ {c}]
  BY <1>1, LetGo, CallContext
<1>3. /\ TypeOK /\ IdleSets[p] = ToSet(head[p]) /\ head[p] \in Seq(Conns)
      /\ idle[p] = Len(head[p])
  BY <1>1, CallContext DEF ProcOK, PoolOK
<1> HIDE DEF c
<1>4. ToSet(<<c>> \o head[p]) = ToSet(head[p]) \cup {c}
  BY <1>2, <1>3, PrependProperties
<1>5. IdleSets' = [IdleSets EXCEPT ![p] = @ \cup {c}]
  <2>1. IdleSets' = [IdleSets EXCEPT ![p] = ToSet(<<c>> \o head[p])]
    BY <1>1, <1>3, IdleMoves
  <2>2. QED BY <1>3, <1>4, <2>1
<1>6. Cardinality(IdleSets[p]) < MaxIdle
  <2>1. Cardinality(ToSet(head[p])) <= Len(head[p])
    BY <1>3, CardinalityOfList
  <2>2. IsFiniteSet(ToSet(head[p]))
    BY <1>3, CardinalityOfList
  <2>3. Cardinality(ToSet(head[p])) \in Nat
    BY <2>2, FS_CardinalityType
  <2>4. Len(head[p]) \in Nat /\ Len(head[p]) < MaxIdle /\ MaxIdle \in Nat
    BY <1>1, <1>3, LimitAssumption
  <2> DEFINE n == Cardinality(ToSet(head[p]))
             l == Len(head[p])
  <2>5. n \in Nat /\ l \in Nat /\ n <= l /\ l < MaxIdle /\ MaxIdle \in Nat
    BY <2>1, <2>3, <2>4
  <2> HIDE DEF n, l
  <2>6. n < MaxIdle
    BY <2>5
  <2>7. IdleSets[p] = ToSet(head[p])
    BY <1>3
  <2>8. Cardinality(IdleSets[p]) = n
    BY <2>7 DEF n
  <2>9. QED BY <2>6, <2>8
<1>7. UNCHANGED <<held, Owned, Dialled, forked>>
  BY <1>1, Unmoved
<1>8. /\ Cardinality(IdleSets[p]) < MaxIdle
      /\ IdleSets' = [IdleSets EXCEPT ![p] = @ \cup {c}]
      /\ UNCHANGED held
  BY <1>5, <1>6, <1>7
<1>9. Owner!Decide(p, c)
  BY <1>2, <1>7, <1>8, Zenon DEF Owner!Decide, Owner!Cardinality, Cardinality
<1>10. QED BY <1>2, <1>9

\* Making room takes one idle connection, or none.
LEMMA EvictMaps ==
  ASSUME IInv, GuardRight, NEW p \in Procs, stack[p] # <<>>,
         NEW I, I \subseteq DOMAIN head[p], EvictOldest(p, I),
         UNCHANGED <<ProbedSets, held, guard, maker, forked>>
  PROVE  UNCHANGED Owner!vars \/ \E c \in Conns : Owner!Evict(p, c)
<1>1. /\ TypeOK /\ ProcOK(p) /\ Owned[p] /\ IdleSets[p] = ToSet(head[p])
      /\ UNCHANGED <<Owned, Dialled>>
  BY CallContext, Unmoved
<1>2. CASE I = {}
  BY <1>1, <1>2, Unmoved DEF EvictOldest, Owner!vars
<1>3. CASE I # {}
  <2>1. PICK i \in I : head' = [head EXCEPT ![p] = RemoveAt(head[p], i)]
    BY <1>3 DEF EvictOldest
  <2> DEFINE c == head[p][i]
  <2>2. /\ head[p] \in Seq(Conns) /\ Distinct(head[p]) /\ i \in 1..Len(head[p])
        /\ c \in Conns /\ c \in ToSet(head[p])
    BY <1>1 DEF ProcOK, PoolOK, OneOwnerEach, Distinct, ToSet
  <2>3. ToSet(RemoveAt(head[p], i)) = ToSet(head[p]) \ {c}
    BY <2>2, RemoveAtDistinct
  <2>4. IdleSets' = [IdleSets EXCEPT ![p] = @ \ {c}]
    BY <1>1, <2>1, <2>3, IdleMoves
  <2>5. QED BY <1>1, <2>2, <2>4 DEF Owner!Evict
<1>4. QED BY <1>2, <1>3

LEMMA RoomMaps ==
  ASSUME IInv, GuardRight, NEW p \in Procs, ReleaseEvict(p) \/ ReleaseHostRoom(p)
  PROVE  UNCHANGED Owner!vars \/ \E c \in Conns : Owner!Evict(p, c)
<1>1. /\ stack[p] # <<>> /\ Top(p).phase # "scan"
      /\ UNCHANGED <<held, guard, maker, forked>>
  BY DEF ReleaseEvict, ReleaseHostRoom, InCall, connVars
<1>2. UNCHANGED ProbedSets
  <2>1. CASE ReleaseEvict(p)
    BY <2>1, Unmoved DEF ReleaseEvict
  <2>2. CASE ReleaseHostRoom(p)
    <3> DEFINE e == [Top(p) EXCEPT !.phase = "room"]
    <3>1. /\ TypeOK /\ StackOK(stack[p]) /\ Top(p) = TopOf(stack[p]) /\ Top(p) \in Call
          /\ Top(p).conn # None /\ Top(p).conn \in InHand(stack[p])
          /\ ProbedSets[p] = InHand(stack[p])
      BY <1>1, CallContext, RunningCall
    <3>2. e \in Call /\ e.conn = Top(p).conn /\ e.phase = "room"
      BY <3>1 DEF Call
    <3>3. stack' = [stack EXCEPT ![p] = Append(Front(stack[p]), e)]
      BY <2>2 DEF ReleaseHostRoom, SetTop
    <3> HIDE DEF e
    <3>4. InHand(Append(Front(stack[p]), e))
            = (InHand(stack[p]) \ {Top(p).conn}) \cup ({e.conn} \ {None})
      BY <1>1, <3>1, <3>2, SwapTop
    <3>5. InHand(Append(Front(stack[p]), e)) = ProbedSets[p]
      BY <3>1, <3>2, <3>4
    <3>6. ProbedSets' = [ProbedSets EXCEPT ![p] = InHand(Append(Front(stack[p]), e))]
      BY <3>1, <3>3, ProbedMoves
    <3>7. QED BY <3>5, <3>6 DEF ProbedSets
  <2>3. QED BY <2>1, <2>2
<1>3. CASE UNCHANGED head
  BY <1>1, <1>2, <1>3, Unmoved DEF Owner!vars
<1>4. CASE EvictOldest(p, DOMAIN head[p])
  BY <1>1, <1>2, <1>4, EvictMaps
<1>5. CASE EvictOldest(p, SameHost(p))
  BY <1>1, <1>2, <1>5, EvictMaps DEF SameHost
<1>6. QED BY <1>3, <1>4, <1>5 DEF ReleaseEvict, ReleaseHostRoom

\* The first call after a fork forgets what the guard says is not its own.
LEMMA CheckForkMaps ==
  ASSUME IInv, NEW p \in Procs, CheckFork(p)
  PROVE  /\ Owned' = [Owned EXCEPT ![p] = TRUE]
         /\ IdleSets' = [IdleSets EXCEPT ![p] = IF Owned[p] THEN IdleSets[p] ELSE {}]
<1>1. TypeOK
  BY DEF IInv
<1>2. ToSet(HeadChecked(p)) = IF Owned[p] THEN IdleSets[p] ELSE {}
  <2>1. ToSet(<<>>) = {}
    BY DEF ToSet
  <2>2. QED BY <2>1 DEF HeadChecked, Owned, IdleSets, Idle
<1>3. IdleSets' = [IdleSets EXCEPT ![p] = ToSet(HeadChecked(p))]
  BY <1>1, IdleMoves DEF CheckFork
<1>4. QED BY <1>1, <1>2, <1>3, OwnedMoves DEF CheckFork

LEMMA AcquireBeginMaps ==
  ASSUME IInv, NEW p \in Procs, NEW k \in Keys, AcquireBegin(p, k)
  PROVE  Owner!Enter(p)
<1> DEFINE e == [op |-> "acquire", key |-> k, conn |-> None, at |-> clock,
                left |-> GoneOf(k), phase |-> "scan"]
<1>1. TypeOK /\ StackOK(stack[p]) /\ e \in Call /\ e.conn = None /\ e.phase = "scan"
  BY IInvOfEach DEF ProcOK, PoolOK, TypeOK, Call, GoneOf, Gone
<1>2. stack' = [stack EXCEPT ![p] = Append(stack[p], e)]
  BY DEF AcquireBegin, Push
<1> HIDE DEF e
<1>3. None \notin InHand(stack[p])
  BY DEF InHand
<1>4. InHand(Append(stack[p], e)) = InHand(stack[p]) \cup ({e.conn} \ {None})
  BY <1>1, <1>3, PushStack
<1>5. InHand(Append(stack[p], e)) = ProbedSets[p]
  BY <1>1, <1>4 DEF ProbedSets, Probed
<1>6. ProbedSets' = [ProbedSets EXCEPT ![p] = InHand(Append(stack[p], e))]
  BY <1>1, <1>2, ProbedMoves
<1>7. ProbedSets' = ProbedSets
  BY <1>5, <1>6 DEF ProbedSets
<1>8. /\ Running(p) /\ CheckFork(p) /\ UNCHANGED <<held, forked>>
      /\ Dialled' = Dialled
  BY Unmoved DEF AcquireBegin, connVars
<1>9. QED BY <1>7, <1>8, CheckForkMaps
          DEF Running, Owner!Enter, Owner!Runs, Owner!TakeOver, Owner!OwnIdle

LEMMA ReleaseBeginMaps ==
  ASSUME IInv, NEW p \in Procs, NEW c \in Conns, NEW reuse \in BOOLEAN,
         ReleaseBegin(p, c, reuse)
  PROVE  Owner!Return(p, c)
<1> DEFINE e == [op |-> "release", key |-> key[c], conn |-> c, at |-> clock,
                left |-> {}, phase |-> "probe"]
<1>1. /\ Running(p) /\ CheckFork(p) /\ c \in held[p] /\ UNCHANGED forked
      /\ held' = [held EXCEPT ![p] = @ \ {c}] /\ Dialled' = Dialled
  BY Unmoved DEF ReleaseBegin, connVars
<1>2. /\ TypeOK /\ StackOK(stack[p]) /\ c \in open[p] /\ c \notin InHand(stack[p])
      /\ ProbedSets[p] = InHand(stack[p])
  BY <1>1, IInvOfEach DEF ProcOK, PoolOK, OneOwnerEach, ProbedSets, Probed
<1>3. \/ ProbedSets' = [ProbedSets EXCEPT ![p] = @ \cup {c}]
      \/ UNCHANGED ProbedSets
  <2>1. CASE reuse
    <3>1. e \in Call /\ e.conn = c /\ e.phase = "probe" /\ c # None
      BY <1>2, ConnsAssumption DEF Call, TypeOK, IInv, OpenIsDialled
    <3>2. stack' = [stack EXCEPT ![p] = Append(stack[p], e)]
      BY <2>1 DEF ReleaseBegin, Push
    <3> HIDE DEF e
    <3>3. InHand(Append(stack[p], e)) = InHand(stack[p]) \cup ({e.conn} \ {None})
      BY <1>2, <3>1, PushStack
    <3>4. InHand(Append(stack[p], e)) = ProbedSets[p] \cup {c}
      BY <1>2, <3>1, <3>3
    <3>5. ProbedSets' = [ProbedSets EXCEPT ![p] = InHand(Append(stack[p], e))]
      BY <1>2, <3>2, ProbedMoves
    <3>6. QED BY <3>4, <3>5
  <2>2. CASE ~reuse
    BY <2>2, Unmoved DEF ReleaseBegin
  <2>3. QED BY <2>1, <2>2
<1>4. QED BY <1>1, <1>3, CheckForkMaps
          DEF Running, Owner!Return, Owner!Runs, Owner!TakeOver, Owner!OwnIdle

LEMMA DialMaps ==
  ASSUME IInv, NEW p \in Procs, NEW c \in Conns, NEW k \in Keys, Dial(p, c, k)
  PROVE  Owner!Dial(p, c)
<1>1. /\ Running(p) /\ maker[c] = None /\ maker' = [maker EXCEPT ![c] = p]
      /\ held' = [held EXCEPT ![p] = @ \cup {c}]
      /\ UNCHANGED <<IdleSets, ProbedSets, Owned, forked>>
  BY Unmoved DEF Dial, poolVars
<1>2. c \notin Dialled /\ Dialled' = Dialled \cup {c}
  BY <1>1, ProcAssumption DEF Dialled, Procs, IInv, TypeOK
<1>3. QED BY <1>1, <1>2 DEF Running, Owner!Dial, Owner!Runs

LEMMA EmptyMaps ==
  ASSUME IInv, NEW p \in Procs, Clear(p) \/ FreeAndRenew(p)
  PROVE  Owner!Empty(p)
<1>1. /\ TypeOK /\ Running(p) /\ head' = [head EXCEPT ![p] = <<>>]
      /\ UNCHANGED <<held, forked>> /\ UNCHANGED ProbedSets /\ UNCHANGED Dialled
  BY Unmoved DEF Clear, FreeAndRenew, IInv, connVars
<1>2. ToSet(<<>>) = {}
  BY DEF ToSet
<1>3. IdleSets' = [IdleSets EXCEPT ![p] = {}]
  <2>1. IdleSets' = [IdleSets EXCEPT ![p] = ToSet(<<>>)]
    BY <1>1, IdleMoves
  <2>2. QED BY <1>2, <2>1
<1>4. Owned' = [Owned EXCEPT ![p] = TRUE] \/ UNCHANGED Owned
  BY <1>1, OwnedMoves, Unmoved DEF Clear, FreeAndRenew
<1>5. QED BY <1>1, <1>3, <1>4 DEF Running, Owner!Empty, Owner!Runs, Owner!TakeOver

LEMMA ForkMaps ==
  ASSUME IInv, GuardRight, Fork
  PROVE  Owner!Fork
<1> USE ProcAssumption DEF Procs
<1>1. TypeOK /\ ChildNotYet
  BY DEF IInv
<1>2. /\ ~forked /\ forked' = TRUE /\ stack[Parent] = <<>>
      /\ head' = [head EXCEPT ![Child] = head[Parent]]
      /\ held' = [held EXCEPT ![Child] = held[Parent]]
      /\ guard' = [guard EXCEPT ![Child] = guard[Parent]]
      /\ UNCHANGED ProbedSets /\ UNCHANGED Dialled
  BY Unmoved DEF Fork, connVars
<1>3. guard' = guard
  BY <1>1, <1>2 DEF GuardRight, TypeOK
<1>4. Owned' = Owned /\ Owned[Parent] /\ ~Owned[Child]
  BY <1>2, <1>3, Unmoved DEF Owned, Tripped, GuardRight
<1>5. ProbedSets[Parent] = {}
  BY <1>2 DEF ProbedSets, Probed, InHand
<1>6. IdleSets' = [IdleSets EXCEPT ![Child] = IdleSets[Parent]]
  <2>1. IdleSets' = [IdleSets EXCEPT ![Child] = ToSet(head[Parent])]
    BY <1>1, <1>2, IdleMoves
  <2>2. QED BY <2>1 DEF IdleSets, Idle
<1>7. QED BY <1>2, <1>4, <1>5, <1>6 DEF Owner!Fork
-----------------------------------------------------------------------------
LEMMA InitMaps == Init => Owner!Init
<1> SUFFICES ASSUME Init PROVE Owner!Init
  OBVIOUS
<1>1. ToSet(<<>>) = {} /\ InHand(<<>>) = {}
  BY DEF ToSet, InHand
<1>2. /\ IdleSets = [p \in Procs |-> {}] /\ ProbedSets = [p \in Procs |-> {}]
      /\ held = [p \in Procs |-> {}] /\ Dialled = {} /\ forked = FALSE
  BY <1>1 DEF Init, IdleSets, Idle, ProbedSets, Probed, Dialled
<1>3. Owned = [p \in Procs |-> p = Parent]
  BY DEF Init, Owned, Tripped
<1>4. QED BY <1>2, <1>3 DEF Owner!Init, Owner!Procs, Procs

LEMMA NextMaps == IInv /\ GuardRight /\ [Next]_vars => [Owner!Next]_(Owner!vars)
<1> SUFFICES ASSUME IInv, GuardRight, [Next]_vars PROVE [Owner!Next]_(Owner!vars)
  OBVIOUS
<1> USE DEF Owner!Procs, Procs
<1>1. CASE \E p \in Procs : CallStep(p)
  <2>1. PICK p \in Procs : CallStep(p)
    BY <1>1
  <2>2. \/ UNCHANGED Owner!vars
        \/ \E c \in Conns : Owner!Probe(p, c) \/ Owner!Decide(p, c) \/ Owner!Evict(p, c)
    BY <2>1, UnlinkMaps, MissMaps, AskMaps, CloseMaps, HitMaps, LinkMaps, RoomMaps DEF CallStep
  <2>3. QED BY <2>2 DEF Owner!Next
<1>2. CASE \E p \in Procs, k \in Keys : AcquireBegin(p, k)
  BY <1>2, AcquireBeginMaps DEF Owner!Next
<1>3. CASE \E p \in Procs, k \in Keys, c \in Conns : Dial(p, c, k)
  BY <1>3, DialMaps DEF Owner!Next
<1>4. CASE \E p \in Procs, c \in Conns, reuse \in BOOLEAN : ReleaseBegin(p, c, reuse)
  BY <1>4, ReleaseBeginMaps DEF Owner!Next
<1>5. CASE \E p \in Procs : Clear(p) \/ FreeAndRenew(p)
  BY <1>5, EmptyMaps DEF Owner!Next
<1>6. CASE Fork
  BY <1>6, ForkMaps DEF Owner!Next
<1>7. CASE (\E c \in Conns : PeerLeaves(c)) \/ Tick \/ UNCHANGED vars
  <2>1. UNCHANGED <<head, stack, guard, held, maker, forked>>
    BY <1>7 DEF PeerLeaves, Tick, vars, poolVars, connVars
  <2>2. QED BY <2>1, Unmoved DEF Owner!vars
<1>8. QED BY <1>1, <1>2, <1>3, <1>4, <1>5, <1>6, <1>7 DEF Next

\* A step other than the fork keeps Forgotten, because Ownership's steps do.
LEMMA AbstractForgets ==
  ASSUME IInv, Forgotten, UNCHANGED <<inherited, forked>>, [Owner!Next]_(Owner!vars)
  PROVE  Forgotten'
<1> USE ProcAssumption DEF Owner!Procs, Procs
<1>1. /\ Child \in Procs /\ IdleSets[Child] = Idle(Child) /\ ProbedSets[Child] = Probed(Child)
      /\ (Owned[Child] <=> guard[Child] = Child)
  BY DEF IdleSets, ProbedSets, Owned, Tripped
<1>2. /\ IdleSets'[Child] = Idle(Child)' /\ ProbedSets'[Child] = Probed(Child)'
      /\ (Owned'[Child] <=> guard'[Child] = Child)
  BY DEF IdleSets, ProbedSets, Owned, Tripped
<1>3. /\ inherited \cap (held[Child] \cup ProbedSets[Child]) = {}
      /\ Owned[Child] => inherited \cap IdleSets[Child] = {}
      /\ forked \/ inherited = {}
      /\ inherited \subseteq Dialled
  BY <1>1 DEF Forgotten, InheritedIdleDropped
<1>4. SUFFICES /\ inherited \cap (held'[Child] \cup ProbedSets'[Child]) = {}
               /\ Owned'[Child] => inherited \cap IdleSets'[Child] = {}
               /\ inherited \subseteq Dialled'
  BY <1>2, <1>3 DEF Forgotten, InheritedIdleDropped
<1>5. TypeOK /\ DOMAIN IdleSets = Procs /\ DOMAIN ProbedSets = Procs /\ DOMAIN Owned = Procs
      /\ DOMAIN held = Procs
  BY DEF IInv, TypeOK, IdleSets, ProbedSets, Owned
<1>6. CASE UNCHANGED Owner!vars
  BY <1>3, <1>6 DEF Owner!vars
<1>7. CASE Owner!Fork
  BY <1>7 DEF Owner!Fork
<1>8. ASSUME NEW p \in Procs, Owner!Enter(p) \/ Owner!Empty(p)
      PROVE  /\ UNCHANGED <<ProbedSets, held, Dialled>>
             /\ Owned'[Child] => inherited \cap IdleSets'[Child] = {}
  BY <1>3, <1>5, <1>8 DEF Owner!Enter, Owner!Empty, Owner!TakeOver, Owner!OwnIdle
<1>9. ASSUME NEW p \in Procs, NEW c \in Conns, Owner!Dial(p, c)
      PROVE  /\ inherited \cap held'[Child] = {} /\ inherited \subseteq Dialled'
             /\ UNCHANGED <<IdleSets, ProbedSets, Owned>>
  BY <1>3, <1>5, <1>9 DEF Owner!Dial
<1>10. ASSUME NEW p \in Procs, NEW c \in Conns, Owner!Return(p, c)
       PROVE  /\ inherited \cap (held'[Child] \cup ProbedSets'[Child]) = {}
              /\ Owned'[Child] => inherited \cap IdleSets'[Child] = {}
              /\ Dialled' = Dialled
  BY <1>3, <1>5, <1>10 DEF Owner!Return, Owner!TakeOver, Owner!OwnIdle
<1>11. ASSUME NEW p \in Procs, NEW c \in Conns,
              Owner!Probe(p, c) \/ Owner!Decide(p, c) \/ Owner!Evict(p, c)
       PROVE  /\ inherited \cap (held'[Child] \cup ProbedSets'[Child]) = {}
              /\ Owned'[Child] => inherited \cap IdleSets'[Child] = {}
              /\ Dialled' = Dialled
  BY <1>3, <1>5, <1>11 DEF Owner!Probe, Owner!Decide, Owner!Evict
<1>12. QED BY <1>3, <1>6, <1>7, <1>8, <1>9, <1>10, <1>11 DEF Owner!Next

LEMMA ForgottenNext == IInv /\ GuardRight /\ Forgotten /\ [Next]_vars => Forgotten'
<1> SUFFICES ASSUME IInv, GuardRight, Forgotten, [Next]_vars PROVE Forgotten'
  OBVIOUS
<1>1. CASE Fork
  <2> USE ProcAssumption DEF Procs
  <2>1. TypeOK /\ OwnedOnce /\ ChildNotYet /\ OpenIsDialled
    BY DEF IInv
  <2>2. /\ ~forked /\ forked' = TRUE /\ inherited' = ToSet(head[Parent])
        /\ head' = [head EXCEPT ![Child] = head[Parent]]
        /\ held' = [held EXCEPT ![Child] = held[Parent]]
        /\ guard' = [guard EXCEPT ![Child] = guard[Parent]]
        /\ UNCHANGED ProbedSets /\ UNCHANGED Dialled
    BY <1>1, Unmoved DEF Fork, connVars
  <2>3. guard'[Child] = Parent
    BY <2>1, <2>2 DEF TypeOK, GuardRight
  <2>4. Probed(Child)' = {}
    <3>1. stack[Child] = <<>> /\ InHand(<<>>) = {}
      BY <2>1, <2>2 DEF ChildNotYet, InHand
    <3>2. ProbedSets'[Child] = Probed(Child)' /\ ProbedSets[Child] = Probed(Child)
      BY DEF ProbedSets
    <3>3. QED BY <2>2, <3>1, <3>2 DEF Probed
  <2>8. /\ Parent \in Procs /\ Child \in Procs /\ Parent # Child
        /\ ToSet(head[Parent]) \cap held[Parent] = {}
        /\ ToSet(head[Parent]) \subseteq open[Parent]
    BY <2>1 DEF OwnedOnce, OneOwnerEach
  <2>5. inherited' \cap held'[Child] = {}
    <3>1. held'[Child] = held[Parent]
      BY <2>1, <2>2, <2>8 DEF TypeOK
    <3>2. QED BY <2>2, <2>8, <3>1
  <2>6. inherited' \subseteq Dialled'
    <3>1. \A c \in open[Parent] : maker[c] # None /\ c \in Conns
      BY <2>1, <2>8 DEF OpenIsDialled, TypeOK
    <3>2. inherited' \subseteq Dialled
      BY <2>2, <2>8, <3>1 DEF Dialled
    <3>3. QED BY <2>2, <3>2
  <2>7. QED BY <2>2, <2>3, <2>4, <2>5, <2>6 DEF Forgotten, InheritedIdleDropped
<1>2. CASE ~Fork
  <2>1. UNCHANGED <<inherited, forked>>
    BY <1>2 DEF Next, CallStep, AcquireUnlink, AcquireMiss, AcquireAsk, AcquireDiscard, AcquireHit,
       ReleaseClose, ReleaseHostRoom, ReleaseEvict, ReleaseLink, AcquireBegin, Dial,
       ReleaseBegin, Clear, FreeAndRenew, PeerLeaves, Tick, vars
  <2>2. QED BY <2>1, NextMaps, AbstractForgets
<1>3. QED BY <1>1, <1>2

\* The fork guard of a pool trips exactly where it should: zuh_pool.c never
\* touches the list of a pool while its process is not the owner.
THEOREM GuardHolds == Spec => []GuardRight
<1>1. Init /\ []IInv /\ [][Next]_vars => []GuardRight
  BY GuardInit, GuardNext, PTL
<1>2. QED BY <1>1, Inductive, PTL DEF Spec

\* The linked list, nested calls, counters and fork guard of zuh_pool.c
\* implement the four places of Ownership.
THEOREM Implements == Spec => KeepsThePromise
<1>1. Init /\ []IInv /\ []GuardRight /\ [][Next]_vars => Owner!Init /\ [][Owner!Next]_(Owner!vars)
  BY InitMaps, NextMaps, PTL
<1>2. QED BY <1>1, Inductive, GuardHolds, PTL DEF Spec, KeepsThePromise, Owner!Spec

\* Whatever the child does first, a connection idle in its parent's pool at the
\* fork is not handed to a request of the child.
THEOREM ChildForgets == Spec => []InheritedIdleDropped
<1>1. Init => Forgotten
  BY ProcAssumption DEF Init, Forgotten, InheritedIdleDropped
<1>2. Init /\ []IInv /\ []GuardRight /\ [][Next]_vars => []Forgotten
  BY <1>1, ForgottenNext, PTL
<1>3. Forgotten => InheritedIdleDropped
  BY DEF Forgotten
<1>4. QED BY <1>2, <1>3, Inductive, GuardHolds, PTL DEF Spec
=============================================================================
