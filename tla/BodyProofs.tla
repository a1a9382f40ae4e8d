----------------------------- MODULE BodyProofs -----------------------------
(***************************************************************************)
(* Proofs about Body: for a body of any length, any cap and read size, any *)
(* cut into reads and any sizes the caller asks for.                       *)
(*                                                                         *)
(* The count of bytes on the wire is what the proofs go by: a byte is its  *)
(* own count, so what a run adds to the count is what it delivers.  What   *)
(* an induction over the wire would show follows from the least place      *)
(* where it fails.                                                         *)
(***************************************************************************)
EXTENDS Body, SequenceTheorems, FiniteSetTheorems, WellFoundedInduction, TLAPS

\* A set of naturals that is not empty has a least element.
LEMMA Least ==
  ASSUME NEW S \in SUBSET Nat, S # {}
  PROVE  \E x \in S : \A y \in S : x <= y
<1>1. IsWellFoundedOn({ss \in Nat \X Nat : ss[1] < ss[2]}, Nat)
  BY NatLessThanWellFounded DEF OpToRel
<1>2. PICK x \in S : \A y \in S : <<y, x>> \notin {ss \in Nat \X Nat : ss[1] < ss[2]}
  BY <1>1, WFMin
<1>3. ASSUME NEW y \in S PROVE x <= y
  <2>1. x \in Nat /\ y \in Nat
    OBVIOUS
  <2>2. ~(y < x)
    BY <1>2, <2>1
  <2>3. QED BY <2>1, <2>2
<1>4. QED BY <1>3

\* Min() is that element.
LEMMA MinFacts ==
  ASSUME NEW S \in SUBSET Nat, S # {}
  PROVE  Min(S) \in S /\ \A y \in S : Min(S) <= y
BY Least DEF Min

\* First(): where it is, and that nothing before it is one of S.
LEMMA FirstFacts ==
  ASSUME NEW run \in Seq(Int), NEW S
  PROVE  /\ First(run, S) \in 0..Len(run)
         /\ First(run, S) = 0 => \A i \in 1..Len(run) : run[i] \notin S
         /\ First(run, S) > 0 => /\ run[First(run, S)] \in S
                                 /\ \A i \in 1..First(run, S) - 1 : run[i] \notin S
<1> DEFINE found == {i \in DOMAIN run : run[i] \in S}
<1>1. DOMAIN run = 1..Len(run) /\ Len(run) \in Nat
  OBVIOUS
<1>2. CASE found = {}
  <2>1. First(run, S) = 0
    BY <1>2 DEF First
  <2>2. QED BY <1>1, <1>2, <2>1
<1>3. CASE found # {}
  <2>1. First(run, S) = Min(found)
    BY <1>3 DEF First
  <2>2. Min(found) \in found /\ \A y \in found : Min(found) <= y
    <3>1. found \in SUBSET Nat
      BY <1>1
    <3> HIDE DEF found
    <3>2. QED BY <3>1, <1>3, MinFacts
  <2> DEFINE f == Min(found)
  <2>3. f \in 1..Len(run) /\ run[f] \in S
    BY <1>1, <2>2
  <2>4. ASSUME NEW i \in 1..f - 1 PROVE run[i] \notin S
    <3>1. i \in DOMAIN run /\ ~(f <= i)
      BY <1>1, <2>3
    <3>2. QED BY <3>1, <2>2
  <2> HIDE DEF f
  <2>5. First(run, S) = f
    BY <2>1 DEF f
  <2>6. QED BY <2>3, <2>4, <2>5, <1>1
<1>4. QED BY <1>2, <1>3
-----------------------------------------------------------------------------
(* Counting                                                                *)

\* The count is a natural number, of a finite set.
LEMMA CarriedNat ==
  ASSUME NEW w, NEW p \in Nat
  PROVE  /\ Carried(w, p) \in Nat
         /\ IsFiniteSet({q \in 1..p : w[q] > 0})
<1>1. IsFiniteSet(1..p)
  BY FS_Interval
<1>2. IsFiniteSet({q \in 1..p : w[q] > 0})
  BY <1>1, FS_Subset
<1>3. QED BY <1>2, FS_CardinalityType DEF Carried

\* Before the first unit nothing is counted.
LEMMA CarriedNone ==
  ASSUME NEW w
  PROVE  Carried(w, 0) = 0
<1>1. {q \in 1..0 : w[q] > 0} = {}
  OBVIOUS
<1>2. QED BY <1>1, FS_EmptySet DEF Carried

\* One unit more counts for one, if it is a byte, or for nothing.
LEMMA CarriedStep ==
  ASSUME NEW w, NEW p \in Nat
  PROVE  /\ w[p + 1] > 0 => Carried(w, p + 1) = Carried(w, p) + 1
         /\ ~(w[p + 1] > 0) => Carried(w, p + 1) = Carried(w, p)
<1> DEFINE S(x) == {q \in 1..x : w[q] > 0}
<1>1. IsFiniteSet(S(p))
  BY CarriedNat
<1>2. CASE w[p + 1] > 0
  <2>1. S(p + 1) = S(p) \cup {p + 1} /\ p + 1 \notin S(p)
    BY <1>2
  <2>2. Cardinality(S(p + 1)) = Cardinality(S(p)) + 1
    BY <1>1, <2>1, FS_AddElement
  <2>3. QED BY <1>2, <2>2 DEF Carried
<1>3. CASE ~(w[p + 1] > 0)
  <2>1. S(p + 1) = S(p)
    BY <1>3
  <2>2. QED BY <1>3, <2>1 DEF Carried
<1>4. QED BY <1>2, <1>3

\* The count is of where the bytes are.
LEMMA CarriedSame ==
  ASSUME NEW v, NEW w, NEW p \in Nat, \A q \in 1..p : v[q] > 0 <=> w[q] > 0
  PROVE  Carried(v, p) = Carried(w, p)
<1>1. {q \in 1..p : v[q] > 0} = {q \in 1..p : w[q] > 0}
  OBVIOUS
<1>2. QED BY <1>1 DEF Carried

\* Units that are not bytes leave it as it is.
LEMMA CarriedFlat ==
  ASSUME NEW w, NEW a \in Nat, NEW c \in Nat, a <= c, \A q \in a + 1..c : ~(w[q] > 0)
  PROVE  Carried(w, c) = Carried(w, a)
<1>1. ASSUME NEW q \in 1..c, w[q] > 0 PROVE q \in 1..a
  <2>1. q \notin a + 1..c
    BY <1>1
  <2>2. QED BY <2>1
<1>2. {q \in 1..c : w[q] > 0} = {q \in 1..a : w[q] > 0}
  BY <1>1
<1>3. QED BY <1>2 DEF Carried

\* It never goes back.
LEMMA CarriedGrows ==
  ASSUME NEW w, NEW a \in Nat, NEW c \in Nat, a <= c
  PROVE  Carried(w, a) <= Carried(w, c)
<1>1. IsFiniteSet({q \in 1..c : w[q] > 0})
  BY CarriedNat
<1>2. {q \in 1..a : w[q] > 0} \in SUBSET {q \in 1..c : w[q] > 0}
  OBVIOUS
<1>3. QED BY <1>1, <1>2, FS_Subset DEF Carried

\* The n units of v are those of w after the first a.
Behind(v, w, a, n) == \A i \in 1..n : v[i] = w[a + i]

\* What is counted in a part of w is what the count of w grows by.
LEMMA CarriedPart ==
  ASSUME NEW w, NEW a \in Nat, NEW n \in Nat, NEW v, Behind(v, w, a, n),
         NEW j \in 0..n
  PROVE  Carried(w, a + j) = Carried(w, a) + Carried(v, j)
<1> DEFINE P(x) == Carried(w, a + x) = Carried(w, a) + Carried(v, x)
           T == {x \in 0..n : ~P(x)}
<1> SUFFICES ASSUME T # {} PROVE FALSE
  OBVIOUS
<1>1. PICK x \in T : \A y \in T : x <= y
  <2>1. T \in SUBSET Nat
    OBVIOUS
  <2>2. QED BY <2>1, Least
<1>2. P(0)
  <2>1. Carried(v, 0) = 0 /\ Carried(w, a) \in Nat /\ a + 0 = a
    <3>1. Carried(w, a) \in Nat
      BY CarriedNat
    <3>2. QED BY <3>1, CarriedNone
  <2>2. QED BY <2>1
<1>3. x \in 1..n
  BY <1>1, <1>2
<1>4. PICK y \in 0..n - 1 : x = y + 1
  BY <1>3
<1>5. P(y)
  BY <1>1, <1>4
<1>6. v[y + 1] = w[(a + y) + 1] /\ (a + y) + 1 = a + x /\ a + y \in Nat /\ y \in Nat
  BY <1>3, <1>4 DEF Behind
<1>7. /\ Carried(w, a) \in Nat /\ Carried(v, y) \in Nat /\ Carried(w, a + y) \in Nat
  BY <1>6, CarriedNat
<1>8. P(x)
  <2>1. CASE w[(a + y) + 1] > 0
    <3>1. Carried(w, (a + y) + 1) = Carried(w, a + y) + 1
      BY <1>6, <2>1, CarriedStep
    <3>2. Carried(v, y + 1) = Carried(v, y) + 1
      BY <1>6, <2>1, CarriedStep
    <3>3. QED BY <1>4, <1>5, <1>6, <1>7, <3>1, <3>2
  <2>2. CASE ~(w[(a + y) + 1] > 0)
    <3>1. Carried(w, (a + y) + 1) = Carried(w, a + y)
      BY <1>6, <2>2, CarriedStep
    <3>2. Carried(v, y + 1) = Carried(v, y)
      BY <1>6, <2>2, CarriedStep
    <3>3. QED BY <1>4, <1>5, <1>6, <1>7, <3>1, <3>2
  <2>3. QED BY <2>1, <2>2
<1>9. QED BY <1>1, <1>8

\* Every number up to the count is reached, at a byte.
LEMMA CarriedReaches ==
  ASSUME NEW w, NEW m \in Nat, NEW i \in 1..Carried(w, m)
  PROVE  \E p \in 1..m : w[p] > 0 /\ Carried(w, p) = i
<1> DEFINE T == {x \in 0..m : i <= Carried(w, x)}
<1>0. Carried(w, m) \in Nat
  BY CarriedNat
<1>1. m \in T
  BY <1>0
<1>2. PICK x \in T : \A y \in T : x <= y
  <2>1. T \in SUBSET Nat /\ T # {}
    BY <1>1
  <2>2. QED BY <2>1, Least
<1>3. x # 0
  BY <1>0, <1>2, CarriedNone
<1>4. PICK y \in 0..m - 1 : x = y + 1
  BY <1>2, <1>3
<1>5. y \in Nat /\ Carried(w, y) \in Nat /\ Carried(w, x) \in Nat
  <2>1. y \in Nat /\ x \in Nat
    BY <1>4
  <2>2. QED BY <2>1, CarriedNat
<1>6. Carried(w, y) < i
  <2>1. y \notin T
    BY <1>2, <1>4
  <2>2. QED BY <2>1, <1>4, <1>5, <1>0
<1>7. i <= Carried(w, x)
  BY <1>2
<1>8. w[x] > 0 /\ Carried(w, x) = i
  <2>1. CASE w[x] > 0
    <3>1. Carried(w, x) = Carried(w, y) + 1
      BY <1>4, <1>5, <2>1, CarriedStep
    <3>2. QED BY <2>1, <3>1, <1>5, <1>6, <1>7, <1>0
  <2>2. CASE ~(w[x] > 0)
    <3>1. Carried(w, x) = Carried(w, y)
      BY <1>4, <1>5, <2>2, CarriedStep
    <3>2. QED BY <3>1, <1>5, <1>6, <1>7, <1>0
  <2>3. QED BY <2>1, <2>2
<1>9. QED BY <1>2, <1>3, <1>8

\* A byte of w among the n units after the first a is the next one.
Numbered(w, a, n) == \A i \in 1..n : w[a + i] > 0 => w[a + i] = Carried(w, a + i)

\* The bytes among the units of a part of the wire are the next ones.
LEMMA BytesAre ==
  ASSUME NEW w, NEW a \in Nat, NEW n \in Nat, NEW v \in Seq(Int), Len(v) = n,
         Behind(v, w, a, n),
         Numbered(w, a, n)
  PROVE  /\ Bytes(v) \in Seq(Int)
         /\ Len(Bytes(v)) = Carried(v, n)
         /\ Carried(w, a + n) = Carried(w, a) + Carried(v, n)
         /\ \A i \in 1..Carried(v, n) : Bytes(v)[i] = Carried(w, a) + i
<1>1. Carried(v, n) \in Nat
  BY CarriedNat
<1> DEFINE at(i) == CHOOSE p \in DOMAIN v : v[p] > 0 /\ Carried(v, p) = i
<1>2. DOMAIN v = 1..n
  OBVIOUS
<1>3. ASSUME NEW i \in 1..Carried(v, n)
      PROVE  at(i) \in 1..n /\ v[at(i)] > 0 /\ Carried(v, at(i)) = i
  <2>1. \E p \in DOMAIN v : v[p] > 0 /\ Carried(v, p) = i
    <3>1. \E p \in 1..n : v[p] > 0 /\ Carried(v, p) = i
      BY CarriedReaches
    <3>2. QED BY <1>2, <3>1
  <2>2. QED BY <1>2, <2>1
<1>4. ASSUME NEW i \in 1..Carried(v, n)
      PROVE  v[at(i)] = Carried(w, a) + i
  <2>1. at(i) \in 1..n /\ v[at(i)] > 0 /\ Carried(v, at(i)) = i
    BY <1>3
  <2> HIDE DEF at
  <2>2. v[at(i)] = Carried(w, a + at(i))
    BY <2>1 DEF Behind, Numbered
  <2>3. Carried(w, a + at(i)) = Carried(w, a) + Carried(v, at(i))
    <3>1. at(i) \in 0..n
      BY <2>1
    <3>2. QED BY <3>1, CarriedPart
  <2>4. QED BY <2>1, <2>2, <2>3
<1>5. Bytes(v) = [i \in 1..Carried(v, n) |-> v[at(i)]]
  BY DEF Bytes
<1>6. \A i \in 1..Carried(v, n) : v[at(i)] \in Int
  BY <1>2, <1>3
<1> HIDE DEF at
<1>7. Bytes(v) \in Seq(Int) /\ Len(Bytes(v)) = Carried(v, n)
  BY <1>1, <1>5, <1>6
<1>8. Carried(w, a + n) = Carried(w, a) + Carried(v, n)
  <2>1. n \in 0..n
    OBVIOUS
  <2>2. QED BY <2>1, CarriedPart
<1>9. QED BY <1>4, <1>5, <1>7, <1>8

\* What was spoiled of e is e up to some length, but for chunk framing that
\* does not parse, and what may lie behind it.
Like(w, e) ==
  \A p \in 1..Len(w) : /\ p <= Len(e) => \/ w[p] = e[p]
                                         \/ w[p] = Bad /\ e[p] < 1
                       /\ p > Len(e) => w[p] = Surplus

\* Every way of spoiling an encoding is one of those.
LEMMA SpoiledLike ==
  ASSUME NEW e \in Seq(Int), NEW kind, NEW w \in Spoiled(e, kind)
  PROVE  /\ w \in Seq(Int)
         /\ Like(w, e)
         /\ kind = "until_close" => Len(w) <= Len(e)
<1>0. Len(e) \in Nat /\ DOMAIN e = 1..Len(e) /\ \A p \in 1..Len(e) : e[p] \in Int
  OBVIOUS
<1>1. CASE w = e
  BY <1>0, <1>1 DEF Like
<1>2. CASE kind # "until_close" /\ w = e \o <<Surplus>>
  <2>1. Surplus \in Int
    BY DEF Surplus
  <2>2. <<Surplus>> \in Seq(Int) /\ Len(<<Surplus>>) = 1 /\ <<Surplus>>[1] = Surplus
    BY <2>1
  <2>3. w \in Seq(Int) /\ Len(w) = Len(e) + 1
    BY <1>2, <2>2
  <2>4. ASSUME NEW p \in 1..Len(w) PROVE w[p] = IF p <= Len(e) THEN e[p] ELSE Surplus
    BY <1>2, <2>2, <2>3
  <2>5. QED BY <1>0, <1>2, <2>3, <2>4 DEF Like
<1>3. CASE \E i \in 0..Len(e) - 1 : w = SubSeq(e, 1, i)
  <2>1. PICK i \in 0..Len(e) - 1 : w = SubSeq(e, 1, i)
    BY <1>3
  <2>2. w \in Seq(Int) /\ Len(w) = i /\ \A p \in 1..i : w[p] = e[p]
    BY <2>1, <1>0
  <2>3. QED BY <1>0, <2>1, <2>2 DEF Like
<1>4. CASE \E i \in {j \in DOMAIN e : e[j] < 1} : w = [e EXCEPT ![i] = Bad]
  <2>1. PICK i \in 1..Len(e) : e[i] < 1 /\ w = [e EXCEPT ![i] = Bad]
    BY <1>4, <1>0
  <2>2. Bad \in Int
    BY DEF Bad
  <2>3. w \in Seq(Int) /\ Len(w) = Len(e)
    BY <2>1, <2>2, <1>0
  <2>4. \A p \in 1..Len(e) : w[p] = IF p = i THEN Bad ELSE e[p]
    BY <2>1, <1>0
  <2>5. QED BY <1>0, <2>1, <2>3, <2>4 DEF Like
<1>5. QED BY <1>1, <1>2, <1>3, <1>4 DEF Spoiled

\* The encodings that Init chooses from are encodings.
LEMMA EncodingsType ==
  ASSUME NEW kind, NEW n \in Nat, NEW e \in Encodings(kind, n)
  PROVE  e \in Seq(Int) /\ Encodes(e, kind, n)
<1>1. Encodes(e, kind, n)
  BY DEF Encodings
<1>2. CASE e = Whole(n)
  BY <1>1, <1>2 DEF Whole
<1>3. CASE \E m \in n..2 * n : \E u \in [1..m -> {Chunk} \cup 1..n] :
             e = u \o <<LastChunk, EndTrailers>>
  <2>0. PICK m \in n..2 * n : \E u \in [1..m -> {Chunk} \cup 1..n] :
           e = u \o <<LastChunk, EndTrailers>>
    BY <1>3
  <2>1. PICK u \in [1..m -> {Chunk} \cup 1..n] : e = u \o <<LastChunk, EndTrailers>>
    BY <2>0
  <2>2. {Chunk} \cup 1..n \subseteq Int
    BY DEF Chunk
  <2>3. u \in Seq(Int)
    BY <2>1, <2>2
  <2>4. <<LastChunk, EndTrailers>> \in Seq(Int)
    BY DEF LastChunk, EndTrailers
  <2>5. QED BY <1>1, <2>1, <2>3, <2>4
<1>4. QED BY <1>2, <1>3 DEF Encodings

\* A chunked body in its encoding: where its last chunk and its end are, and
\* what has gone by at each of its units.
LEMMA ChunkedFacts ==
  ASSUME NEW n \in Nat, NEW e \in Seq(Int), Encodes(e, "chunked", n)
  PROVE  /\ Len(e) > 1 /\ e[Len(e) - 1] = LastChunk
         /\ \A p \in 1..Len(e) : Carried(e, p) <= n
         /\ \A p \in 1..Len(e) : e[p] > 0 => e[p] = Carried(e, p)
         /\ \A p \in 1..Len(e) : e[p] = LastChunk => Carried(e, p) = n
         /\ \A p \in 1..Len(e) : e[p] = EndTrailers => p = Len(e)
<1>1. /\ Len(e) > 1 /\ e[Len(e) - 1] = LastChunk /\ e[Len(e)] = EndTrailers
      /\ \A p \in 1..Len(e) - 2 : \/ e[p] > 0 /\ e[p] = Carried(e, p)
                                  \/ e[p] = Chunk /\ e[p + 1] > 0
      /\ Carried(e, Len(e)) = n
  BY DEF Encodes
<1>2. Len(e) \in Nat
  OBVIOUS
<1>3. ASSUME NEW p \in 1..Len(e) PROVE Carried(e, p) <= n
  BY <1>1, <1>2, CarriedGrows
<1>4. ASSUME NEW p \in 1..Len(e)
      PROVE  \/ p \in 1..Len(e) - 2 /\ e[p] > 0 /\ e[p] = Carried(e, p)
             \/ p \in 1..Len(e) - 2 /\ e[p] = Chunk
             \/ p = Len(e) - 1 /\ e[p] = LastChunk
             \/ p = Len(e) /\ e[p] = EndTrailers
  <2>1. p \in 1..Len(e) - 2 \/ p = Len(e) - 1 \/ p = Len(e)
    BY <1>2
  <2>2. QED BY <1>1, <2>1
<1>5. Carried(e, Len(e) - 1) = n
  <2>1. (Len(e) - 1) \in Nat /\ (Len(e) - 1) + 1 = Len(e) /\ ~(e[Len(e)] > 0)
    BY <1>1, <1>2 DEF EndTrailers
  <2> DEFINE m == Len(e) - 1
  <2>2. m \in Nat /\ ~(e[m + 1] > 0)
    BY <2>1
  <2> HIDE DEF m
  <2>3. Carried(e, m + 1) = Carried(e, m)
    BY <2>2, CarriedStep
  <2>4. QED BY <1>1, <2>1, <2>3 DEF m
<1>6. ASSUME NEW p \in 1..Len(e)
      PROVE  /\ e[p] > 0 => e[p] = Carried(e, p)
             /\ e[p] = LastChunk => Carried(e, p) = n
             /\ e[p] = EndTrailers => p = Len(e)
  <2>1. e[p] \in Int
    OBVIOUS
  <2>2. QED BY <1>4, <1>5, <2>1, <1>2 DEF Chunk, LastChunk, EndTrailers
<1>7. QED BY <1>1, <1>3, <1>6

\* So every wire the server may have sent is sound.
LEMMA WireStarts ==
  ASSUME NEW kind \in {"none", "length", "chunked", "until_close"}, NEW n \in Nat,
         NEW e \in Encodings(kind, n), NEW w \in Spoiled(e, kind), msg \in Messages(kind, n, w)
  PROVE  WireSound
<1>1. e \in Seq(Int) /\ Encodes(e, kind, n)
  BY EncodingsType
<1>2. w \in Seq(Int) /\ Like(w, e) /\ (kind = "until_close" => Len(w) <= Len(e))
  BY <1>1, SpoiledLike
<1>3. /\ msg.kind = kind /\ msg.n = n /\ msg.wire = w
      /\ msg.kind = "none" => msg.n = 0 /\ msg.coding = "identity"
      /\ msg.kind = "until_close" => /\ ~msg.keep
                                     /\ msg.coding = "identity" => Len(msg.wire) = msg.n
                                     /\ msg.n > 0 => msg.wire # <<>>
      /\ msg.coding = "short" => msg.n > 0
  BY DEF Messages
<1>4. DOMAIN w = 1..Len(w) /\ Len(w) \in Nat /\ Len(e) \in Nat
  BY <1>1, <1>2
<1>5. ASSUME kind \in {"length", "until_close"}
      PROVE  /\ \A p \in DOMAIN w : p <= n => w[p] = p
             /\ kind = "until_close" => Len(w) <= n
  <2>1. e = Whole(n)
    BY <1>1, <1>5 DEF Encodes
  <2>2. Len(e) = n /\ \A p \in 1..n : e[p] = p
    BY <2>1 DEF Whole
  <2>3. QED BY <1>2, <1>4, <2>2 DEF Like
<1>6. ASSUME kind = "chunked", NEW p \in 1..Len(w)
      PROVE  /\ Carried(w, p) <= n
             /\ w[p] > 0 => w[p] = Carried(w, p)
             /\ w[p] = LastChunk => Carried(w, p) = n
             /\ w[p] = EndTrailers =>
                  \/ \E q \in 1..p : w[q] = Bad
                  \/ Encodes(SubSeq(w, 1, p), kind, n)
  <2>1. /\ \A x \in 1..Len(e) : Carried(e, x) <= n
        /\ \A x \in 1..Len(e) : e[x] > 0 => e[x] = Carried(e, x)
        /\ \A x \in 1..Len(e) : e[x] = LastChunk => Carried(e, x) = n
        /\ \A x \in 1..Len(e) : e[x] = EndTrailers => x = Len(e)
    BY <1>1, <1>6, ChunkedFacts
  <2>2. ASSUME NEW x \in Nat, x <= Len(e), x <= Len(w) PROVE Carried(w, x) = Carried(e, x)
    <3>1. ASSUME NEW q \in 1..x PROVE w[q] > 0 <=> e[q] > 0
      <4>1. q \in 1..Len(e) /\ q \in 1..Len(w) /\ e[q] \in Int
        BY <2>2, <1>4, <1>1
      <4>2. w[q] = e[q] \/ (w[q] = Bad /\ e[q] < 1)
        BY <4>1, <1>2, <1>4 DEF Like
      <4>3. QED BY <4>1, <4>2 DEF Bad
    <3>2. QED BY <3>1, <2>2, CarriedSame
  <2>3. CASE p <= Len(e)
    <3>1. p \in 1..Len(e) /\ p \in Nat /\ (w[p] = e[p] \/ (w[p] = Bad /\ e[p] < 1))
      BY <2>3, <1>2, <1>4 DEF Like
    <3>2. Carried(w, p) = Carried(e, p)
      BY <2>2, <2>3, <3>1, <1>4
    <3>3. ASSUME w[p] = EndTrailers, \A q \in 1..p : w[q] # Bad
          PROVE  Encodes(SubSeq(w, 1, p), kind, n)
      <4>1. p = Len(e)
        BY <2>1, <3>1, <3>3 DEF EndTrailers, Bad
      <4>2. \A q \in 1..p : w[q] = e[q]
        BY <3>3, <4>1, <1>2, <1>4 DEF Like
      <4>3. SubSeq(w, 1, p) = e
        <5>1. /\ SubSeq(w, 1, p) \in Seq(Int) /\ Len(SubSeq(w, 1, p)) = p
              /\ \A q \in 1..p : SubSeq(w, 1, p)[q] = w[q]
          BY <1>2, <1>4
        <5>2. QED BY <5>1, <4>1, <4>2, <1>1, SeqEqual
      <4>4. QED BY <4>3, <1>1
    <3>4. QED BY <2>1, <3>1, <3>2, <3>3 DEF Bad, LastChunk
  <2>4. CASE p > Len(e)
    <3>1. \A q \in Len(e) + 1..p : q \in 1..Len(w) /\ w[q] = Surplus
      BY <2>4, <1>2, <1>4 DEF Like
    <3>2. Carried(w, p) = Carried(w, Len(e))
      <4>1. \A q \in Len(e) + 1..p : ~(w[q] > 0)
        BY <3>1 DEF Surplus
      <4>2. p \in Nat /\ Len(e) <= p
        BY <2>4, <1>4
      <4>3. QED BY <4>1, <4>2, <1>4, CarriedFlat
    <3>3. Carried(w, Len(e)) = Carried(e, Len(e))
      BY <2>2, <2>4, <1>4
    <3>4. Carried(e, Len(e)) = n
      BY <1>1, <1>6 DEF Encodes
    <3>5. w[p] = Surplus
      BY <3>1, <2>4, <1>4
    <3>6. QED BY <3>2, <3>3, <3>4, <3>5 DEF Surplus, LastChunk, EndTrailers
  <2>5. QED BY <2>3, <2>4, <1>4
<1>7. QED
  <2>1. msg.kind \in {"length", "until_close"} =>
          \A p \in DOMAIN msg.wire : p <= msg.n => msg.wire[p] = p
    BY <1>3, <1>5
  <2>2. msg.kind = "until_close" => Len(msg.wire) <= msg.n
    BY <1>3, <1>5
  <2>3. msg.kind = "chunked" =>
         \A p \in DOMAIN msg.wire :
         /\ Carried(msg.wire, p) <= msg.n
         /\ msg.wire[p] > 0 => msg.wire[p] = Carried(msg.wire, p)
         /\ msg.wire[p] = LastChunk => Carried(msg.wire, p) = msg.n
         /\ msg.wire[p] = EndTrailers =>
              \/ \E q \in 1..p : msg.wire[q] = Bad
              \/ Encodes(SubSeq(msg.wire, 1, p), msg.kind, msg.n)
    BY <1>3, <1>4, <1>6
  <2>4. QED BY <1>3, <2>1, <2>2, <2>3 DEF WireSound

\* The headers are in: the invariant holds, with the seed behind them.
LEMMA InitInv == Init => IInv
<1> SUFFICES ASSUME Init PROVE IInv
  OBVIOUS
<1>1. PICK kind \in {"none", "length", "chunked", "until_close"}, n \in 0..MaxLength :
        \E e \in Encodings(kind, n) : \E w \in Spoiled(e, kind) : msg \in Messages(kind, n, w)
  BY DEF Init
<1>2. PICK e \in Encodings(kind, n) : \E w \in Spoiled(e, kind) : msg \in Messages(kind, n, w)
  BY <1>1
<1>3. PICK w \in Spoiled(e, kind) : msg \in Messages(kind, n, w)
  BY <1>2
<1>4. n \in Nat
  OBVIOUS
<1>5. WireSound
  BY <1>3, <1>4, WireStarts
<1>6. w \in Seq(Int)
  BY <1>4, EncodingsType, SpoiledLike
<1>7. /\ msg \in [kind : {"none", "length", "chunked", "until_close"}, n : 0..MaxLength,
                  wire : Seq(Int), coding : {"identity", "whole", "short"}, keep : BOOLEAN,
                  tail : {"eof", "quiet"}]
      /\ msg.wire = w /\ msg.n \in Nat
  BY <1>3, <1>4, <1>6 DEF Messages
<1>8. /\ pos \in 0..Len(w) /\ dest \in {"sink", "pull"} /\ staged = <<>> /\ given = <<>>
      /\ b = "open" /\ freed = FALSE /\ err = "OK" /\ conn = "held"
      /\ want = IF dest = "sink" THEN 1 ELSE 0
      /\ rd = [seed |-> SubSeq(w, 1, pos), raw_seen |-> 0, in_trailer |-> FALSE,
               surplus |-> 0, done |-> FALSE, total |-> 0, fed |-> 0, written |-> 0]
  BY <1>7 DEF Init
<1>9. /\ SubSeq(w, 1, pos) \in Seq(Int) /\ Len(SubSeq(w, 1, pos)) = pos /\ pos \in Nat
  BY <1>6, <1>8
<1>10. rd \in Readers
  BY <1>8, <1>9 DEF Readers
<1>11. /\ rd.seed = SubSeq(w, 1, pos) /\ ~rd.done /\ rd.surplus = 0 /\ rd.fed = 0
       /\ rd.raw_seen = 0 /\ rd.in_trailer = FALSE
  BY <1>8
<1>12. /\ staged \in Seq(Int) /\ Len(staged) = 0 /\ given \in Seq(Int) /\ Len(given) = 0
  BY <1>8
<1>13. TypeOK
  BY <1>7, <1>8, <1>10, <1>12 DEF TypeOK, Codes
<1>14. pos - Len(rd.seed) = 0
  BY <1>9, <1>11
<1>15. Consumed(rd, 0)
  BY <1>7, <1>11, CarriedNone DEF Consumed
<1>16. InStep
  BY <1>7, <1>8, <1>9, <1>11, <1>12, <1>14, <1>15 DEF InStep
<1>17. Delivered
  BY <1>7, <1>8, <1>12 DEF Delivered
<1>18. Awaited /\ ReusedInStep
  BY <1>8 DEF Awaited, ReusedInStep
<1>19. QED BY <1>5, <1>13, <1>16, <1>17, <1>18 DEF IInv
-----------------------------------------------------------------------------
(* The pipe and the decoder                                                *)

Outcomes == [r : Readers, rc : Codes, out : Seq(Int)]

\* The first t units of a chunked wire: nothing that ends or breaks it, and
\* whether the last chunk is among them.
NoEnd(t)    == \A p \in 1..t : msg.wire[p] \notin {EndTrailers, Bad}
PastLast(t) == \E p \in 1..t : msg.wire[p] = LastChunk

\* A read is a run of the wire.
LEMMA RunOfWire ==
  ASSUME NEW w \in Seq(Int), NEW t \in Nat, NEW s \in t..Len(w)
  PROVE  /\ SubSeq(w, t + 1, s) \in Seq(Int)
         /\ Len(SubSeq(w, t + 1, s)) = s - t
         /\ Behind(SubSeq(w, t + 1, s), w, t, s - t)
<1>1. SubSeq(w, t + 1, s) \in Seq(Int) /\ Len(SubSeq(w, t + 1, s)) = s - t
  OBVIOUS
<1>2. ASSUME NEW i \in 1..s - t PROVE SubSeq(w, t + 1, s)[i] = w[t + i]
  OBVIOUS
<1>3. QED BY <1>1, <1>2 DEF Behind

\* The fields of a reader.
LEMMA ReaderFields ==
  ASSUME NEW r \in Readers
  PROVE  /\ r.seed \in Seq(Int) /\ r.raw_seen \in Nat /\ r.in_trailer \in BOOLEAN
         /\ r.surplus \in Nat /\ r.done \in BOOLEAN /\ r.total \in Nat
         /\ r.fed \in Nat /\ r.written \in Nat
BY DEF Readers

\* A reader with other counts is a reader.
LEMMA Recounted ==
  ASSUME NEW r \in Readers, NEW f \in Nat, NEW g \in Nat
  PROVE  /\ [r EXCEPT !.fed = f, !.written = g] \in Readers
         /\ [r EXCEPT !.surplus = f] \in Readers
         /\ [r EXCEPT !.raw_seen = f] \in Readers
         /\ [r EXCEPT !.total = f] \in Readers
BY DEF Readers

\* What zuh_body_pipe_feed() makes of a run.
FeedWell(r, run, f) ==
  /\ f \in Outcomes /\ f.rc \in {"OK", "BODY_LIMIT", "BODY_DECODE"}
  /\ f.rc = "OK" => /\ f.out = run /\ f.r.fed = r.fed + Len(run)
                    /\ f.r.seed = r.seed /\ f.r.raw_seen = r.raw_seen
                    /\ f.r.in_trailer = r.in_trailer /\ f.r.surplus = r.surplus
                    /\ f.r.done = r.done

\* zuh_body_pipe_feed(): all of a run reaches the sink, or nothing.
LEMMA FeedFacts ==
  ASSUME NEW r \in Readers, NEW run \in Seq(Int)
  PROVE  FeedWell(r, run, Feed(r, run))
<1> DEFINE rc == IF msg.coding # "identity" THEN Inflate(r, run)
                 ELSE IF OverCap(r, Len(run)) THEN "BODY_LIMIT" ELSE "OK"
           s == [r EXCEPT !.fed = @ + Len(run), !.written = @ + Len(run)]
<1>1. rc \in {"OK", "BODY_LIMIT", "BODY_DECODE"}
  BY DEF Inflate
<1>2. /\ s \in Readers /\ s.fed = r.fed + Len(run)
      /\ s.seed = r.seed /\ s.raw_seen = r.raw_seen
      /\ s.in_trailer = r.in_trailer /\ s.surplus = r.surplus /\ s.done = r.done
  <2>1. Len(run) \in Nat
    OBVIOUS
  <2> DEFINE k == Len(run)
  <2> HIDE DEF k
  <2>2. k \in Nat
    BY <2>1 DEF k
  <2> DEFINE s2 == [r EXCEPT !.fed = @ + k, !.written = @ + k]
  <2>3. s2 \in Readers
    <3>1. r.fed + k \in Nat /\ r.written + k \in Nat
      BY <2>2, ReaderFields
    <3>2. s2 = [r EXCEPT !.fed = r.fed + k, !.written = r.written + k]
      OBVIOUS
    <3>3. QED BY <3>1, <3>2, Recounted
  <2>4. /\ s2.fed = r.fed + k
        /\ s2.seed = r.seed /\ s2.raw_seen = r.raw_seen
        /\ s2.in_trailer = r.in_trailer /\ s2.surplus = r.surplus /\ s2.done = r.done
    BY DEF Readers
  <2>5. QED BY <2>3, <2>4 DEF k
<1>3. Feed(r, run) = IF rc # "OK" THEN Outcome(r, rc, <<>>) ELSE Outcome(s, "OK", run)
  BY DEF Feed
<1> HIDE DEF rc, s
<1>4. <<>> \in Seq(Int)
  OBVIOUS
<1>5. CASE rc # "OK"
  <2>1. Feed(r, run) = [r |-> r, rc |-> rc, out |-> <<>>]
    BY <1>3, <1>5 DEF Outcome
  <2>2. QED BY <2>1, <1>1, <1>4, <1>5 DEF FeedWell, Outcomes, Codes
<1>6. CASE rc = "OK"
  <2>1. Feed(r, run) = [r |-> s, rc |-> "OK", out |-> run]
    BY <1>3, <1>6 DEF Outcome
  <2>2. QED BY <2>1, <1>2 DEF FeedWell, Outcomes, Codes
<1>7. QED BY <1>5, <1>6

\* What trailer_parse() makes of the units in rest.
TrailerWell(r, rest, t) ==
  /\ t \in Outcomes /\ t.rc \in {"OK", "WOULDBLOCK", "PARSE"}
  /\ t.out = <<>>
  /\ t.r.done = r.done /\ t.r.seed = r.seed /\ t.r.fed = r.fed
  /\ t.rc = "WOULDBLOCK" =>
       t.r = r /\ \A i \in 1..Len(rest) : rest[i] \notin {EndTrailers, Bad}
  /\ t.rc = "OK" =>
       \E end \in 1..Len(rest) :
         /\ rest[end] = EndTrailers
         /\ \A i \in 1..end - 1 : rest[i] \notin {EndTrailers, Bad}
         /\ t.r.surplus = r.surplus + (Len(rest) - end)

\* trailer_parse()
LEMMA TrailerFacts ==
  ASSUME NEW r \in Readers, NEW rest \in Seq(Int)
  PROVE  TrailerWell(r, rest, Trailer(r, rest))
<1> DEFINE end == First(rest, {EndTrailers, Bad})
           s == [r EXCEPT !.surplus = @ + (Len(rest) - end)]
<1>1. /\ end \in 0..Len(rest)
      /\ end = 0 => \A i \in 1..Len(rest) : rest[i] \notin {EndTrailers, Bad}
      /\ end > 0 => /\ rest[end] \in {EndTrailers, Bad}
                    /\ \A i \in 1..end - 1 : rest[i] \notin {EndTrailers, Bad}
  BY FirstFacts
<1>2. Len(rest) \in Nat /\ <<>> \in Seq(Int)
  OBVIOUS
<1>3. /\ end = 0 => Trailer(r, rest) = Outcome(r, "WOULDBLOCK", <<>>)
      /\ end > 0 /\ rest[end] = Bad => Trailer(r, rest) = Outcome(r, "PARSE", <<>>)
      /\ end > 0 /\ rest[end] # Bad => Trailer(r, rest) = Outcome(s, "OK", <<>>)
  BY <1>1 DEF Trailer
<1> HIDE DEF end
<1>4. /\ s \in Readers /\ s.done = r.done /\ s.seed = r.seed /\ s.fed = r.fed
      /\ s.surplus = r.surplus + (Len(rest) - end)
  <2>1. Len(rest) - end \in Nat
    BY <1>1, <1>2
  <2> DEFINE k == Len(rest) - end
  <2> HIDE DEF k
  <2>2. k \in Nat
    BY <2>1 DEF k
  <2> DEFINE s2 == [r EXCEPT !.surplus = @ + k]
  <2>3. s2 \in Readers
    <3>1. r.surplus + k \in Nat
      BY <2>2, ReaderFields
    <3>2. QED BY <3>1, Recounted
  <2>4. s2.done = r.done /\ s2.seed = r.seed /\ s2.fed = r.fed /\ s2.surplus = r.surplus + k
    BY DEF Readers
  <2>5. QED BY <2>3, <2>4 DEF k
<1> HIDE DEF s
<1>5. CASE end = 0
  <2>1. Trailer(r, rest) = [r |-> r, rc |-> "WOULDBLOCK", out |-> <<>>]
    BY <1>3, <1>5 DEF Outcome
  <2>2. QED BY <2>1, <1>1, <1>2, <1>5 DEF TrailerWell, Outcomes, Codes
<1>6. CASE end > 0 /\ rest[end] = Bad
  <2>1. Trailer(r, rest) = [r |-> r, rc |-> "PARSE", out |-> <<>>]
    BY <1>3, <1>6 DEF Outcome
  <2>2. QED BY <2>1, <1>2 DEF TrailerWell, Outcomes, Codes
<1>7. CASE end > 0 /\ rest[end] # Bad
  <2>1. Trailer(r, rest) = [r |-> s, rc |-> "OK", out |-> <<>>]
    BY <1>3, <1>7 DEF Outcome
  <2>2. end \in 1..Len(rest) /\ rest[end] = EndTrailers
    BY <1>1, <1>2, <1>7
  <2>3. QED BY <2>1, <2>2, <1>1, <1>2, <1>4 DEF TrailerWell, Outcomes, Codes
<1>8. QED BY <1>1, <1>5, <1>6, <1>7

\* After the last chunk every byte has gone by.
LEMMA AllGone ==
  ASSUME TypeOK, WireSound, msg.kind = "chunked", NEW t \in Nat, PastLast(t),
         NEW s \in t..Len(msg.wire)
  PROVE  Carried(msg.wire, s) = msg.n
<1>1. msg.wire \in Seq(Int) /\ msg.n \in Nat
  BY BodyAssumption DEF TypeOK
<1>2. PICK p \in 1..t : msg.wire[p] = LastChunk
  BY DEF PastLast
<1>3. p \in Nat /\ p \in DOMAIN msg.wire /\ s \in DOMAIN msg.wire /\ p <= s /\ s \in Nat
  BY <1>1
<1>4. Carried(msg.wire, p) = msg.n /\ Carried(msg.wire, s) <= msg.n
  BY <1>2, <1>3 DEF WireSound
<1>5. Carried(msg.wire, p) <= Carried(msg.wire, s) /\ Carried(msg.wire, s) \in Nat
  <2>1. Carried(msg.wire, s) \in Nat
    BY <1>3, CarriedNat
  <2>2. QED BY <2>1, <1>3, CarriedGrows
<1>6. QED BY <1>1, <1>4, <1>5

\* Where the trailers end with nothing malformed before, the body is over, and
\* the last chunk was before that.
LEMMA EndsBody ==
  ASSUME TypeOK, WireSound, msg.kind = "chunked", NEW p \in 1..Len(msg.wire),
         msg.wire[p] = EndTrailers, \A q \in 1..p : msg.wire[q] # Bad
  PROVE  /\ Encodes(SubSeq(msg.wire, 1, p), msg.kind, msg.n)
         /\ p > 1 /\ msg.wire[p - 1] = LastChunk
<1>1. msg.wire \in Seq(Int) /\ msg.n \in Nat
  BY BodyAssumption DEF TypeOK
<1>2. Encodes(SubSeq(msg.wire, 1, p), msg.kind, msg.n)
  BY <1>1 DEF WireSound
<1>3. /\ SubSeq(msg.wire, 1, p) \in Seq(Int) /\ Len(SubSeq(msg.wire, 1, p)) = p
      /\ \A q \in 1..p : SubSeq(msg.wire, 1, p)[q] = msg.wire[q]
  BY <1>1
<1>4. p > 1 /\ SubSeq(msg.wire, 1, p)[p - 1] = LastChunk
  BY <1>2, <1>3 DEF Encodes
<1>5. QED BY <1>2, <1>3, <1>4

\* What one read of a chunked body comes to, behind the first t units of the
\* wire and up to s: the bytes among them, in order, and where that leaves it.
DecodedWell(r, t, s, d) ==
  /\ d \in Outcomes
  /\ ~d.r.done /\ d.r.seed = r.seed /\ d.r.fed = r.fed
  /\ d.rc \in {"OK", "WOULDBLOCK"} =>
       /\ Carried(msg.wire, s) = Carried(msg.wire, t) + Len(d.out)
       /\ \A i \in 1..Len(d.out) : d.out[i] = Carried(msg.wire, t) + i
  /\ d.rc = "WOULDBLOCK" =>
       d.r.surplus = 0 /\ NoEnd(s) /\ (d.r.in_trailer <=> PastLast(s))
  /\ d.rc = "OK" =>
       /\ Carried(msg.wire, s) = msg.n
       /\ d.r.surplus = 0 => Encodes(SubSeq(msg.wire, 1, s), msg.kind, msg.n)

\* A run cut at one of its units.
LEMMA Cut ==
  ASSUME NEW run \in Seq(Int), NEW stop \in 1..Len(run)
  PROVE  /\ SubSeq(run, 1, stop - 1) \in Seq(Int)
         /\ Len(SubSeq(run, 1, stop - 1)) = stop - 1
         /\ \A i \in 1..stop - 1 : SubSeq(run, 1, stop - 1)[i] = run[i]
         /\ SubSeq(run, stop, Len(run)) \in Seq(Int)
         /\ SubSeq(run, stop + 1, Len(run)) \in Seq(Int)
         /\ Len(SubSeq(run, stop + 1, Len(run))) = Len(run) - stop
         /\ \A i \in 1..Len(run) - stop : SubSeq(run, stop + 1, Len(run))[i] = run[stop + i]
<1>1. Len(run) \in Nat /\ stop - 1 \in 0..Len(run) /\ Len(run) - stop \in Nat
  OBVIOUS
<1>2. SubSeq(run, 1, stop - 1) \in Seq(Int) /\ Len(SubSeq(run, 1, stop - 1)) = stop - 1
  BY <1>1
<1>3. \A i \in 1..stop - 1 : SubSeq(run, 1, stop - 1)[i] = run[i]
  BY <1>1
<1>4. SubSeq(run, stop, Len(run)) \in Seq(Int)
  BY <1>1
<1>5. /\ SubSeq(run, stop + 1, Len(run)) \in Seq(Int)
      /\ Len(SubSeq(run, stop + 1, Len(run))) = Len(run) - stop
  BY <1>1
<1>6. \A i \in 1..Len(run) - stop : SubSeq(run, stop + 1, Len(run))[i] = run[stop + i]
  BY <1>1
<1>7. QED BY <1>2, <1>3, <1>4, <1>5, <1>6

\* The end of a run is a run, also where there is nothing left.
LEMMA TailType ==
  ASSUME NEW run \in Seq(Int), NEW i \in Nat \ {0}
  PROVE  SubSeq(run, i, Len(run)) \in Seq(Int)
<1>1. CASE i <= Len(run)
  BY <1>1
<1>2. CASE i > Len(run)
  BY <1>2
<1>3. QED BY <1>1, <1>2

\* zuh_chunked_decode() of the next read, from a reader in step.
LEMMA DecodedFacts ==
  ASSUME TypeOK, WireSound, msg.kind = "chunked",
         NEW r \in Readers, ~r.done, r.surplus = 0,
         NEW t \in Nat, NEW s \in t..Len(msg.wire),
         NoEnd(t), r.in_trailer <=> PastLast(t)
  PROVE  DecodedWell(r, t, s, Decoded(r, SubSeq(msg.wire, t + 1, s)))
<1> DEFINE w == msg.wire
           run == SubSeq(w, t + 1, s)
           d == Decoded(r, run)
<1>1. w \in Seq(Int) /\ msg.n \in Nat /\ MaxBody \in Nat /\ s \in Nat /\ t <= s /\ s <= Len(w)
  BY BodyAssumption DEF TypeOK
<1>2. run \in Seq(Int) /\ Len(run) = s - t /\ Behind(run, w, t, s - t)
  BY <1>1, RunOfWire
<1>3. \A i \in 1..s - t : run[i] = w[t + i]
  BY <1>2 DEF Behind
<1>4. \A p \in 1..Len(w) : w[p] > 0 => w[p] = Carried(w, p)
  BY <1>1 DEF WireSound
<1>5. /\ r.seed \in Seq(Int) /\ r.surplus \in Nat /\ r.total \in Nat /\ r.in_trailer \in BOOLEAN
      /\ r.done = FALSE
  BY ReaderFields
<1>6. Carried(w, t) \in Nat /\ Carried(w, s) \in Nat
  <2>1. s \in Nat /\ t \in Nat
    BY <1>1
  <2>2. QED BY <2>1, CarriedNat
<1> HIDE DEF run, w
\* Where the trailers end: from unit t + k of the wire on nothing was wrong.
<1>7. ASSUME NEW p \in t + 1..s, w[p] = EndTrailers,
             \A q \in t + 1..p - 1 : w[q] # Bad
      PROVE  Encodes(SubSeq(w, 1, p), msg.kind, msg.n) /\ p > 1 /\ w[p - 1] = LastChunk
  <2>1. p \in 1..Len(w)
    BY <1>1
  <2>2. ASSUME NEW q \in 1..p PROVE w[q] # Bad
    <3>1. q \in 1..t \/ q \in t + 1..p - 1 \/ q = p
      BY <1>1, <2>1
    <3>2. q \in 1..t => w[q] # Bad
      BY DEF NoEnd, w
    <3>3. QED BY <3>1, <3>2, <1>7 DEF EndTrailers, Bad
  <2>3. QED BY <2>1, <2>2, <1>7, EndsBody DEF w
<1>8. CASE r.in_trailer
  <2>1. d = Trailer(r, run)
    BY <1>8 DEF Decoded
  <2> HIDE DEF d
  <2>0. TrailerWell(r, run, d)
    BY <1>2, <2>1, TrailerFacts
  <2>2. /\ d \in Outcomes /\ d.rc \in {"OK", "WOULDBLOCK", "PARSE"}
        /\ d.out = <<>>
        /\ d.r.done = r.done /\ d.r.seed = r.seed /\ d.r.fed = r.fed
        /\ d.rc = "WOULDBLOCK" =>
             d.r = r /\ \A i \in 1..Len(run) : run[i] \notin {EndTrailers, Bad}
        /\ d.rc = "OK" =>
             \E end \in 1..Len(run) :
               /\ run[end] = EndTrailers
               /\ \A i \in 1..end - 1 : run[i] \notin {EndTrailers, Bad}
               /\ d.r.surplus = r.surplus + (Len(run) - end)
    BY <2>0 DEF TrailerWell
  <2>3. PastLast(t) /\ PastLast(s)
    BY <1>1, <1>8 DEF PastLast
  <2>4. Carried(w, t) = msg.n /\ Carried(w, s) = msg.n
    <3>1. t \in t..Len(w)
      BY <1>1
    <3>2. QED BY <3>1, <2>3, AllGone DEF w
  <2>5. Len(d.out) = 0
    BY <2>2
  <2>6. d.rc = "WOULDBLOCK" => NoEnd(s)
    <3> SUFFICES ASSUME d.rc = "WOULDBLOCK", NEW p \in 1..s PROVE w[p] \notin {EndTrailers, Bad}
      BY DEF NoEnd, w
    <3>1. CASE p \in 1..t
      BY <3>1 DEF NoEnd, w
    <3>2. CASE p \notin 1..t
      <4>1. PICK i \in 1..s - t : p = t + i
        <5>1. p - t \in 1..s - t /\ p = t + (p - t)
          BY <3>2, <1>1
        <5>2. QED BY <5>1
      <4>2. QED BY <4>1, <2>2, <1>2, <1>3
    <3>3. QED BY <3>1, <3>2
  <2>7. d.rc = "OK" /\ d.r.surplus = 0 => Encodes(SubSeq(w, 1, s), msg.kind, msg.n)
    <3> SUFFICES ASSUME d.rc = "OK", d.r.surplus = 0
                 PROVE  Encodes(SubSeq(w, 1, s), msg.kind, msg.n)
      OBVIOUS
    <3>1. PICK end \in 1..Len(run) : /\ run[end] = EndTrailers
                                     /\ \A i \in 1..end - 1 : run[i] \notin {EndTrailers, Bad}
                                     /\ d.r.surplus = r.surplus + (Len(run) - end)
      BY <2>2
    <3>2. end = s - t /\ t + end = s /\ s \in t + 1..s
      <4>1. end \in 1..s - t /\ 0 + ((s - t) - end) = 0
        BY <3>1, <1>2
      <4>2. QED BY <4>1, <1>1
    <3>3. w[s] = EndTrailers
      BY <3>1, <3>2, <1>2, <1>3
    <3>4. ASSUME NEW q \in t + 1..s - 1 PROVE w[q] # Bad
      <4>1. q - t \in 1..end - 1 /\ t + (q - t) = q /\ q - t \in 1..s - t
        BY <3>2, <1>1
      <4>2. QED BY <4>1, <3>1, <1>3
    <3>5. QED BY <3>2, <3>3, <3>4, <1>7
  <2>8. ~d.r.done
    BY <2>2, <1>5
  <2>9. d.rc = "WOULDBLOCK" => d.r.surplus = 0 /\ (d.r.in_trailer <=> PastLast(s))
    BY <2>2, <2>3, <1>8
  <2>10. DecodedWell(r, t, s, d)
    BY <2>2, <2>4, <2>5, <2>6, <2>7, <2>8, <2>9, <1>6 DEF DecodedWell, w
  <2>11. QED BY <2>10 DEF d, run, w
<1>9. CASE ~r.in_trailer
  <2> DEFINE stop    == First(run, {LastChunk, Bad})
             part    == IF stop = 0 THEN run ELSE SubSeq(run, 1, stop - 1)
             decoded == Bytes(part)
             n       == Len(decoded)
             counted == [r EXCEPT !.total = @ + n]
             rest    == SubSeq(run, stop + 1, Len(run))
             tr      == Trailer([counted EXCEPT !.in_trailer = TRUE], rest)
             junk    == decoded \o SubSeq(run, stop, Len(run))
                          \o SubSeq(run, n + Len(run) - stop + 2, Len(run))
             bad     == stop > 0 /\ run[stop] = Bad
  <2>1. /\ stop \in 0..s - t
        /\ stop = 0 => \A i \in 1..s - t : run[i] \notin {LastChunk, Bad}
        /\ stop > 0 => /\ run[stop] \in {LastChunk, Bad}
                       /\ \A i \in 1..stop - 1 : run[i] \notin {LastChunk, Bad}
    BY <1>2, FirstFacts
  <2> HIDE DEF stop
  <2> DEFINE k == IF stop = 0 THEN s - t ELSE stop - 1
  <2>2. k \in 0..s - t
    BY <2>1, <1>1
  <2>3. part \in Seq(Int) /\ Len(part) = k /\ Behind(part, w, t, k)
    <3>1. CASE stop = 0
      BY <3>1, <1>2
    <3>2. CASE stop > 0
      <4>1. stop \in 1..Len(run) /\ part = SubSeq(run, 1, stop - 1)
        BY <3>2, <2>1, <1>2
      <4>2. part \in Seq(Int) /\ Len(part) = stop - 1
        BY <4>1, <1>2, Cut
      <4>3. \A i \in 1..stop - 1 : part[i] = run[i]
        BY <4>1, <1>2, Cut
      <4>4. \A i \in 1..stop - 1 : part[i] = w[t + i]
        BY <4>3, <1>3, <2>1
      <4>5. QED BY <3>2, <4>2, <4>4 DEF Behind
    <3>3. QED BY <3>1, <3>2, <2>1
  <2>4. /\ decoded \in Seq(Int)
        /\ n = Carried(part, k)
        /\ Carried(w, t + k) = Carried(w, t) + Carried(part, k)
        /\ \A i \in 1..Carried(part, k) : decoded[i] = Carried(w, t) + i
    <3>1. k \in Nat
      BY <2>2
    <3>2. Numbered(w, t, k)
      BY <2>2, <1>1, <1>4 DEF Numbered
    <3> HIDE DEF part, k
    <3>3. /\ Bytes(part) \in Seq(Int)
          /\ Len(Bytes(part)) = Carried(part, k)
          /\ Carried(w, t + k) = Carried(w, t) + Carried(part, k)
          /\ \A i \in 1..Carried(part, k) : Bytes(part)[i] = Carried(w, t) + i
      BY <2>3, <3>1, <3>2, BytesAre
    <3>4. QED BY <3>3
  <2>5. n \in Nat
    BY <2>4
  <2>6. /\ bad => d = Outcome(r, "PARSE", junk)
        /\ ~bad /\ r.total + n > MaxBody => d = Outcome(r, "BODY_LIMIT", decoded)
        /\ ~bad /\ ~(r.total + n > MaxBody) /\ stop = 0 => d = Outcome(counted, "WOULDBLOCK", decoded)
        /\ ~bad /\ ~(r.total + n > MaxBody) /\ stop # 0 => d = Outcome(tr.r, tr.rc, decoded)
    <3>1. r.total + n \in Int
      BY <1>5, <2>5
    <3>2. r.total + n <= MaxBody <=> ~(r.total + n > MaxBody)
      BY <3>1, <1>1
    <3>3. d = CASE r.in_trailer -> Trailer(r, run)
                [] ~r.in_trailer /\ bad -> Outcome(r, "PARSE", junk)
                [] ~r.in_trailer /\ ~bad /\ r.total + n > MaxBody -> Outcome(r, "BODY_LIMIT", decoded)
                [] ~r.in_trailer /\ stop = 0 /\ r.total + n <= MaxBody ->
                     Outcome(counted, "WOULDBLOCK", decoded)
                [] OTHER -> Outcome(tr.r, tr.rc, decoded)
      BY DEF Decoded, stop
    <3>4. stop = 0 => ~bad
      OBVIOUS
    <3> HIDE DEF d, decoded, counted, tr, junk, bad, n
    <3>5. QED BY <3>2, <3>3, <3>4, <1>9
  <2>7. counted \in Readers /\ counted.seed = r.seed /\ counted.fed = r.fed
        /\ counted.surplus = 0 /\ counted.in_trailer = FALSE /\ counted.done = FALSE
    <3> DEFINE total == r.total + n
    <3>1. total \in Nat
      BY <1>5, <2>5
    <3>2. counted = [r EXCEPT !.total = total]
      OBVIOUS
    <3> HIDE DEF total, counted
    <3>3. counted \in Readers
      BY <3>1, <3>2, Recounted
    <3>4. QED BY <3>2, <3>3, <1>5, <1>9 DEF Readers
  <2>8. bad => junk \in Seq(Int)
    <3> SUFFICES ASSUME bad PROVE junk \in Seq(Int)
      OBVIOUS
    <3>1. SubSeq(run, stop, Len(run)) \in Seq(Int)
      <4>1. stop \in 1..Len(run)
        BY <1>2, <2>1
      <4>2. QED BY <4>1, <1>2, Cut
    <3>2. SubSeq(run, n + Len(run) - stop + 2, Len(run)) \in Seq(Int)
      <4> HIDE DEF n, junk
      <4>0. stop \in 0..s - t
        BY <2>1
      <4>1. n + Len(run) - stop + 2 \in Nat \ {0}
        BY <1>1, <1>2, <2>5, <4>0
      <4>2. QED BY <4>1, <1>2, TailType
    <3>3. decoded \in Seq(Int)
      BY <2>4
    <3> HIDE DEF n, decoded
    <3>4. QED BY <3>1, <3>2, <3>3
  <2> HIDE DEF d, decoded, counted, tr, junk, n
  <2>9. CASE bad
    <3>1. d = [r |-> r, rc |-> "PARSE", out |-> junk]
      BY <2>6, <2>9 DEF Outcome
    <3>2. DecodedWell(r, t, s, d)
      BY <3>1, <2>8, <2>9 DEF DecodedWell, Outcomes, Codes
    <3>3. QED BY <3>2 DEF d, run, w
  <2>10. CASE ~bad /\ r.total + n > MaxBody
    <3>1. d = [r |-> r, rc |-> "BODY_LIMIT", out |-> decoded]
      BY <2>6, <2>10 DEF Outcome
    <3>2. DecodedWell(r, t, s, d)
      BY <3>1, <2>4 DEF DecodedWell, Outcomes, Codes
    <3>3. QED BY <3>2 DEF d, run, w
  <2>11. CASE ~bad /\ ~(r.total + n > MaxBody) /\ stop = 0
    <3>1. d = [r |-> counted, rc |-> "WOULDBLOCK", out |-> decoded]
      BY <2>6, <2>11 DEF Outcome
    <3>2. /\ d \in Outcomes /\ d.r = counted /\ d.rc = "WOULDBLOCK" /\ d.out = decoded
      BY <3>1, <2>7, <2>4 DEF Outcomes, Codes
    <3>3. t + k = s /\ Len(d.out) = Carried(part, k)
      BY <2>11, <1>1, <3>2, <2>4 DEF n
    <3>4. ASSUME NEW p \in 1..s PROVE w[p] \notin {EndTrailers, Bad} /\ w[p] # LastChunk
      <4>0. ASSUME NEW q \in 1..s PROVE w[q] \notin {LastChunk, Bad}
        <5>1. CASE q \in 1..t
          BY <5>1, <1>9 DEF NoEnd, PastLast, w
        <5>2. CASE q \notin 1..t
          <6>1. q - t \in 1..s - t /\ q = t + (q - t)
            BY <5>2, <1>1
          <6>2. run[q - t] \notin {LastChunk, Bad}
            BY <6>1, <2>1, <2>11
          <6>3. QED BY <6>1, <6>2, <1>3
        <5>3. QED BY <5>1, <5>2
      <4>1. CASE p \in 1..t
        BY <4>0, <4>1 DEF NoEnd, w
      <4>2. CASE p \notin 1..t /\ w[p] = EndTrailers
        <5>1. p \in t + 1..s /\ p - 1 \in 0..s
          BY <4>2, <1>1
        <5>2. \A q \in t + 1..p - 1 : w[q] # Bad
          BY <5>1, <1>1, <4>0
        <5>3. p > 1 /\ w[p - 1] = LastChunk
          BY <5>1, <5>2, <4>2, <1>7
        <5>4. p - 1 \in 1..s
          BY <5>1, <5>3
        <5>5. QED BY <5>3, <5>4, <4>0
      <4>3. QED BY <4>0, <4>1, <4>2
    <3>5. NoEnd(s) /\ ~PastLast(s)
      BY <3>4 DEF NoEnd, PastLast, w
    <3>6. d.rc # "OK" /\ d.rc = "WOULDBLOCK"
      BY <3>2
    <3>7. /\ Carried(w, s) = Carried(w, t) + Len(d.out)
          /\ \A i \in 1..Len(d.out) : d.out[i] = Carried(w, t) + i
      BY <3>2, <3>3, <2>4
    <3>8. ~d.r.done /\ d.r.seed = r.seed /\ d.r.fed = r.fed /\ d.r.surplus = 0 /\ ~d.r.in_trailer
      BY <3>2, <2>7
    <3>9. DecodedWell(r, t, s, d)
      BY <3>2, <3>5, <3>6, <3>7, <3>8 DEF DecodedWell, w
    <3>10. QED BY <3>9 DEF d, run, w
  <2>12. CASE ~bad /\ ~(r.total + n > MaxBody) /\ stop # 0
    <3>1. d = [r |-> tr.r, rc |-> tr.rc, out |-> decoded]
      BY <2>6, <2>12 DEF Outcome
    <3> DEFINE r2 == [counted EXCEPT !.in_trailer = TRUE]
    <3>2. /\ r2 \in Readers /\ r2.seed = r.seed /\ r2.fed = r.fed /\ r2.surplus = 0
          /\ r2.in_trailer = TRUE /\ r2.done = FALSE
      BY <2>7 DEF Readers
    <3>3. rest \in Seq(Int) /\ Len(rest) = (s - t) - stop
          /\ \A i \in 1..(s - t) - stop : rest[i] = run[stop + i]
      <4>1. stop \in 1..Len(run) /\ Len(run) - stop = (s - t) - stop
        BY <1>1, <1>2, <2>1, <2>12
      <4>2. rest \in Seq(Int) /\ Len(rest) = Len(run) - stop
        BY <4>1, <1>2, Cut
      <4>3. \A i \in 1..Len(run) - stop : rest[i] = run[stop + i]
        BY <4>1, <1>2, Cut
      <4> HIDE DEF rest
      <4>4. QED BY <4>1, <4>2, <4>3
    <3> DEFINE e == t + stop
    <3>4. /\ run[stop] = LastChunk /\ w[e] = LastChunk /\ e \in 1..s /\ e \in Nat /\ k = stop - 1
      BY <2>1, <2>12, <1>1, <1>3
    <3> HIDE DEF r2, rest
    <3>5. /\ tr \in Outcomes /\ tr.rc \in {"OK", "WOULDBLOCK", "PARSE"}
          /\ tr.r.done = r2.done /\ tr.r.seed = r2.seed /\ tr.r.fed = r2.fed
          /\ tr.rc = "WOULDBLOCK" =>
               tr.r = r2 /\ \A i \in 1..Len(rest) : rest[i] \notin {EndTrailers, Bad}
          /\ tr.rc = "OK" =>
               \E end \in 1..Len(rest) :
                 /\ rest[end] = EndTrailers
                 /\ \A i \in 1..end - 1 : rest[i] \notin {EndTrailers, Bad}
                 /\ tr.r.surplus = r2.surplus + (Len(rest) - end)
      <4>1. tr = Trailer(r2, rest)
        BY DEF tr, r2, rest
      <4> HIDE DEF e
      <4>2. rest \in Seq(Int)
        BY <3>3
      <4>3. TrailerWell(r2, rest, tr)
        BY <4>1, <4>2, <3>2, TrailerFacts
      <4>4. QED BY <4>3 DEF TrailerWell
    <3>6. /\ d \in Outcomes /\ d.r = tr.r /\ d.rc = tr.rc /\ d.out = decoded
      BY <3>1, <3>5, <2>4 DEF Outcomes
    <3>7. PastLast(s)
      BY <3>4 DEF PastLast, w
    <3>8. Carried(w, s) = msg.n /\ Carried(w, t + k) = msg.n
      <4>1. PastLast(e) /\ s \in e..Len(w) /\ e \in e..Len(w)
        BY <3>4, <1>1 DEF PastLast, w
      <4>2. Carried(w, s) = msg.n /\ Carried(w, e) = msg.n
        BY <4>1, <3>4, AllGone DEF w
      <4>3. t + k \in Nat /\ (t + k) + 1 = e /\ ~(w[e] > 0)
        BY <3>4, <2>1, <2>2 DEF LastChunk
      <4> DEFINE m == t + k
      <4> HIDE DEF m
      <4>4. m \in Nat /\ m + 1 = e /\ ~(w[m + 1] > 0)
        BY <4>3 DEF m
      <4> HIDE DEF e
      <4>5. Carried(w, m + 1) = Carried(w, m)
        BY <4>4, CarriedStep
      <4>6. QED BY <4>2, <4>4, <4>5 DEF m
    <3>9. /\ Carried(w, s) = Carried(w, t) + Len(d.out)
          /\ \A i \in 1..Len(d.out) : d.out[i] = Carried(w, t) + i
      BY <3>6, <3>8, <2>4 DEF n
    <3>10. ASSUME NEW q \in t + 1..e PROVE w[q] # Bad
      <4>1. q - t \in 1..stop /\ q = t + (q - t) /\ q - t \in 1..s - t
        BY <2>1, <1>1
      <4>2. q = e \/ q - t \in 1..stop - 1
        BY <4>1, <2>1
      <4>3. q # e => run[q - t] \notin {LastChunk, Bad}
        BY <4>2, <2>1, <2>12
      <4>4. w[q] = run[q - t]
        BY <4>1, <1>3
      <4>5. QED BY <4>3, <4>4, <3>4 DEF LastChunk, Bad
    <3>11. ASSUME NEW q \in e + 1..s
           PROVE  q - e \in 1..Len(rest) /\ rest[q - e] = w[q]
      <4>1. q - e \in 1..(s - t) - stop /\ stop + (q - e) = q - t /\ q - t \in 1..s - t
            /\ t + (q - t) = q
        BY <2>1, <1>1
      <4>2. QED BY <4>1, <3>3, <1>3
    <3>12. ASSUME d.rc = "WOULDBLOCK" PROVE NoEnd(s)
      <4>1. ASSUME NEW q \in e + 1..s PROVE w[q] \notin {EndTrailers, Bad}
        BY <3>11, <3>12, <3>5, <3>6
      <4>2. ASSUME NEW q \in t + 1..e PROVE w[q] # EndTrailers
        <5> SUFFICES ASSUME w[q] = EndTrailers PROVE FALSE
          OBVIOUS
        <5>1. q \in t + 1..s /\ \A x \in t + 1..q - 1 : w[x] # Bad
          <6>1. e \in Nat /\ e <= s /\ q <= e /\ t < q /\ q \in Int
            BY <3>4, <1>1
          <6> HIDE DEF e
          <6>2. \A x \in t + 1..q - 1 : x \in t + 1..e
            BY <6>1, <1>1
          <6>3. q \in t + 1..s
            BY <6>1, <1>1
          <6>4. QED BY <6>2, <6>3, <3>10
        <5>2. q > 1 /\ w[q - 1] = LastChunk
          BY <5>1, <1>7
        <5>3. q # e
          BY <3>4 DEF LastChunk, EndTrailers
        <5>4. CASE q = t + 1
          <6>1. t \in 1..t /\ w[t] = LastChunk
            BY <5>2, <5>4
          <6>2. QED BY <6>1, <1>9 DEF PastLast, w
        <5>5. CASE q # t + 1
          <6>1. (q - 1) - t \in 1..stop - 1 /\ t + ((q - 1) - t) = q - 1 /\ (q - 1) - t \in 1..s - t
            BY <5>3, <5>5, <2>1, <1>1
          <6>2. run[(q - 1) - t] # LastChunk
            BY <6>1, <2>1, <2>12
          <6>3. QED BY <6>1, <6>2, <5>2, <1>3
        <5>6. QED BY <5>4, <5>5
      <4>3. ASSUME NEW q \in 1..s PROVE w[q] \notin {EndTrailers, Bad}
        <5>1. q \in 1..t \/ q \in t + 1..e \/ q \in e + 1..s
          BY <3>4, <1>1
        <5>2. q \in 1..t => w[q] \notin {EndTrailers, Bad}
          BY DEF NoEnd, w
        <5>3. QED BY <5>1, <5>2, <4>1, <4>2, <3>10
      <4>4. QED BY <4>3 DEF NoEnd, w
    <3>13. ASSUME d.rc = "OK", d.r.surplus = 0
           PROVE  Encodes(SubSeq(w, 1, s), msg.kind, msg.n)
      <4>1. PICK end \in 1..Len(rest) : /\ rest[end] = EndTrailers
                                        /\ \A i \in 1..end - 1 : rest[i] \notin {EndTrailers, Bad}
                                        /\ tr.r.surplus = r2.surplus + (Len(rest) - end)
        BY <3>13, <3>5, <3>6
      <4>2. end = Len(rest) /\ e + end = s /\ s \in e + 1..s /\ s \in t + 1..s
        <5>1. tr.r.surplus = 0 /\ r2.surplus = 0
          BY <3>13, <3>6, <3>2
        <5>2. Len(rest) = (s - t) - stop /\ stop \in 0..s - t
          BY <3>3, <2>1
        <5>3. end \in 1..(s - t) - stop /\ 0 + (((s - t) - stop) - end) = 0
          BY <4>1, <5>1, <5>2
        <5>4. end = (s - t) - stop
          BY <5>2, <5>3, <1>1
        <5>5. QED BY <5>2, <5>4, <5>3, <1>1
      <4>3. w[s] = EndTrailers
        <5>1. rest[s - e] = w[s] /\ s - e = end
          BY <4>2, <3>11, <3>4, <1>1
        <5>2. QED BY <5>1, <4>1
      <4>4. ASSUME NEW q \in t + 1..s - 1 PROVE w[q] # Bad
        <5>1. CASE q \in t + 1..e
          BY <5>1, <3>10
        <5>2. CASE q \notin t + 1..e
          <6>1. q \in e + 1..s /\ q - e \in 1..end - 1
            <7>1. e \in Nat /\ end \in Nat /\ e + end = s /\ t \in Nat /\ s \in Nat
              BY <4>2, <3>4, <1>1, <3>3
            <7>2. q \in e + 1..s - 1
              BY <5>2, <4>4, <7>1
            <7> HIDE DEF e
            <7>3. QED BY <7>1, <7>2
          <6>2. QED BY <6>1, <4>1, <3>11
        <5>3. QED BY <5>1, <5>2
      <4>5. QED BY <4>2, <4>3, <4>4, <1>7
    <3>14. ~d.r.done /\ d.r.seed = r.seed /\ d.r.fed = r.fed
           /\ (d.rc = "WOULDBLOCK" => d.r.surplus = 0 /\ d.r.in_trailer = TRUE)
      BY <3>2, <3>5, <3>6
    <3>15. DecodedWell(r, t, s, d)
      BY <3>6, <3>7, <3>8, <3>9, <3>12, <3>13, <3>14 DEF DecodedWell, w
    <3>16. QED BY <3>15 DEF d, run, w
  <2>13. QED BY <2>9, <2>10, <2>11, <2>12
<1>10. QED BY <1>5, <1>8, <1>9
-----------------------------------------------------------------------------
(* One step                                                                *)

\* What step_framed() comes to once units up to s of the wire are taken, before
\* the pipe is asked whether the body is over.
Framed(r, s, o) ==
  /\ o \in Outcomes
  /\ o.rc \in {"OK", "WOULDBLOCK"} =>
       /\ o.r.fed = r.fed + Len(o.out) /\ o.r.fed <= msg.n
       /\ \A i \in 1..Len(o.out) : o.out[i] = r.fed + i
       /\ ~o.r.done => o.r.seed = r.seed /\ Consumed(o.r, s)
  /\ o.rc = "OK" /\ o.r.done =>
       \/ /\ o.r.fed = msg.n /\ msg.kind # "until_close"
          /\ o.r.surplus = 0 =>
               r.seed = <<>> /\ Encodes(SubSeq(msg.wire, 1, s), msg.kind, msg.n)
       \/ msg.kind = "until_close" /\ o.r.fed = Len(msg.wire)

\* And after it.
StepWell(r, s, o) ==
  /\ o \in Outcomes
  /\ o.rc \in {"OK", "WOULDBLOCK"} =>
       /\ o.r.fed = r.fed + Len(o.out) /\ o.r.fed <= msg.n
       /\ \A i \in 1..Len(o.out) : o.out[i] = r.fed + i
       /\ ~o.r.done => o.r.seed = r.seed /\ Consumed(o.r, s)
  /\ o.rc = "OK" /\ o.r.done =>
       /\ o.r.fed = msg.n /\ msg.coding # "short"
       /\ o.r.surplus = 0 /\ msg.kind # "until_close" =>
            r.seed = <<>> /\ Encodes(SubSeq(msg.wire, 1, s), msg.kind, msg.n)

\* End(): there is no surplus only where there was none and no seed.
LEMMA EndFacts ==
  ASSUME NEW r \in Readers
  PROVE  /\ End(r) \in Readers /\ End(r).done = TRUE /\ End(r).fed = r.fed
         /\ End(r).surplus = r.surplus + Len(r.seed)
         /\ End(r).surplus = 0 => r.surplus = 0 /\ r.seed = <<>>
<1> DEFINE k == r.surplus + Len(r.seed)
<1>1. r.seed \in Seq(Int) /\ r.surplus \in Nat /\ Len(r.seed) \in Nat
  BY ReaderFields
<1>2. k \in Nat /\ (k = 0 => r.surplus = 0 /\ r.seed = <<>>)
  BY <1>1
<1>3. End(r) = [r EXCEPT !.surplus = k, !.seed = <<>>, !.done = TRUE]
  BY DEF End
<1> HIDE DEF k
<1>4. <<>> \in Seq(Int)
  OBVIOUS
<1>5. [r EXCEPT !.surplus = k, !.seed = <<>>, !.done = TRUE] \in Readers
  BY <1>2, <1>4 DEF Readers
<1>6. /\ End(r).done = TRUE /\ End(r).fed = r.fed /\ End(r).surplus = k
  BY <1>3 DEF Readers
<1>7. QED BY <1>2, <1>3, <1>5, <1>6 DEF k

\* zuh_body_pipe_finish() is asked, and agrees only if the stream is whole.
LEMMA SteppedFacts ==
  ASSUME TypeOK, WireSound, NEW r, NEW s, NEW o, Framed(r, s, o)
  PROVE  StepWell(r, s, Stepped(o))
<1>1. o \in Outcomes
  BY DEF Framed
<1>2. CASE o.rc = "OK" /\ o.r.done
  <2>1. Stepped(o) = [o EXCEPT !.rc = Finish(o.r)]
    BY <1>2 DEF Stepped
  <2>2. Finish(o.r) \in {"OK", "BODY_DECODE"}
    BY DEF Finish
  <2> DEFINE rc == Finish(o.r)
             z  == [o EXCEPT !.rc = rc]
  <2>3. rc \in {"OK", "BODY_DECODE"} /\ rc = Finish(o.r) /\ Stepped(o) = z
    BY <2>1, <2>2
  <2> HIDE DEF rc
  <2>4. z \in Outcomes /\ z.rc = rc /\ z.r = o.r /\ z.out = o.out
    BY <1>1, <2>3 DEF Outcomes, Codes
  <2> HIDE DEF z
  <2>5. ASSUME rc = "OK" PROVE o.r.fed = msg.n /\ msg.coding # "short"
    <3>1. msg.coding = "identity" \/ o.r.fed = 0 \/ (msg.coding = "whole" /\ o.r.fed = msg.n)
      BY <2>3, <2>5 DEF Finish
    <3>2. msg.n \in Nat /\ msg.wire \in Seq(Int)
      BY BodyAssumption DEF TypeOK
    <3>3. msg.coding = "short" => msg.n > 0
      BY DEF WireSound
    <3>4. CASE o.r.fed = msg.n /\ msg.kind # "until_close"
      BY <3>1, <3>2, <3>3, <3>4
    <3>5. CASE msg.kind = "until_close" /\ o.r.fed = Len(msg.wire)
      <4>1. /\ msg.coding = "identity" => Len(msg.wire) = msg.n
            /\ msg.n > 0 => msg.wire # <<>>
        BY <3>5 DEF WireSound
      <4>2. Len(msg.wire) = 0 => msg.wire = <<>>
        BY <3>2
      <4>3. QED BY <3>1, <3>2, <3>3, <3>5, <4>1, <4>2
    <3>6. QED BY <1>2, <3>4, <3>5 DEF Framed
  <2>6. /\ o.r.fed = r.fed + Len(o.out) /\ o.r.fed <= msg.n
        /\ \A i \in 1..Len(o.out) : o.out[i] = r.fed + i
        /\ \/ /\ msg.kind # "until_close"
              /\ o.r.surplus = 0 =>
                   r.seed = <<>> /\ Encodes(SubSeq(msg.wire, 1, s), msg.kind, msg.n)
           \/ msg.kind = "until_close"
    BY <1>2 DEF Framed
  <2>7. StepWell(r, s, z)
    BY <1>2, <2>3, <2>4, <2>5, <2>6 DEF StepWell
  <2>8. QED BY <2>3, <2>7
<1>3. CASE ~(o.rc = "OK" /\ o.r.done)
  <2>1. Stepped(o) = o
    BY <1>3 DEF Stepped
  <2>2. QED BY <1>3, <2>1 DEF Framed, StepWell
<1>4. QED BY <1>2, <1>3

\* step_framed() of a chunked body.
LEMMA ChunkedStep ==
  ASSUME TypeOK, WireSound, msg.kind = "chunked", NEW r \in Readers,
         NEW t \in Nat, NEW s \in t..Len(msg.wire), Consumed(r, t)
  PROVE  Framed(r, s, StepChunked(r, SubSeq(msg.wire, t + 1, s)))
<1> DEFINE run == SubSeq(msg.wire, t + 1, s)
           raw == r.raw_seen + Len(run)
           r1  == [r EXCEPT !.raw_seen = raw]
           d   == Decoded(r1, run)
           f   == Feed(d.r, d.out)
           o   == StepChunked(r, run)
<1>1. msg.wire \in Seq(Int) /\ msg.n \in Nat /\ s \in Nat /\ t <= s /\ s <= Len(msg.wire)
  BY BodyAssumption DEF TypeOK
<1>2. run \in Seq(Int) /\ Len(run) = s - t
  BY <1>1, RunOfWire
<1>3. raw \in Nat
  BY <1>1, <1>2, ReaderFields
<1>4. o = CASE f.rc # "OK" -> f
            [] f.rc = "OK" /\ d.rc = "OK" -> Outcome(End(f.r), "OK", f.out)
            [] OTHER -> Outcome(f.r, d.rc, f.out)
  BY DEF StepChunked
<1> HIDE DEF raw
<1>5. /\ r1 \in Readers /\ r1.seed = r.seed /\ r1.fed = r.fed /\ r1.surplus = r.surplus
      /\ r1.done = r.done /\ r1.in_trailer = r.in_trailer
  <2>1. r1 \in Readers
    BY <1>3, Recounted
  <2>2. QED BY <2>1 DEF Readers
<1> HIDE DEF r1
<1>6. /\ ~r.done /\ r.surplus = 0 /\ r.fed = Carried(msg.wire, t)
      /\ NoEnd(t) /\ (r.in_trailer <=> PastLast(t))
  BY DEF Consumed, NoEnd, PastLast
<1>7. DecodedWell(r1, t, s, d)
  BY <1>5, <1>6, DecodedFacts
<1> HIDE DEF d
<1>8. /\ d \in Outcomes
      /\ ~d.r.done /\ d.r.seed = r.seed /\ d.r.fed = r.fed
      /\ d.rc \in {"OK", "WOULDBLOCK"} =>
           /\ Carried(msg.wire, s) = Carried(msg.wire, t) + Len(d.out)
           /\ \A i \in 1..Len(d.out) : d.out[i] = Carried(msg.wire, t) + i
      /\ d.rc = "WOULDBLOCK" =>
           d.r.surplus = 0 /\ NoEnd(s) /\ (d.r.in_trailer <=> PastLast(s))
      /\ d.rc = "OK" =>
           /\ Carried(msg.wire, s) = msg.n
           /\ d.r.surplus = 0 => Encodes(SubSeq(msg.wire, 1, s), msg.kind, msg.n)
  BY <1>5, <1>7 DEF DecodedWell
<1>9. d.r \in Readers /\ d.out \in Seq(Int) /\ d.rc \in Codes
  BY <1>8 DEF Outcomes
<1>10. FeedWell(d.r, d.out, f)
  BY <1>9, FeedFacts
<1> HIDE DEF f
<1>11. f \in Outcomes /\ f.r \in Readers /\ f.out \in Seq(Int) /\ f.rc \in {"OK", "BODY_LIMIT", "BODY_DECODE"}
  BY <1>10 DEF FeedWell, Outcomes
<1>12. ASSUME f.rc = "OK"
       PROVE  /\ f.out = d.out /\ f.r.fed = r.fed + Len(d.out) /\ f.r.seed = r.seed
              /\ f.r.in_trailer = d.r.in_trailer /\ f.r.surplus = d.r.surplus /\ ~f.r.done
  BY <1>8, <1>10, <1>12 DEF FeedWell
<1>13. Carried(msg.wire, s) <= msg.n
  <2>1. CASE s = 0
    BY <2>1, <1>1, CarriedNone
  <2>2. CASE s # 0
    <3>1. s \in DOMAIN msg.wire
      BY <1>1, <2>2
    <3>2. QED BY <3>1 DEF WireSound
  <2>3. QED BY <2>1, <2>2
<1>14. CASE f.rc # "OK"
  <2>1. o = f
    BY <1>4, <1>14
  <2> HIDE DEF o
  <2>2. o.rc \notin {"OK", "WOULDBLOCK"}
    BY <2>1, <1>11, <1>14
  <2>3. Framed(r, s, o)
    BY <2>1, <2>2, <1>11 DEF Framed
  <2>4. QED BY <2>3 DEF o
<1>15. CASE f.rc = "OK" /\ d.rc = "OK"
  <2>1. o = [r |-> End(f.r), rc |-> "OK", out |-> d.out]
    BY <1>4, <1>12, <1>15 DEF Outcome
  <2>2. /\ End(f.r) \in Readers /\ End(f.r).done = TRUE /\ End(f.r).fed = f.r.fed
        /\ End(f.r).surplus = 0 => f.r.surplus = 0 /\ f.r.seed = <<>>
    BY <1>11, EndFacts
  <2> HIDE DEF o
  <2>3. o \in Outcomes /\ o.r = End(f.r) /\ o.rc = "OK" /\ o.out = d.out
    BY <2>1, <2>2, <1>9 DEF Outcomes, Codes
  <2>4. o.r.fed = r.fed + Len(o.out) /\ o.r.fed = Carried(msg.wire, s)
    BY <2>2, <2>3, <1>6, <1>8, <1>12, <1>15
  <2>5. \A i \in 1..Len(o.out) : o.out[i] = r.fed + i
    BY <2>3, <1>6, <1>8, <1>15
  <2>6. o.r.fed = msg.n
    BY <2>4, <1>8, <1>15
  <2>7. o.r.surplus = 0 => r.seed = <<>> /\ Encodes(SubSeq(msg.wire, 1, s), msg.kind, msg.n)
    BY <2>2, <2>3, <1>8, <1>12, <1>15
  <2>8. Framed(r, s, o)
    BY <2>2, <2>3, <2>4, <2>5, <2>6, <2>7, <1>1 DEF Framed
  <2>9. QED BY <2>8 DEF o
<1>16. CASE f.rc = "OK" /\ d.rc # "OK"
  <2>1. o = [r |-> f.r, rc |-> d.rc, out |-> d.out]
    BY <1>4, <1>12, <1>16 DEF Outcome
  <2> HIDE DEF o
  <2>2. o \in Outcomes /\ o.r = f.r /\ o.rc = d.rc /\ o.out = d.out
    BY <2>1, <1>9, <1>11 DEF Outcomes
  <2>3. ASSUME d.rc = "WOULDBLOCK"
        PROVE  /\ o.r.fed = r.fed + Len(o.out) /\ o.r.fed = Carried(msg.wire, s)
               /\ \A i \in 1..Len(o.out) : o.out[i] = r.fed + i
    BY <2>2, <2>3, <1>6, <1>8, <1>12, <1>16
  <2>4. ASSUME d.rc = "WOULDBLOCK" PROVE o.r.seed = r.seed /\ Consumed(o.r, s)
    <3>1. /\ ~o.r.done /\ o.r.surplus = 0 /\ o.r.fed = Carried(msg.wire, s)
          /\ NoEnd(s) /\ (o.r.in_trailer <=> PastLast(s)) /\ o.r.seed = r.seed
      BY <2>2, <2>3, <2>4, <1>8, <1>12, <1>16
    <3>2. QED BY <3>1 DEF Consumed, NoEnd, PastLast
  <2>5. Framed(r, s, o)
    BY <2>2, <2>3, <2>4, <1>13, <1>16 DEF Framed
  <2>6. QED BY <2>5 DEF o
<1>17. QED BY <1>14, <1>15, <1>16

\* The first n units of a body with a length are the body.
LEMMA LengthIsWhole ==
  ASSUME TypeOK, WireSound, msg.kind = "length", msg.n <= Len(msg.wire)
  PROVE  Encodes(SubSeq(msg.wire, 1, msg.n), msg.kind, msg.n)
<1>1. msg.wire \in Seq(Int) /\ msg.n \in Nat
  BY BodyAssumption DEF TypeOK
<1>2. \A p \in 1..msg.n : msg.wire[p] = p
  BY <1>1 DEF WireSound
<1>3. /\ SubSeq(msg.wire, 1, msg.n) \in Seq(Int) /\ Len(SubSeq(msg.wire, 1, msg.n)) = msg.n
      /\ \A p \in 1..msg.n : SubSeq(msg.wire, 1, msg.n)[p] = msg.wire[p]
  BY <1>1
<1>4. Whole(msg.n) \in Seq(Int) /\ Len(Whole(msg.n)) = msg.n /\ \A p \in 1..msg.n : Whole(msg.n)[p] = p
  BY <1>1 DEF Whole
<1>5. SubSeq(msg.wire, 1, msg.n) = Whole(msg.n)
  BY <1>2, <1>3, <1>4, SeqEqual
<1>6. QED BY <1>5 DEF Encodes

\* step_framed() of a body with a length, or one that ends with the connection.
LEMMA PlainStep ==
  ASSUME TypeOK, WireSound, msg.kind \in {"length", "until_close"}, NEW r \in Readers,
         NEW t \in Nat, NEW s \in t..Len(msg.wire), Consumed(r, t), ~NothingToRead(r)
  PROVE  Framed(r, s, StepPlain(r, SubSeq(msg.wire, t + 1, s)))
<1> DEFINE run == SubSeq(msg.wire, t + 1, s)
           k   == Take(r, run)
           c   == r.surplus + (Len(run) - k)
           r1  == [r EXCEPT !.surplus = c]
           fst == SubSeq(run, 1, k)
           f   == Feed(r1, fst)
           raw == f.r.raw_seen + k
           g   == [f.r EXCEPT !.raw_seen = raw]
           o   == StepPlain(r, run)
<1>1. msg.wire \in Seq(Int) /\ msg.n \in Nat /\ s \in Nat /\ t <= s /\ s <= Len(msg.wire)
  BY BodyAssumption DEF TypeOK
<1>2. run \in Seq(Int) /\ Len(run) = s - t /\ \A i \in 1..s - t : run[i] = msg.wire[t + i]
  BY <1>1, RunOfWire DEF Behind
<1>3. o = IF f.rc # "OK" THEN f ELSE Outcome(IF AtLength(g) THEN End(g) ELSE g, "OK", f.out)
  BY DEF StepPlain
<1> HIDE DEF run, o
<1>4. /\ ~r.done /\ r.surplus = 0 /\ r.fed = t
      /\ msg.kind = "length" => r.raw_seen = t /\ t <= msg.n /\ t < msg.n
      /\ r.raw_seen \in Nat
  BY <1>1, ReaderFields DEF Consumed, NothingToRead, AtLength
<1>5. /\ k \in 0..s - t
      /\ msg.kind = "length" => t + k <= msg.n /\ (t + k < msg.n => k = s - t)
      /\ msg.kind # "length" => k = s - t
  <2>1. CASE msg.kind = "length"
    <3>1. k = Min({s - t, msg.n - t})
      BY <2>1, <1>2, <1>4 DEF Take
    <3>2. {s - t, msg.n - t} \in SUBSET Nat
      BY <2>1, <1>1, <1>4
    <3>3. k \in {s - t, msg.n - t} /\ \A y \in {s - t, msg.n - t} : k <= y
      BY <3>1, <3>2, MinFacts
    <3> HIDE DEF k
    <3>4. (k = s - t \/ k = msg.n - t) /\ k <= s - t /\ k <= msg.n - t
      BY <3>3
    <3>5. QED BY <2>1, <3>4, <1>1, <1>4
  <2>2. CASE msg.kind # "length"
    BY <2>2, <1>1, <1>2 DEF Take
  <2>3. QED BY <2>1, <2>2
<1> HIDE DEF k
<1>6. c \in Nat /\ (c = 0 => k = s - t) /\ (k = s - t => c = 0)
  <2>1. c = 0 + ((s - t) - k)
    BY <1>2, <1>4
  <2> HIDE DEF c
  <2>2. QED BY <2>1, <1>1, <1>5
<1> HIDE DEF c
<1>7. /\ r1 \in Readers /\ r1.seed = r.seed /\ r1.fed = r.fed /\ r1.surplus = c
      /\ r1.done = r.done /\ r1.raw_seen = r.raw_seen
  <2>1. r1 \in Readers
    BY <1>6, Recounted
  <2>2. QED BY <2>1 DEF Readers
<1> HIDE DEF r1
<1>8. fst \in Seq(Int) /\ Len(fst) = k /\ \A i \in 1..k : fst[i] = run[i]
  BY <1>1, <1>2, <1>5
<1> HIDE DEF fst
<1>9. FeedWell(r1, fst, f)
  BY <1>7, <1>8, FeedFacts
<1> HIDE DEF f
<1>10. f \in Outcomes /\ f.r \in Readers /\ f.rc \in {"OK", "BODY_LIMIT", "BODY_DECODE"}
  BY <1>9 DEF FeedWell, Outcomes
<1>11. CASE f.rc # "OK"
  <2>1. o = f
    BY <1>3, <1>11
  <2>2. Framed(r, s, o)
    BY <2>1, <1>10, <1>11 DEF Framed
  <2>3. QED BY <2>2, <1>1 DEF o, run
<1>12. CASE f.rc = "OK"
  <2>1. /\ f.out = fst /\ f.r.fed = t + k /\ f.r.seed = r.seed
        /\ f.r.raw_seen = r.raw_seen /\ f.r.surplus = c /\ ~f.r.done
    BY <1>4, <1>7, <1>8, <1>9, <1>12 DEF FeedWell
  <2>2. raw \in Nat /\ raw = r.raw_seen + k
    BY <2>1, <1>4, <1>5, <1>1
  <2> HIDE DEF raw
  <2>3. /\ g \in Readers /\ g.fed = t + k /\ g.seed = r.seed /\ g.raw_seen = raw
        /\ g.surplus = c /\ ~g.done
    <3>1. g \in Readers
      BY <1>10, <2>2, Recounted
    <3>2. QED BY <3>1, <2>1, <1>10 DEF Readers
  <2> HIDE DEF g
  <2>4. \A i \in 1..k : fst[i] = r.fed + i
    <3>1. ASSUME NEW i \in 1..k PROVE fst[i] = t + i
      <4>1. i \in 1..s - t /\ t + i \in 1..Len(msg.wire) /\ t + i <= t + k
        BY <1>1, <1>5
      <4>2. fst[i] = msg.wire[t + i]
        BY <4>1, <1>2, <1>8
      <4>3. t + i <= msg.n
        <5>1. msg.kind = "until_close" => Len(msg.wire) <= msg.n
          BY DEF WireSound
        <5>2. QED BY <4>1, <5>1, <1>1, <1>5
      <4>4. msg.wire[t + i] = t + i
        BY <4>1, <4>3, <1>1 DEF WireSound
      <4>5. QED BY <4>2, <4>4
    <3>2. QED BY <3>1, <1>4
  <2>5. t + k <= msg.n
    <3>1. msg.kind = "until_close" => Len(msg.wire) <= msg.n
      BY DEF WireSound
    <3>2. QED BY <3>1, <1>1, <1>5
  <2>6. CASE AtLength(g)
    <3>1. o = [r |-> End(g), rc |-> "OK", out |-> fst]
      BY <1>3, <1>12, <2>1, <2>6 DEF Outcome
    <3>2. /\ End(g) \in Readers /\ End(g).done = TRUE /\ End(g).fed = t + k
          /\ End(g).surplus = 0 => c = 0 /\ r.seed = <<>>
      BY <2>3, EndFacts
    <3>3. o \in Outcomes /\ o.r = End(g) /\ o.rc = "OK" /\ o.out = fst
      BY <3>1, <3>2, <1>8 DEF Outcomes, Codes
    <3>4. msg.kind = "length" /\ t + k = msg.n
      BY <2>2, <2>3, <2>5, <2>6, <1>1, <1>4, <1>5 DEF AtLength
    <3>5. c = 0 => Encodes(SubSeq(msg.wire, 1, s), msg.kind, msg.n)
      <4>1. c = 0 => s = msg.n
        BY <3>4, <1>1, <1>5, <1>6
      <4>2. QED BY <4>1, <3>4, <1>1, LengthIsWhole
    <3>6. o.r.surplus = 0 => r.seed = <<>> /\ Encodes(SubSeq(msg.wire, 1, s), msg.kind, msg.n)
      BY <3>2, <3>3, <3>5
    <3>7. o.r.fed = r.fed + Len(o.out) /\ o.r.fed = msg.n
      BY <3>2, <3>3, <3>4, <1>4, <1>8
    <3>8. Framed(r, s, o)
      BY <3>2, <3>3, <3>4, <3>6, <3>7, <2>4, <1>1, <1>8 DEF Framed
    <3>9. QED BY <3>8, <1>1 DEF o, run
  <2>7. CASE ~AtLength(g)
    <3>1. o = [r |-> g, rc |-> "OK", out |-> fst]
      BY <1>3, <1>12, <2>1, <2>7 DEF Outcome
    <3>2. o \in Outcomes /\ o.r = g /\ o.rc = "OK" /\ o.out = fst
      BY <3>1, <2>3, <1>8 DEF Outcomes, Codes
    <3>3. k = s - t /\ c = 0 /\ t + k = s
      BY <2>2, <2>3, <2>5, <2>7, <1>1, <1>4, <1>5, <1>6 DEF AtLength
    <3>4. Consumed(g, s)
      BY <2>2, <2>3, <2>5, <3>3, <1>4 DEF Consumed
    <3>5. Framed(r, s, o)
      BY <3>2, <3>4, <2>3, <2>4, <2>5, <1>4, <1>8 DEF Framed
    <3>6. QED BY <3>5, <1>1 DEF o, run
  <2>8. QED BY <2>6, <2>7
<1>13. QED BY <1>11, <1>12

\* One run of bytes, whatever the framing.
LEMMA RunStep ==
  ASSUME TypeOK, WireSound, NEW r \in Readers,
         NEW t \in Nat, NEW s \in t..Len(msg.wire), Consumed(r, t), ~NothingToRead(r)
  PROVE  StepWell(r, s, Stepped(StepRun(r, SubSeq(msg.wire, t + 1, s))))
<1>1. CASE msg.kind = "chunked"
  BY <1>1, ChunkedStep, SteppedFacts DEF StepRun
<1>2. CASE msg.kind # "chunked"
  <2>1. msg.kind \in {"length", "until_close"}
    BY <1>2 DEF TypeOK, NothingToRead
  <2>2. Framed(r, s, StepPlain(r, SubSeq(msg.wire, t + 1, s)))
    BY <2>1, PlainStep
  <2>3. QED BY <1>2, <2>2, SteppedFacts DEF StepRun
<1>3. QED BY <1>1, <1>2

\* Nothing to read: the framing is over at once.
LEMMA NothingStep ==
  ASSUME TypeOK, WireSound, NEW r \in Readers,
         NEW t \in 0..Len(msg.wire), Consumed(r, t), NothingToRead(r)
  PROVE  StepWell(r, t, Stepped(Outcome(End(r), "OK", <<>>)))
<1> DEFINE o == Outcome(End(r), "OK", <<>>)
<1>1. msg.wire \in Seq(Int) /\ msg.n \in Nat /\ r.fed \in Nat
  BY BodyAssumption, ReaderFields DEF TypeOK
<1>2. o = [r |-> End(r), rc |-> "OK", out |-> <<>>]
  BY DEF Outcome
<1>3. /\ End(r) \in Readers /\ End(r).done = TRUE /\ End(r).fed = r.fed
      /\ End(r).surplus = 0 => r.seed = <<>>
  BY EndFacts
<1> HIDE DEF o
<1>4. <<>> \in Seq(Int)
  OBVIOUS
<1>5. o \in Outcomes /\ o.r = End(r) /\ o.rc = "OK" /\ o.out = <<>> /\ Len(o.out) = 0
  BY <1>2, <1>3, <1>4 DEF Outcomes, Codes
<1>6. /\ r.fed = msg.n /\ msg.kind # "until_close"
      /\ Encodes(SubSeq(msg.wire, 1, t), msg.kind, msg.n)
  <2>1. CASE msg.kind = "none"
    <3>1. t = 0 /\ r.fed = 0 /\ msg.n = 0
      BY <2>1 DEF Consumed, WireSound
    <3>2. SubSeq(msg.wire, 1, 0) = <<>>
      BY <1>1
    <3>3. QED BY <2>1, <3>1, <3>2 DEF Encodes
  <2>2. CASE msg.kind = "length"
    <3>1. r.fed = t /\ t = msg.n
      BY <2>2, <1>1 DEF Consumed, NothingToRead, AtLength
    <3>2. QED BY <2>2, <3>1, LengthIsWhole
  <2>3. QED BY <2>1, <2>2 DEF NothingToRead, AtLength
<1>7. Framed(r, t, o)
  BY <1>1, <1>3, <1>5, <1>6 DEF Framed
<1>8. QED BY <1>7, SteppedFacts DEF o

\* EOF, with all of the wire taken.
LEMMA ClosedStep ==
  ASSUME TypeOK, WireSound, NEW r \in Readers, Consumed(r, Len(msg.wire))
  PROVE  StepWell(r, Len(msg.wire), Stepped(Closed(r)))
<1> DEFINE s == Len(msg.wire)
           e == [r EXCEPT !.done = TRUE]
           o == Closed(r)
<1>1. msg.wire \in Seq(Int) /\ msg.n \in Nat /\ r.fed \in Nat
  BY BodyAssumption, ReaderFields DEF TypeOK
<1>2. <<>> \in Seq(Int)
  OBVIOUS
<1>3. e \in Readers /\ e.done = TRUE /\ e.fed = r.fed
  BY DEF Readers
<1>4. o = IF msg.kind = "until_close" THEN [r |-> e, rc |-> "OK", out |-> <<>>]
                                      ELSE [r |-> r, rc |-> "PARSE", out |-> <<>>]
  BY DEF Closed, Outcome
<1> HIDE DEF o, e
<1>5. CASE msg.kind = "until_close"
  <2>1. o = [r |-> e, rc |-> "OK", out |-> <<>>]
    BY <1>4, <1>5
  <2>2. o \in Outcomes /\ o.r = e /\ o.rc = "OK" /\ o.out = <<>> /\ Len(o.out) = 0
    BY <2>1, <1>2, <1>3 DEF Outcomes, Codes
  <2>3. r.fed = s /\ s <= msg.n
    BY <1>5 DEF Consumed, WireSound
  <2>4. Framed(r, s, o)
    BY <1>1, <1>3, <1>5, <2>2, <2>3 DEF Framed
  <2>5. QED BY <2>4, SteppedFacts DEF o
<1>6. CASE msg.kind # "until_close"
  <2>1. o = [r |-> r, rc |-> "PARSE", out |-> <<>>]
    BY <1>4, <1>6
  <2>2. o \in Outcomes /\ o.rc = "PARSE"
    BY <2>1, <1>2 DEF Outcomes, Codes
  <2>3. Framed(r, s, o)
    BY <2>2 DEF Framed
  <2>4. QED BY <2>3, SteppedFacts DEF o
<1>7. QED BY <1>5, <1>6
-----------------------------------------------------------------------------
(* What a step leaves                                                      *)

\* Where the reader and the wire are while a read is in progress.
LEMMA ReadingFacts ==
  ASSUME IInv, Reading
  PROVE  /\ msg.wire \in Seq(Int) /\ msg.n \in Nat /\ pos \in 0..Len(msg.wire)
         /\ rd \in Readers /\ rd.seed \in Seq(Int) /\ given \in Seq(Int) /\ staged = <<>>
         /\ b = "open" /\ conn = "held" /\ freed = FALSE
         /\ Len(rd.seed) <= pos /\ rd.seed = SubSeq(msg.wire, pos - Len(rd.seed) + 1, pos)
         /\ Consumed(rd, pos - Len(rd.seed))
         /\ rd.fed = Len(given) /\ Len(given) <= msg.n
         /\ \A i \in 1..Len(given) : given[i] = i
<1>1. /\ msg.wire \in Seq(Int) /\ msg.n \in Nat /\ pos \in 0..Len(msg.wire)
      /\ rd \in Readers /\ given \in Seq(Int) /\ freed \in BOOLEAN
  BY BodyAssumption DEF IInv, TypeOK
<1>2. staged = <<>> /\ b = "open" /\ Len(staged) = 0 /\ Len(given) \in Nat
  BY <1>1 DEF Reading
<1>3. /\ conn = "held" /\ freed = FALSE
      /\ Len(rd.seed) <= pos /\ rd.seed = SubSeq(msg.wire, pos - Len(rd.seed) + 1, pos)
      /\ Consumed(rd, pos - Len(rd.seed))
      /\ rd.fed = Len(given) + Len(staged)
  BY <1>1, <1>2 DEF IInv, InStep
<1>4. rd.fed = Len(given)
  BY <1>2, <1>3
<1>5. Len(given) <= msg.n /\ \A i \in 1..Len(given) : given[i] = i
  BY <1>1, <1>2 DEF IInv, Delivered
<1>6. QED BY <1>1, <1>2, <1>3, <1>4, <1>5, ReaderFields

\* Bytes that follow on what the caller has.
LEMMA Appended ==
  ASSUME NEW g \in Seq(Int), NEW o \in Seq(Int), \A i \in 1..Len(g) : g[i] = i,
         \A i \in 1..Len(o) : o[i] = Len(g) + i
  PROVE  /\ g \o o \in Seq(Int) /\ Len(g \o o) = Len(g) + Len(o)
         /\ \A i \in 1..Len(g \o o) : (g \o o)[i] = i
<1>1. g \o o \in Seq(Int) /\ Len(g \o o) = Len(g) + Len(o)
  OBVIOUS
<1>2. ASSUME NEW i \in 1..Len(g) + Len(o) PROVE (g \o o)[i] = i
  <2>1. CASE i <= Len(g)
    BY <2>1
  <2>2. CASE i > Len(g)
    <3>1. i - Len(g) \in 1..Len(o) /\ Len(g) + (i - Len(g)) = i
      BY <2>2
    <3>2. (g \o o)[i] = o[i - Len(g)]
      BY <2>2
    <3>3. QED BY <3>1, <3>2
  <2>3. QED BY <2>1, <2>2
<1>3. QED BY <1>1, <1>2

\* After(): of a step from a reader that has been fed as much as rd, and whose
\* seed is what was received and not taken.
LEMMA AfterInv ==
  ASSUME IInv, Reading, NEW r \in Readers, NEW s \in Nat, NEW o,
         r.fed = rd.fed, s <= pos', pos' \in 0..Len(msg.wire),
         Len(r.seed) = pos' - s, r.seed = SubSeq(msg.wire, s + 1, pos'),
         StepWell(r, s, o), After(o),
         msg' = msg, dest' = dest, freed' = freed
  PROVE  IInv'
<1>1. /\ msg.wire \in Seq(Int) /\ msg.n \in Nat /\ pos \in 0..Len(msg.wire)
      /\ given \in Seq(Int) /\ staged = <<>>
      /\ b = "open" /\ conn = "held" /\ freed = FALSE
      /\ rd.fed = Len(given) /\ Len(given) <= msg.n
      /\ \A i \in 1..Len(given) : given[i] = i
  BY ReadingFacts
<1>2. /\ want \in Nat \ {0} /\ dest \in {"sink", "pull"} /\ err \in Codes
      /\ msg \in [kind : {"none", "length", "chunked", "until_close"}, n : 0..MaxLength,
                  wire : Seq(Int), coding : {"identity", "whole", "short"}, keep : BOOLEAN,
                  tail : {"eof", "quiet"}]
  BY DEF IInv, TypeOK, Reading
<1>3. o \in Outcomes /\ o.r \in Readers /\ o.rc \in Codes /\ o.out \in Seq(Int)
  BY DEF StepWell, Outcomes
<1>4. o.rc \in {"OK", "WOULDBLOCK"} =>
        /\ o.r.fed = Len(given) + Len(o.out) /\ o.r.fed <= msg.n
        /\ \A i \in 1..Len(o.out) : o.out[i] = Len(given) + i
        /\ ~o.r.done => o.r.seed = r.seed /\ Consumed(o.r, s)
  BY <1>1 DEF StepWell
<1>5. o.rc = "OK" /\ o.r.done =>
        /\ o.r.fed = msg.n /\ msg.coding # "short"
        /\ o.r.surplus = 0 /\ msg.kind # "until_close" =>
             r.seed = <<>> /\ Encodes(SubSeq(msg.wire, 1, s), msg.kind, msg.n)
  BY DEF StepWell
<1>6. /\ rd' = o.r
      /\ dest = "sink" => given' = given \o o.out /\ staged' = staged
      /\ dest = "pull" => staged' = o.out /\ given' = given
  BY <1>2 DEF After
<1>7. given' \in Seq(Int) /\ staged' \in Seq(Int)
  <2>0. given \o o.out \in Seq(Int) /\ <<>> \in Seq(Int)
    BY <1>1, <1>3
  <2>1. CASE dest = "sink"
    BY <1>1, <1>6, <2>0, <2>1
  <2>2. CASE dest = "pull"
    BY <1>1, <1>3, <1>6, <2>2
  <2>3. QED BY <1>2, <2>1, <2>2
<1>8. WireSound'
  BY DEF IInv, WireSound
<1>9. ASSUME o.rc \in {"OK", "WOULDBLOCK"}
      PROVE  /\ Len(given') + Len(staged') = o.r.fed /\ o.r.fed <= msg.n
             /\ Len(given') <= msg.n
             /\ \A i \in 1..Len(given') : given'[i] = i
             /\ \A i \in 1..Len(staged') : staged'[i] = Len(given') + i
  <2>1. Len(given) \in Nat /\ Len(o.out) \in Nat /\ Len(staged) = 0
    BY <1>1, <1>3
  <2>2. CASE dest = "sink"
    <3>1. /\ given' \in Seq(Int) /\ Len(given') = Len(given) + Len(o.out)
          /\ \A i \in 1..Len(given') : given'[i] = i
      BY <1>1, <1>3, <1>4, <1>6, <1>9, <2>2, Appended
    <3>2. staged' = <<>> /\ Len(staged') = 0
      BY <1>1, <1>6, <2>2
    <3>3. QED BY <3>1, <3>2, <2>1, <1>4, <1>9
  <2>3. CASE dest = "pull"
    <3>1. given' = given /\ staged' = o.out
      BY <1>6, <2>3
    <3>2. QED BY <3>1, <2>1, <1>1, <1>4, <1>9
  <2>4. QED BY <2>2, <2>3, <1>2
<1>10. dest = "sink" => staged' = <<>>
  BY <1>1, <1>6
<1>11. dest = "pull" => Len(given') <= msg.n /\ \A i \in 1..Len(given') : given'[i] = i
  BY <1>1, <1>6
<1>12. Release(FALSE) => conn' = "closed"
  BY <1>1 DEF Release
<1>13. DOMAIN given' = 1..Len(given') /\ DOMAIN staged' = 1..Len(staged')
  BY <1>7
<1>14. CASE o.rc \notin {"OK", "WOULDBLOCK"} /\ Failed(o.rc)
  <2>1. b' = "failed" /\ err' = o.rc /\ want' = 0 /\ conn' = "closed"
    BY <1>12, <1>14 DEF Failed
  <2>2. TypeOK'
    BY <2>1, <1>1, <1>2, <1>3, <1>6, <1>7 DEF TypeOK
  <2>3. InStep' /\ Awaited' /\ ReusedInStep'
    BY <2>1 DEF InStep, Awaited, ReusedInStep
  <2>4. Delivered'
    BY <2>1, <1>10, <1>11, <1>13 DEF Delivered
  <2>5. QED BY <1>8, <2>2, <2>3, <2>4 DEF IInv
<1>15. CASE o.rc = "OK" /\ o.r.done /\ Ended(o.r)
  <2>1. /\ b' = "ended" /\ want' \in Nat /\ err' = err
        /\ conn' = IF Verdict(o.r) THEN "reused" ELSE "closed"
    BY <1>1, <1>2, <1>15 DEF Ended, Release
  <2>2. TypeOK'
    BY <2>1, <1>1, <1>2, <1>3, <1>6, <1>7 DEF TypeOK
  <2>3. InStep'
    BY <2>1 DEF InStep
  <2>4. Awaited'
    BY <2>1, <1>1 DEF Awaited
  <2>5. ReusedInStep'
    <3> SUFFICES ASSUME conn' = "reused"
                 PROVE  Encodes(SubSeq(msg.wire, 1, pos'), msg.kind, msg.n)
      BY DEF ReusedInStep
    <3>1. msg.kind # "until_close" /\ o.r.surplus = 0
      BY <2>1 DEF Verdict
    <3>2. r.seed = <<>> /\ Encodes(SubSeq(msg.wire, 1, s), msg.kind, msg.n)
      BY <3>1, <1>5, <1>15
    <3>3. pos' = s
      BY <3>2
    <3>4. QED BY <3>2, <3>3
  <2>6. Delivered'
    <3>1. Len(given') + Len(staged') = msg.n /\ msg.coding # "short"
      BY <1>5, <1>9, <1>15
    <3>2. /\ Len(given') <= msg.n
          /\ \A i \in 1..Len(given') : given'[i] = i
          /\ \A i \in 1..Len(staged') : staged'[i] = Len(given') + i
      BY <1>9, <1>15
    <3>3. Len(given') + Len(staged') <= msg.n
      BY <3>1, <1>1
    <3>4. QED BY <3>1, <3>2, <3>3, <2>1, <1>1, <1>10, <1>13 DEF Delivered
  <2>7. QED BY <1>8, <2>2, <2>3, <2>4, <2>5, <2>6 DEF IInv
<1>16. CASE o.rc \in {"OK", "WOULDBLOCK"} /\ ~o.r.done /\ UNCHANGED <<b, err, want, conn>>
  <2>1. b' = "open" /\ err' = err /\ want' = want /\ conn' = "held" /\ freed' = FALSE
    BY <1>1, <1>16
  <2>2. TypeOK'
    BY <2>1, <1>1, <1>2, <1>3, <1>6, <1>7 DEF TypeOK
  <2>3. InStep'
    <3>1. rd'.seed = r.seed /\ Consumed(rd', s)
      BY <1>4, <1>6, <1>16
    <3>2. rd'.fed = Len(given') + Len(staged')
      BY <1>6, <1>9, <1>16
    <3>3. pos' - Len(rd'.seed) = s /\ Len(rd'.seed) <= pos'
      <4> DEFINE k == Len(rd'.seed)
      <4>1. k = pos' - s
        BY <3>1
      <4> HIDE DEF k
      <4>2. pos' - k = s /\ k <= pos'
        BY <4>1
      <4>3. QED BY <4>2 DEF k
    <3>4. Consumed(rd, s)'
      BY <3>1, <1>6 DEF Consumed
    <3>5. QED BY <2>1, <3>1, <3>2, <3>3, <3>4 DEF InStep
  <2>4. Awaited' /\ ReusedInStep'
    BY <2>1, <1>1 DEF Awaited, ReusedInStep
  <2>5. Delivered'
    <3>1. /\ Len(given') + Len(staged') <= msg.n /\ Len(given') <= msg.n
          /\ \A i \in 1..Len(given') : given'[i] = i
          /\ \A i \in 1..Len(staged') : staged'[i] = Len(given') + i
      BY <1>9, <1>16
    <3>2. QED BY <3>1, <2>1, <1>10, <1>13 DEF Delivered
  <2>6. QED BY <1>8, <2>2, <2>3, <2>4, <2>5 DEF IInv
<1>17. CASE SinkStops(o)
  <2>1. b' = "stopped" /\ err' = err /\ want' = 0 /\ conn' = "closed" /\ dest = "sink"
    BY <1>12, <1>17 DEF SinkStops
  <2>2. TypeOK'
    BY <2>1, <1>1, <1>2, <1>3, <1>6, <1>7 DEF TypeOK
  <2>3. InStep' /\ Awaited' /\ ReusedInStep'
    BY <2>1 DEF InStep, Awaited, ReusedInStep
  <2>4. Delivered'
    BY <2>1, <1>10, <1>13 DEF Delivered
  <2>5. QED BY <1>8, <2>2, <2>3, <2>4 DEF IInv
<1>18. QED BY <1>14, <1>15, <1>16, <1>17 DEF After
-----------------------------------------------------------------------------
(* The actions                                                             *)

\* Every action keeps the invariant.
LEMMA StepNothingInv ==
  ASSUME IInv, StepNothing PROVE IInv'
<1>1. Reading /\ NothingToRead(rd) /\ After(Stepped(Outcome(End(rd), "OK", <<>>)))
      /\ UNCHANGED <<msg, pos, dest, freed>>
  BY DEF StepNothing
<1> DEFINE s == pos - Len(rd.seed)
           o == Stepped(Outcome(End(rd), "OK", <<>>))
<1>2. TypeOK /\ WireSound /\ rd \in Readers /\ Consumed(rd, s) /\ pos' = pos
      /\ pos \in 0..Len(msg.wire) /\ Len(rd.seed) <= pos /\ rd.seed = SubSeq(msg.wire, s + 1, pos)
      /\ rd.seed \in Seq(Int) /\ msg.wire \in Seq(Int)
  BY <1>1, ReadingFacts DEF IInv
<1>3. s \in 0..Len(msg.wire) /\ s \in Nat /\ s <= pos /\ Len(rd.seed) = pos - s
  BY <1>2
<1> HIDE DEF s
<1>4. StepWell(rd, s, o)
  BY <1>1, <1>2, <1>3, NothingStep
<1> HIDE DEF o
<1>5. After(o)
  BY <1>1 DEF o
<1>6. QED BY <1>1, <1>2, <1>3, <1>4, <1>5, AfterInv

\* The seed is a run of the wire, and so are what is taken of it and the rest.
LEMMA Seed ==
  ASSUME NEW w \in Seq(Int), NEW t \in Nat, NEW q \in t..Len(w), NEW n \in 0..q - t,
         NEW seed, seed = SubSeq(w, t + 1, q), NEW s \in Nat, s = t + n
  PROVE  /\ SubSeq(seed, n + 1, Len(seed)) \in Seq(Int)
         /\ Len(SubSeq(seed, n + 1, Len(seed))) = q - s
         /\ SubSeq(seed, n + 1, Len(seed)) = SubSeq(w, s + 1, q)
         /\ SubSeq(seed, 1, n) = SubSeq(w, t + 1, s)
<1> DEFINE left == SubSeq(seed, n + 1, Len(seed))
           run  == SubSeq(seed, 1, n)
           l    == SubSeq(w, s + 1, q)
           r    == SubSeq(w, t + 1, s)
<1>1. seed \in Seq(Int) /\ Len(seed) = q - t /\ \A i \in 1..q - t : seed[i] = w[t + i]
  BY RunOfWire DEF Behind
<1>2. q - t \in Nat /\ q - s \in Nat /\ s \in 0..Len(w) /\ q \in s..Len(w) /\ (q - t) - n = q - s
      /\ n \in Nat /\ n <= q - t /\ s - t = n /\ s \in t..Len(w)
  OBVIOUS
<1>3. left \in Seq(Int) /\ Len(left) = q - s /\ \A i \in 1..q - s : left[i] = seed[n + i]
  <2>1. n \in 0..Len(seed) /\ Len(seed) - n = q - s
    BY <1>1, <1>2
  <2>2. left \in Seq(Int) /\ Len(left) = Len(seed) - n
    BY <1>1, <2>1
  <2>3. \A i \in 1..Len(seed) - n : left[i] = seed[n + i]
    BY <1>1, <2>1
  <2>4. QED BY <2>1, <2>2, <2>3
<1>4. run \in Seq(Int) /\ Len(run) = n /\ \A i \in 1..n : run[i] = seed[i]
  BY <1>1, <1>2
<1>5. l \in Seq(Int) /\ Len(l) = q - s /\ \A i \in 1..q - s : l[i] = w[s + i]
  BY <1>2, RunOfWire DEF Behind
<1>6. r \in Seq(Int) /\ Len(r) = n /\ \A i \in 1..n : r[i] = w[t + i]
  <2>1. r \in Seq(Int) /\ Len(r) = s - t /\ Behind(r, w, t, s - t)
    BY <1>2, RunOfWire
  <2> HIDE DEF r
  <2>2. Behind(r, w, t, n)
    BY <2>1, <1>2
  <2>3. QED BY <2>1, <2>2, <1>2 DEF Behind
<1> HIDE DEF left, run, l, r
<1>7. ASSUME NEW i \in 1..q - s PROVE left[i] = l[i]
  <2>1. n + i \in 1..q - t /\ t + (n + i) = s + i
    BY <1>2
  <2>2. seed[n + i] = w[t + (n + i)]
    BY <1>1, <2>1
  <2>3. QED BY <2>1, <2>2, <1>3, <1>5
<1>8. left = l
  BY <1>3, <1>5, <1>7, SeqEqual
<1>9. ASSUME NEW i \in 1..n PROVE run[i] = r[i]
  <2>1. i \in 1..q - t
    BY <1>2
  <2>2. QED BY <2>1, <1>1, <1>4, <1>6
<1>10. run = r
  BY <1>4, <1>6, <1>9, SeqEqual
<1>11. QED BY <1>3, <1>8, <1>10 DEF left, run, l, r

LEMMA StepSeedInv ==
  ASSUME IInv, StepSeed PROVE IInv'
<1> DEFINE n == Min({Len(rd.seed), ReadChunk})
           r == [rd EXCEPT !.seed = SeedLeft(n)]
           run == SubSeq(rd.seed, 1, n)
           t == pos - Len(rd.seed)
           s == t + n
           o == Stepped(StepRun(r, run))
<1>1. Reading /\ ~NothingToRead(rd) /\ rd.seed # <<>> /\ After(o)
      /\ UNCHANGED <<msg, pos, dest, freed>>
  BY DEF StepSeed
<1>2. TypeOK /\ WireSound /\ rd \in Readers /\ Consumed(rd, t) /\ pos' = pos
      /\ pos \in 0..Len(msg.wire) /\ Len(rd.seed) <= pos /\ rd.seed = SubSeq(msg.wire, t + 1, pos)
      /\ rd.seed \in Seq(Int) /\ msg.wire \in Seq(Int)
  BY <1>1, ReadingFacts DEF IInv
<1>3. n \in 1..Len(rd.seed)
  <2>1. {Len(rd.seed), ReadChunk} \in SUBSET Nat /\ Len(rd.seed) \in Nat \ {0}
    BY <1>1, <1>2, BodyAssumption
  <2>2. n \in {Len(rd.seed), ReadChunk} /\ \A y \in {Len(rd.seed), ReadChunk} : n <= y
    BY <2>1, MinFacts
  <2> HIDE DEF n
  <2>3. QED BY <2>1, <2>2, BodyAssumption
<1> HIDE DEF n
<1>4. t \in Nat /\ s \in t..Len(msg.wire) /\ s \in Nat /\ s <= pos /\ Len(rd.seed) = pos - t
      /\ s = t + n /\ n \in 0..pos - t
  <2> DEFINE k == Len(rd.seed)
             all == Len(msg.wire)
  <2>1. k \in Nat /\ all \in Nat /\ pos \in 0..all /\ k <= pos /\ n \in 1..k
    BY <1>2, <1>3
  <2> HIDE DEF k, all
  <2>2. t = pos - k
    BY DEF k
  <2> HIDE DEF t
  <2>3. t \in Nat /\ t + n \in t..all /\ t + n \in Nat /\ t + n <= pos /\ k = pos - t
        /\ n \in 0..pos - t
    BY <2>1, <2>2
  <2>4. QED BY <2>3 DEF k, all
<1> HIDE DEF t, s
<1>5. SeedLeft(n) \in Seq(Int) /\ Len(SeedLeft(n)) = pos - s
      /\ SeedLeft(n) = SubSeq(msg.wire, s + 1, pos) /\ run = SubSeq(msg.wire, t + 1, s)
  <2>1. pos \in t..Len(msg.wire)
    BY <1>2, <1>4
  <2>2. rd.seed = SubSeq(msg.wire, t + 1, pos) /\ msg.wire \in Seq(Int)
    BY <1>2
  <2>3. t \in Nat /\ n \in 0..pos - t /\ s \in Nat /\ s = t + n
    BY <1>4
  <2>4. /\ SubSeq(rd.seed, n + 1, Len(rd.seed)) \in Seq(Int)
        /\ Len(SubSeq(rd.seed, n + 1, Len(rd.seed))) = pos - s
        /\ SubSeq(rd.seed, n + 1, Len(rd.seed)) = SubSeq(msg.wire, s + 1, pos)
        /\ SubSeq(rd.seed, 1, n) = SubSeq(msg.wire, t + 1, s)
    BY <2>1, <2>2, <2>3, Seed
  <2>5. QED BY <2>4 DEF SeedLeft
<1>7. /\ r \in Readers /\ r.fed = rd.fed /\ r.seed = SeedLeft(n) /\ r.raw_seen = rd.raw_seen
      /\ r.done = rd.done /\ r.surplus = rd.surplus /\ r.in_trailer = rd.in_trailer
  <2> DEFINE left == SeedLeft(n)
  <2>1. left \in Seq(Int)
    BY <1>5
  <2> HIDE DEF left
  <2>2. [rd EXCEPT !.seed = left] \in Readers
    BY <1>2, <2>1 DEF Readers
  <2>3. /\ [rd EXCEPT !.seed = left].fed = rd.fed /\ [rd EXCEPT !.seed = left].seed = left
        /\ [rd EXCEPT !.seed = left].raw_seen = rd.raw_seen
        /\ [rd EXCEPT !.seed = left].done = rd.done
        /\ [rd EXCEPT !.seed = left].surplus = rd.surplus
        /\ [rd EXCEPT !.seed = left].in_trailer = rd.in_trailer
    BY <1>2 DEF Readers
  <2>4. QED BY <2>2, <2>3 DEF left
<1> HIDE DEF r, run
<1>8. Consumed(r, t) /\ ~NothingToRead(r)
  BY <1>1, <1>2, <1>7 DEF Consumed, NothingToRead, AtLength
<1>9. StepWell(r, s, o)
  BY <1>2, <1>4, <1>5, <1>7, <1>8, RunStep
<1> HIDE DEF o
<1>10. QED BY <1>1, <1>2, <1>4, <1>5, <1>7, <1>9, AfterInv

LEMMA StepReadInv ==
  ASSUME IInv, NEW n \in 1..ReadChunk, StepRead(n) PROVE IInv'
<1> DEFINE s == pos + n
           o == Stepped(StepRun(rd, SubSeq(msg.wire, pos + 1, s)))
<1>1. Reading /\ ~NothingToRead(rd) /\ rd.seed = <<>> /\ After(o) /\ pos' = s
      /\ n \in 1..Min({ReadChunk, Len(msg.wire) - pos})
      /\ UNCHANGED <<msg, dest, freed>>
  BY DEF StepRead
<1>2. TypeOK /\ WireSound /\ rd \in Readers /\ Consumed(rd, pos - Len(rd.seed))
      /\ pos \in 0..Len(msg.wire) /\ msg.wire \in Seq(Int)
  BY <1>1, ReadingFacts DEF IInv
<1>3. Len(rd.seed) = 0 /\ pos - Len(rd.seed) = pos /\ pos \in Nat
  BY <1>1, <1>2
<1>4. s \in pos..Len(msg.wire) /\ s \in Nat /\ s \in 0..Len(msg.wire)
  <2> DEFINE left == Len(msg.wire) - pos
             m    == Min({ReadChunk, left})
  <2>1. left \in Nat /\ {ReadChunk, left} \in SUBSET Nat
    BY <1>2, BodyAssumption
  <2>2. m \in {ReadChunk, left} /\ m <= left
    BY <2>1, MinFacts
  <2>3. n \in 1..m
    BY <1>1
  <2> HIDE DEF m
  <2>4. n <= left /\ n \in Nat
    BY <2>1, <2>2, <2>3, BodyAssumption
  <2>5. QED BY <2>4, <1>2
<1>5. SubSeq(msg.wire, s + 1, s) = <<>>
  BY <1>2, <1>4
<1> HIDE DEF s
<1>6. StepWell(rd, s, o)
  BY <1>1, <1>2, <1>3, <1>4, RunStep
<1> HIDE DEF o
<1>7. s <= pos' /\ pos' \in 0..Len(msg.wire) /\ Len(rd.seed) = pos' - s
      /\ rd.seed = SubSeq(msg.wire, s + 1, pos')
  BY <1>1, <1>3, <1>4, <1>5
<1>8. QED BY <1>1, <1>2, <1>4, <1>6, <1>7, AfterInv

LEMMA StepEofInv ==
  ASSUME IInv, StepEof PROVE IInv'
<1> DEFINE o == Stepped(Closed(rd))
           s == Len(msg.wire)
<1>1. Reading /\ ~NothingToRead(rd) /\ rd.seed = <<>> /\ After(o) /\ pos = s
      /\ UNCHANGED <<msg, pos, dest, freed>>
  BY DEF StepEof
<1>2. TypeOK /\ WireSound /\ rd \in Readers /\ Consumed(rd, pos - Len(rd.seed))
      /\ pos \in 0..Len(msg.wire) /\ msg.wire \in Seq(Int)
  BY <1>1, ReadingFacts DEF IInv
<1>3. Len(rd.seed) = 0 /\ pos - Len(rd.seed) = s /\ s \in Nat /\ s <= pos' /\ pos' = s
      /\ Len(rd.seed) = pos' - s /\ pos' \in 0..Len(msg.wire)
  BY <1>1, <1>2
<1>4. SubSeq(msg.wire, s + 1, s) = <<>>
  BY <1>2
<1>5. StepWell(rd, s, o)
  BY <1>2, <1>3, ClosedStep
<1> HIDE DEF o, s
<1>6. rd.seed = SubSeq(msg.wire, s + 1, pos')
  BY <1>1, <1>3, <1>4
<1>7. QED BY <1>1, <1>2, <1>3, <1>5, <1>6, AfterInv DEF s

LEMMA StepFailsInv ==
  ASSUME IInv, NEW rc \in {"TIMEOUT", "CANCELLED", "IO"}, StepFails(rc) PROVE IInv'
<1> DEFINE o == Outcome(rd, rc, <<>>)
<1>1. Reading /\ rd.seed = <<>> /\ After(o) /\ UNCHANGED <<msg, pos, dest, freed>>
  BY DEF StepFails
<1>2. rd \in Readers /\ pos \in 0..Len(msg.wire) /\ msg.wire \in Seq(Int)
  BY <1>1, ReadingFacts
<1>3. o = [r |-> rd, rc |-> rc, out |-> <<>>]
  BY DEF Outcome
<1> HIDE DEF o
<1>4. <<>> \in Seq(Int)
  OBVIOUS
<1>5. o \in Outcomes /\ o.rc \notin {"OK", "WOULDBLOCK"}
  BY <1>2, <1>3, <1>4 DEF Outcomes, Codes
<1>6. StepWell(rd, pos, o)
  BY <1>5 DEF StepWell
<1>7. pos \in Nat /\ pos <= pos' /\ pos' \in 0..Len(msg.wire) /\ Len(rd.seed) = pos' - pos
      /\ rd.seed = SubSeq(msg.wire, pos + 1, pos')
  BY <1>1, <1>2
<1>8. QED BY <1>1, <1>2, <1>6, <1>7, AfterInv

LEMMA ReadBeginInv ==
  ASSUME IInv, NEW n \in Wants, ReadBegin(n) PROVE IInv'
<1>1. /\ dest = "pull" /\ ~freed /\ b \in {"open", "ended"} /\ want' = n
      /\ UNCHANGED <<msg, pos, dest, rd, staged, given, b, freed, err, conn>>
  BY DEF ReadBegin
<1>2. n \in Nat
  BY BodyAssumption
<1>3. TypeOK'
  BY <1>1, <1>2 DEF IInv, TypeOK
<1>4. WireSound'
  BY <1>1 DEF IInv, WireSound
<1>5. InStep'
  BY <1>1 DEF IInv, InStep, Consumed
<1>6. Delivered'
  BY <1>1 DEF IInv, Delivered
<1>7. Awaited' /\ ReusedInStep'
  BY <1>1 DEF IInv, Awaited, ReusedInStep
<1>8. QED BY <1>3, <1>4, <1>5, <1>6, <1>7 DEF IInv

\* staged_off += n: what the caller gets is the beginning of what is staged.
LEMMA ReadReturnsInv ==
  ASSUME IInv, ReadReturns PROVE IInv'
<1> DEFINE n == Min({want, Len(staged)})
<1>1. /\ dest = "pull" /\ want > 0 /\ ~Reading
      /\ given' = given \o SubSeq(staged, 1, n)
      /\ staged' = SubSeq(staged, n + 1, Len(staged))
      /\ want' = 0
      /\ UNCHANGED <<msg, pos, dest, rd, b, freed, err, conn>>
  BY DEF ReadReturns, StagedLeft
<1>2. /\ given \in Seq(Int) /\ staged \in Seq(Int) /\ want \in Nat /\ msg.n \in Nat
  BY BodyAssumption DEF IInv, TypeOK
<1>3. b \in {"open", "ended"} /\ ~freed
  BY <1>1 DEF IInv, Awaited
<1>4. n \in 0..Len(staged)
  <2>1. {want, Len(staged)} \in SUBSET Nat
    BY <1>2
  <2>2. n \in {want, Len(staged)} /\ n <= Len(staged)
    BY <2>1, MinFacts
  <2> HIDE DEF n
  <2>3. QED BY <2>1, <2>2
<1> HIDE DEF n
<1>5. /\ Len(given) <= msg.n /\ \A i \in 1..Len(given) : given[i] = i
      /\ Len(given) + Len(staged) <= msg.n
      /\ \A i \in 1..Len(staged) : staged[i] = Len(given) + i
      /\ b = "ended" => msg.coding # "short" /\ Len(given) + Len(staged) = msg.n
  <2>1. DOMAIN given = 1..Len(given) /\ DOMAIN staged = 1..Len(staged)
    BY <1>2
  <2>2. Len(given) <= msg.n /\ \A i \in DOMAIN given : given[i] = i
    BY <1>1 DEF IInv, Delivered
  <2>3. Len(given) + Len(staged) <= msg.n /\ \A i \in DOMAIN staged : staged[i] = Len(given) + i
    BY <1>3 DEF IInv, Delivered
  <2>4. b = "ended" => msg.coding # "short" /\ Len(given) + Len(staged) = msg.n
    BY <1>3 DEF IInv, Delivered
  <2>5. QED BY <2>1, <2>2, <2>3, <2>4
<1>6. /\ given' \in Seq(Int) /\ staged' \in Seq(Int)
      /\ Len(given') = Len(given) + n /\ Len(staged') = Len(staged) - n
      /\ \A i \in 1..Len(given') : given'[i] = i
      /\ \A i \in 1..Len(staged') : staged'[i] = Len(given') + i
  <2> DEFINE p == SubSeq(staged, 1, n)
             l == SubSeq(staged, n + 1, Len(staged))
  <2>1. p \in Seq(Int) /\ Len(p) = n /\ \A i \in 1..n : p[i] = staged[i]
    BY <1>2, <1>4
  <2>2. l \in Seq(Int) /\ Len(l) = Len(staged) - n /\ \A i \in 1..Len(staged) - n : l[i] = staged[n + i]
    BY <1>2, <1>4
  <2>3. given' = given \o p /\ staged' = l
    BY <1>1
  <2> HIDE DEF p, l
  <2>4. \A i \in 1..Len(p) : p[i] = Len(given) + i
    <3>1. \A i \in 1..n : i \in 1..Len(staged)
      BY <1>2, <1>4
    <3>2. \A i \in 1..Len(staged) : staged[i] = Len(given) + i
      BY <1>5
    <3>3. QED BY <2>1, <3>1, <3>2
  <2>5. /\ given' \in Seq(Int) /\ Len(given') = Len(given) + Len(p)
        /\ \A i \in 1..Len(given') : given'[i] = i
    BY <2>1, <2>3, <2>4, <1>2, <1>5, Appended
  <2>6. ASSUME NEW i \in 1..Len(l) PROVE l[i] = Len(given') + i
    <3>1. n + i \in 1..Len(staged) /\ Len(given) \in Nat
      BY <2>2, <1>2, <1>4
    <3>2. l[i] = Len(given) + (n + i)
      BY <3>1, <2>2, <1>5
    <3>3. Len(given') = Len(given) + n
      BY <2>1, <2>5
    <3>4. QED BY <3>1, <3>2, <3>3, <1>4
  <2>7. QED BY <2>1, <2>2, <2>3, <2>5, <2>6
<1>7. Len(given') + Len(staged') = Len(given) + Len(staged) /\ Len(given') <= msg.n
  BY <1>2, <1>4, <1>5, <1>6
<1>8. TypeOK'
  BY <1>1, <1>6 DEF IInv, TypeOK
<1>9. WireSound'
  BY <1>1 DEF IInv, WireSound
<1>10. InStep'
  BY <1>1, <1>7 DEF IInv, InStep, Consumed
<1>11. Delivered'
  <2>1. DOMAIN given' = 1..Len(given') /\ DOMAIN staged' = 1..Len(staged')
    BY <1>6
  <2>2. QED BY <1>1, <1>3, <1>5, <1>6, <1>7, <2>1 DEF Delivered
<1>12. Awaited' /\ ReusedInStep'
  BY <1>1 DEF IInv, Awaited, ReusedInStep
<1>13. QED BY <1>8, <1>9, <1>10, <1>11, <1>12 DEF IInv

LEMMA AbortsInv ==
  ASSUME IInv, Aborts PROVE IInv'
<1>1. /\ dest = "pull" /\ want = 0 /\ b = "open" /\ b' = "aborted" /\ Release(FALSE)
      /\ UNCHANGED <<msg, pos, dest, rd, staged, given, want, freed, err>>
  BY DEF Aborts
<1>2. conn' = "closed"
  BY <1>1 DEF IInv, InStep, Release
<1>3. TypeOK'
  BY <1>1, <1>2 DEF IInv, TypeOK
<1>4. WireSound'
  BY <1>1 DEF IInv, WireSound
<1>5. InStep' /\ Awaited' /\ ReusedInStep'
  BY <1>1, <1>2 DEF InStep, Awaited, ReusedInStep
<1>6. Delivered'
  BY <1>1 DEF IInv, Delivered
<1>7. QED BY <1>3, <1>4, <1>5, <1>6 DEF IInv

LEMMA FreeInv ==
  ASSUME IInv, Free PROVE IInv'
<1>1. /\ dest = "pull" /\ want = 0 /\ freed' = TRUE /\ staged' = <<>> /\ Release(FALSE)
      /\ b' = IF b = "open" THEN "aborted" ELSE b
      /\ UNCHANGED <<msg, pos, dest, rd, given, want, err>>
  BY DEF Free, FreeConn
<1>2. b' # "open" /\ (b' = "ended" => b = "ended")
  BY <1>1
<1>3. conn' \in {"held", "reused", "closed"} /\ (conn' = "reused" => conn = "reused")
  BY <1>1 DEF IInv, TypeOK, Release
<1>4. TypeOK'
  <2>1. staged' \in Seq(Int)
    BY <1>1
  <2>2. QED BY <1>1, <1>3, <2>1 DEF IInv, TypeOK
<1>5. WireSound'
  BY <1>1 DEF IInv, WireSound
<1>6. InStep' /\ Awaited'
  BY <1>1, <1>2 DEF InStep, Awaited
<1>7. ReusedInStep'
  BY <1>1, <1>3 DEF IInv, ReusedInStep
<1>8. Delivered'
  <2>1. given \in Seq(Int) /\ Len(given) \in Nat /\ msg.n \in Nat
    BY BodyAssumption DEF IInv, TypeOK
  <2>2. Len(given) <= msg.n /\ \A i \in DOMAIN given : given[i] = i
    BY <1>1 DEF IInv, Delivered
  <2>3. b = "ended" => msg.coding # "short"
    BY DEF IInv, Delivered
  <2>4. Len(staged') = 0 /\ DOMAIN staged' = {}
    BY <1>1
  <2>5. Len(given') + Len(staged') <= msg.n /\ \A i \in DOMAIN staged' : staged'[i] = Len(given') + i
    BY <1>1, <2>1, <2>2, <2>4
  <2>6. QED BY <1>1, <1>2, <2>2, <2>3, <2>5 DEF Delivered
<1>9. QED BY <1>4, <1>5, <1>6, <1>7, <1>8 DEF IInv

\* And so does the next-state relation.
LEMMA NextInv == IInv /\ [Next]_vars => IInv'
<1> SUFFICES ASSUME IInv, [Next]_vars PROVE IInv'
  OBVIOUS
<1>1. CASE Next
  <2>1. StepNothing => IInv'
    BY StepNothingInv
  <2>2. StepSeed => IInv'
    BY StepSeedInv
  <2>3. StepEof => IInv'
    BY StepEofInv
  <2>4. (\E n \in 1..ReadChunk : StepRead(n)) => IInv'
    BY StepReadInv
  <2>5. (\E rc \in {"TIMEOUT", "CANCELLED", "IO"} : StepFails(rc)) => IInv'
    BY StepFailsInv
  <2>6. ReadReturns => IInv'
    BY ReadReturnsInv
  <2>7. (\E n \in Wants : ReadBegin(n)) => IInv'
    BY ReadBeginInv
  <2>8. Aborts => IInv'
    BY AbortsInv
  <2>9. Free => IInv'
    BY FreeInv
  <2>10. QED BY <1>1, <2>1, <2>2, <2>3, <2>4, <2>5, <2>6, <2>7, <2>8, <2>9 DEF Next
<1>2. CASE UNCHANGED vars
  <2>1. UNCHANGED <<msg, pos, dest, rd, staged, given, want, b, freed, err, conn>>
    BY <1>2 DEF vars
  <2>2. TypeOK'
    BY <2>1 DEF IInv, TypeOK
  <2>3. WireSound'
    BY <2>1 DEF IInv, WireSound
  <2>4. InStep'
    BY <2>1 DEF IInv, InStep, Consumed
  <2>5. Delivered' /\ Awaited' /\ ReusedInStep'
    BY <2>1 DEF IInv, Delivered, Awaited, ReusedInStep
  <2>6. QED BY <2>2, <2>3, <2>4, <2>5 DEF IInv
<1>3. QED BY <1>1, <1>2

\* The reader is in step with the wire, and what the caller has and what is
\* staged are the body so far, in every state.
THEOREM Inductive == Spec => []IInv
<1>1. QED BY InitInv, NextInv, PTL DEF Spec

\* The types of the reader, the pipe and the open body (zuh_body.c).
THEOREM TypeCorrect == Spec => []TypeOK
<1>1. IInv => TypeOK
  BY DEF IInv
<1>2. QED BY <1>1, Inductive, PTL

\* zuh_body_pipe_finish(), zuh_open_body_ended_clean(): a body reported complete
\* is all of it, in order, once.
THEOREM CompleteBody == Spec => []CompleteIsWhole
<1>1. ASSUME IInv, b = "ended", staged = <<>>, ~freed
      PROVE  given = Whole(msg.n) /\ msg.coding # "short"
  <2>1. given \in Seq(Int) /\ msg.n \in Nat /\ Len(staged) = 0
    BY <1>1, BodyAssumption DEF IInv, TypeOK
  <2>2. /\ Len(given) + Len(staged) = msg.n /\ msg.coding # "short"
        /\ \A i \in DOMAIN given : given[i] = i
    BY <1>1 DEF IInv, Delivered
  <2>3. Len(given) = msg.n /\ \A i \in 1..msg.n : given[i] = i
    BY <2>1, <2>2
  <2>4. Whole(msg.n) \in Seq(Int) /\ Len(Whole(msg.n)) = msg.n
        /\ \A i \in 1..msg.n : Whole(msg.n)[i] = i
    BY <2>1 DEF Whole
  <2>5. given = Whole(msg.n)
    BY <2>1, <2>3, <2>4, SeqEqual
  <2>6. QED BY <2>2, <2>5
<1>2. IInv => CompleteIsWhole
  BY <1>1 DEF CompleteIsWhole
<1>3. QED BY <1>2, Inductive, PTL

\* zu_resp_read(): what it has handed out so far is the beginning of the body.
THEOREM PulledInOrder == Spec => []HandedInOrder
<1>1. ASSUME IInv, dest = "pull" PROVE IsPrefix(given, Whole(msg.n))
  <2>1. given \in Seq(Int) /\ msg.n \in Nat
    BY <1>1, BodyAssumption DEF IInv, TypeOK
  <2>2. Len(given) <= msg.n /\ \A i \in DOMAIN given : given[i] = i
    BY <1>1 DEF IInv, Delivered
  <2>3. Whole(msg.n) \in Seq(Int) /\ Len(Whole(msg.n)) = msg.n
        /\ \A i \in 1..msg.n : Whole(msg.n)[i] = i
    BY <2>1 DEF Whole
  <2>4. \A i \in 1..Len(given) : given[i] = Whole(msg.n)[i]
    BY <2>1, <2>2, <2>3
  <2>5. QED BY <2>1, <2>2, <2>3, <2>4 DEF IsPrefix
<1>2. IInv => HandedInOrder
  BY <1>1 DEF HandedInOrder
<1>3. QED BY <1>2, Inductive, PTL

\* Section 26.3, zuh_reuse_decide(): a connection goes back to the pool only
\* where its next byte is the first of the next response.
THEOREM ReuseInStep == Spec => []ReusedInStep
<1>1. IInv => ReusedInStep
  BY DEF IInv
<1>2. QED BY <1>1, Inductive, PTL
=============================================================================
