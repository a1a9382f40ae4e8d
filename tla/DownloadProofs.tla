---------------------------- MODULE DownloadProofs ---------------------------
(***************************************************************************)
(* Proofs about Download: for any number of processes, of downloads, one   *)
(* inside another, and of names tried.                                     *)
(***************************************************************************)
EXTENDS Download, SequenceTheorems, TLAPS

\* The names of a process's downloads are its own, and none is the destination.
LEMMA Running ==
  ASSUME IInv, NEW p \in Procs, NEW d \in Downloads, Runs(p, d)
  PROVE  /\ running[p] \in Seq(Downloads) /\ Len(running[p]) \in Nat \ {0}
         /\ d = running[p][Len(running[p])] /\ Len(running[p]) \in DOMAIN running[p]
         /\ dl[d].pc \in Working /\ dl[d].pid = Pid[p]
         /\ Tmp(d) \in Temps /\ Tmp(d) # Dest
<1>1. running[p] \in Seq(Downloads) /\ running[p] # <<>>
  BY DEF IInv, TypeOK, Runs
<1>2. /\ Len(running[p]) \in Nat \ {0} /\ Len(running[p]) \in DOMAIN running[p]
      /\ d = running[p][Len(running[p])]
  BY <1>1 DEF Runs, Last
<1>3. dl[d].pc \in Working /\ dl[d].pid = Pid[p]
  BY <1>2 DEF IInv, Nested
<1>4. dl[d].attempt \in 0..MaxAttempts - 1 /\ Pid[p] # 0
  BY DownloadAssumption DEF IInv, TypeOK
<1>5. Tmp(d) \in Temps /\ Tmp(d) # Dest
  BY <1>3, <1>4 DEF Tmp, Temps, Dest
<1>6. QED BY <1>1, <1>2, <1>3, <1>5

\* Two downloads that are not over, of which one is the innermost of its
\* process, have the same name only if the other one is below it.
LEMMA SameName ==
  ASSUME IInv, NEW p \in Procs, NEW d \in Downloads, Runs(p, d),
         NEW e \in Downloads, e # d, dl[e].pc \in Working, Tmp(e) = Tmp(d)
  PROVE  dl[e].pc = "open"
<1>1. PICK q \in Procs : \E i \in DOMAIN running[q] : running[q][i] = e
  BY DEF IInv, Nested
<1>2. PICK i \in DOMAIN running[q] : running[q][i] = e
  BY <1>1
<1>3. dl[e].pid = Pid[q] /\ dl[e].pid = dl[d].pid
  BY <1>2 DEF IInv, Nested, Tmp
<1>4. q = p
  BY <1>3, Running, DownloadAssumption
<1>5. i \in 1..Len(running[p]) /\ i # Len(running[p])
  BY <1>2, <1>4, Running
<1>6. QED BY <1>2, <1>4, <1>5, Running DEF IInv, Nested

\* So nobody else has a file, or may still remove one, under the name of a
\* download that has its own there or has none.
LEMMA NameIsMine ==
  ASSUME IInv, NEW p \in Procs, NEW d \in Downloads, Runs(p, d), dir[Tmp(d)] \in {d, Absent},
         NEW e \in Downloads, e # d, dl[e].pc \in Working \ {"naming"}
  PROVE  Tmp(e) # Tmp(d)
<1> SUFFICES ASSUME Tmp(e) = Tmp(d) PROVE FALSE
  OBVIOUS
<1>1. dl[e].pc = "open"
  BY SameName
<1>2. dir[Tmp(d)] = e
  BY <1>1 DEF IInv, Holding
<1>3. e # Absent
  BY DEF Downloads, Absent
<1>4. QED BY <1>2, <1>3

\* Where each step leaves the file it works on.
LEMMA MineOrAbsent ==
  ASSUME IInv, NEW d \in Downloads,
         dl[d].pc \in {"open", "flush", "rename", "abort", "again"} \/ (dl[d].pc = "free" /\ dl[d].code # "OK")
  PROVE  dir[Tmp(d)] \in {d, Absent}
  BY DEF IInv, Holding, Working
-----------------------------------------------------------------------------
(***************************************************************************)
(* A step of one download, which stays on top or returns, changes only the *)
(* record of that download, and the directory only under its name and at   *)
(* the destination.                                                        *)
(***************************************************************************)
Stays(p, d, s) == /\ dl' = [dl EXCEPT ![d] = s] /\ UNCHANGED running
                  /\ s.pc \in Working /\ s.pid = dl[d].pid
                  /\ s.pc # "naming" => s.attempt = dl[d].attempt
Leaves(p, d, s) == dl' = [dl EXCEPT ![d] = s] /\ s.pc = "done" /\ running' = [running EXCEPT ![p] = Front(@)]

Sink == [pc : Working \cup {"new", "done"}, pid : Nat, attempt : 0..MaxAttempts - 1, fp : BOOLEAN,
         written : 0..Pieces, disk : 0..Pieces, code : {"none", "OK", "IO", "crashed"}]

\* A sequence without its last element.
LEMMA FrontTyped ==
  ASSUME NEW S, NEW r \in Seq(S), NEW n \in 0..Len(r)
  PROVE  /\ SubSeq(r, 1, n) \in Seq(S) /\ Len(SubSeq(r, 1, n)) = n
         /\ \A i \in 1..n : SubSeq(r, 1, n)[i] = r[i]
  OBVIOUS

LEMMA FreshTyped ==
  /\ Fresh \in Sink
  /\ \A s \in Sink : \A c \in {"none", "OK", "IO", "crashed"} :
       [Fresh EXCEPT !.pc = "done", !.code = c, !.disk = s.disk] \in Sink
<1>1. 0 \in Nat /\ 0 \in 0..MaxAttempts - 1 /\ 0 \in 0..Pieces
  BY DownloadAssumption
<1>2. Fresh \in Sink
  BY <1>1 DEF Fresh, Sink, Working
<1>3. ASSUME NEW s \in Sink, NEW c \in {"none", "OK", "IO", "crashed"}
      PROVE  [Fresh EXCEPT !.pc = "done", !.code = c, !.disk = s.disk] \in Sink
  BY <1>2 DEF Sink, Working
<1>4. QED BY <1>2, <1>3

\* A download of a process that keeps its place keeps the nesting.
LEMMA NestedStays ==
  ASSUME IInv, NEW p \in Procs, NEW d \in Downloads, Runs(p, d), NEW s, Stays(p, d, s)
  PROVE  Nested'
<1>0. dl \in [Downloads -> Sink] /\ running \in [Procs -> Seq(Downloads)]
  BY DEF IInv, TypeOK, Sink
<1>1. dl'[d] = s /\ \A e \in Downloads : e # d => dl'[e] = dl[e]
  BY <1>0 DEF Stays
<1>2. ASSUME NEW q \in Procs, NEW i \in DOMAIN running[q]
      PROVE  /\ dl'[running[q][i]].pc \in Working /\ dl'[running[q][i]].pid = Pid[q]
             /\ i < Len(running[q]) => dl'[running[q][i]].pc = "open"
  <2>1. running[q][i] \in Downloads /\ running[q] \in Seq(Downloads) /\ i \in 1..Len(running[q])
    BY <1>0
  <2>2. CASE running[q][i] # d
    BY <1>1, <2>1, <2>2 DEF IInv, Nested
  <2>3. CASE running[q][i] = d
    <3>1. dl[d].pid = Pid[q] /\ dl[d].pid = Pid[p]
      BY <2>3, Running DEF IInv, Nested
    <3>2. q = p
      BY <3>1, DownloadAssumption
    <3>3. i = Len(running[q])
      BY <2>3, <3>2, Running DEF IInv, Nested
    <3>4. QED BY <1>1, <2>3, <3>1, <3>3, <2>1 DEF Stays
  <2>4. QED BY <2>2, <2>3
<1>3. ASSUME NEW e \in Downloads, dl'[e].pc \in Working
      PROVE  \E q \in Procs : \E i \in DOMAIN running[q] : running[q][i] = e
  <2>1. dl[e].pc \in Working
    BY <1>1, <1>3, Running
  <2>2. QED BY <2>1 DEF IInv, Nested
<1>4. running' = running
  BY DEF Stays
<1>5. \A q \in Procs : \A i, j \in DOMAIN running[q] : running[q][i] = running[q][j] => i = j
  BY DEF IInv, Nested
<1>6. QED BY <1>2, <1>3, <1>4, <1>5 DEF Nested

\* One that returns uncovers the one below it.
LEMMA NestedLeaves ==
  ASSUME IInv, NEW p \in Procs, NEW d \in Downloads, Runs(p, d), NEW s, Leaves(p, d, s)
  PROVE  Nested' /\ running' \in [Procs -> Seq(Downloads)]
<1>0. dl \in [Downloads -> Sink] /\ running \in [Procs -> Seq(Downloads)]
  BY DEF IInv, TypeOK, Sink
<1>1. dl'[d] = s /\ \A e \in Downloads : e # d => dl'[e] = dl[e]
  BY <1>0 DEF Leaves
<1> DEFINE r == running[p]
<1>2. /\ r \in Seq(Downloads) /\ Len(r) \in Nat \ {0} /\ r[Len(r)] = d
      /\ Front(r) \in Seq(Downloads) /\ Len(Front(r)) = Len(r) - 1
      /\ \A i \in 1..Len(r) - 1 : Front(r)[i] = r[i]
  <2>1. r \in Seq(Downloads) /\ Len(r) \in Nat \ {0} /\ r[Len(r)] = d
    BY Running
  <2>2. Front(r) = SubSeq(r, 1, Len(r) - 1)
    BY DEF Front
  <2> HIDE DEF r
  <2>3. Len(r) - 1 \in 0..Len(r)
    BY <2>1
  <2>4. /\ SubSeq(r, 1, Len(r) - 1) \in Seq(Downloads) /\ Len(SubSeq(r, 1, Len(r) - 1)) = Len(r) - 1
        /\ \A i \in 1..Len(r) - 1 : SubSeq(r, 1, Len(r) - 1)[i] = r[i]
    BY <2>1, <2>3, FrontTyped
  <2>5. QED BY <2>1, <2>2, <2>4
<1>3. running' = [running EXCEPT ![p] = Front(r)]
  BY DEF Leaves
<1>4. running'[p] = Front(r) /\ \A q \in Procs : q # p => running'[q] = running[q]
  BY <1>0, <1>3
<1>5. \A q \in Procs : \A i \in DOMAIN running'[q] :
        /\ i \in DOMAIN running[q] /\ running'[q][i] = running[q][i]
        /\ i < Len(running'[q]) => i < Len(running[q])
        /\ q = p => i < Len(r)
  <2>1. ASSUME NEW q \in Procs, NEW i \in DOMAIN running'[q], q = p
        PROVE  /\ i \in DOMAIN running[q] /\ running'[q][i] = running[q][i]
               /\ i < Len(running'[q]) => i < Len(running[q])
               /\ i < Len(r)
    <3>1. i \in 1..Len(r) - 1
      BY <1>2, <1>4, <2>1
    <3> HIDE DEF r
    <3>2. i \in 1..Len(r) /\ i < Len(r) /\ Front(r)[i] = r[i]
      BY <1>2, <3>1
    <3>3. QED BY <1>2, <1>4, <2>1, <3>2 DEF r
  <2>2. QED BY <1>4, <2>1
<1>6. \A q \in Procs : \A i \in DOMAIN running'[q] : running[q][i] # d
  <2>1. ASSUME NEW q \in Procs, NEW i \in DOMAIN running'[q], running[q][i] = d PROVE FALSE
    <3>1. dl[d].pid = Pid[q] /\ dl[d].pid = Pid[p]
      BY <1>5, <2>1, Running DEF IInv, Nested
    <3>2. q = p
      BY <3>1, DownloadAssumption
    <3>3. i < Len(r) /\ i = Len(r)
      BY <1>5, <2>1, <3>2, Running DEF IInv, Nested
    <3>4. QED BY <1>2, <3>3
  <2>2. QED BY <2>1
<1>7. ASSUME NEW q \in Procs, NEW i \in DOMAIN running'[q]
      PROVE  /\ dl'[running'[q][i]].pc \in Working /\ dl'[running'[q][i]].pid = Pid[q]
             /\ i < Len(running'[q]) => dl'[running'[q][i]].pc = "open"
             /\ \A j \in DOMAIN running'[q] : running'[q][i] = running'[q][j] => i = j
  <2>1. running[q][i] \in Downloads
    BY <1>0, <1>5
  <2>2. dl'[running'[q][i]] = dl[running[q][i]]
    BY <1>1, <1>5, <1>6, <2>1
  <2>3. QED BY <1>5, <2>2 DEF IInv, Nested
<1>8. ASSUME NEW e \in Downloads, dl'[e].pc \in Working
      PROVE  \E q \in Procs : \E i \in DOMAIN running'[q] : running'[q][i] = e
  <2>1. e # d /\ dl[e].pc \in Working
    BY <1>1, <1>8 DEF Leaves, Working
  <2>2. PICK q \in Procs : \E i \in DOMAIN running[q] : running[q][i] = e
    BY <2>1 DEF IInv, Nested
  <2>3. PICK i \in DOMAIN running[q] : running[q][i] = e
    BY <2>2
  <2>4. i \in DOMAIN running'[q] /\ running'[q][i] = e
    <3>1. CASE q # p
      BY <1>4, <2>3, <3>1
    <3>2. CASE q = p
      <4>1. i \in 1..Len(r) /\ i # Len(r)
        BY <1>2, <2>1, <2>3, <3>2
      <4> HIDE DEF r
      <4>2. i \in 1..Len(r) - 1 /\ i \in DOMAIN Front(r) /\ Front(r)[i] = r[i]
        BY <1>2, <4>1
      <4>3. QED BY <1>4, <2>3, <3>2, <4>2 DEF r
    <3>3. QED BY <3>1, <3>2
  <2>5. QED BY <2>4
<1>9. running' \in [Procs -> Seq(Downloads)]
  BY <1>0, <1>2, <1>3
<1>10. QED BY <1>7, <1>8, <1>9 DEF Nested
-----------------------------------------------------------------------------
(***************************************************************************)
(* What the steps of a download have in common, beyond its own record: a   *)
(* name is touched only by the download whose file it is or who finds it   *)
(* free, and the destination only by one whose body is on the disk.        *)
(***************************************************************************)
HoldingOf(d) ==
  /\ dl[d].pc \in {"open", "flush", "rename", "abort"} => dir[Tmp(d)] = d
  /\ dl[d].pc \in {"again", "free"} /\ dl[d].code # "OK" => dir[Tmp(d)] \in {d, Absent}
  /\ dl[d].pc = "free" /\ dl[d].code = "OK" => dir[Tmp(d)] # d
  /\ dl[d].pc \in Working \ {"free"} => dl[d].code = "none"

Files == {Absent, Old, Left} \cup Downloads

Touches(d, s) ==
  \/ dir' = dir
  \/ /\ dir[Tmp(d)] \in {d, Absent} /\ dir'[Tmp(d)] \in {d, Absent}
     /\ \A n \in Names \ {Tmp(d), Dest} : dir'[n] = dir[n]
     /\ dir[Tmp(d)] = d => s.pc # dl[d].pc /\ dir'[Tmp(d)] = Absent
     /\ \/ dir'[Dest] = dir[Dest]
        \/ dir'[Dest] = d /\ s.pc = "free" /\ s.disk = Pieces /\ dl[d].code = "none" /\ s.code = "OK"

Shape(d, s) ==
  /\ dl' = [dl EXCEPT ![d] = s] /\ s \in Sink
  /\ dir' \in [Names -> Files] /\ Touches(d, s)
  /\ HoldingOf(d)'
  /\ dir'[Tmp(d)] = d => s.pc \in Working \ {"naming"} /\ s.pid = dl[d].pid /\ s.attempt = dl[d].attempt
  /\ dl[d].pc = "free" => s.pc \in {"free", "done"} /\ s.disk = dl[d].disk
  /\ s.pc = "flush" => s.written = Pieces
  /\ s.pc = "rename" => s.disk = Pieces

LEMMA DestIsNotTemp == Dest \in Names /\ Dest \notin Temps /\ Temps \subseteq Names
  BY DownloadAssumption DEF Names, Dest, Temps

LEMMA TmpIsTemp ==
  ASSUME IInv, NEW e \in Downloads, dl[e].pc \in Working
  PROVE  Tmp(e) \in Temps
<1>1. PICK q \in Procs : \E i \in DOMAIN running[q] : running[q][i] = e
  BY DEF IInv, Nested
<1>2. PICK i \in DOMAIN running[q] : running[q][i] = e
  BY <1>1
<1>3. dl[e].pid = Pid[q]
  BY <1>2 DEF IInv, Nested
<1>4. dl[e].attempt \in 0..MaxAttempts - 1
  BY DEF IInv, TypeOK
<1>5. QED BY <1>3, <1>4 DEF Tmp, Temps

\* Another download's file stays where it is.
LEMMA HoldingKept ==
  ASSUME IInv, NEW p \in Procs, NEW d \in Downloads, Runs(p, d), NEW s, Shape(d, s)
  PROVE  Holding'
<1>1. ASSUME NEW e \in Downloads, e # d PROVE HoldingOf(e)'
  <2>1. dl'[e] = dl[e] /\ Tmp(e)' = Tmp(e)
    BY <1>1 DEF IInv, TypeOK, Shape, Tmp
  <2>2. HoldingOf(e)
    BY DEF IInv, Holding, HoldingOf
  <2>3. CASE dl[e].pc \in Working \ {"naming"}
    <3>1. dir'[Tmp(e)] = dir[Tmp(e)]
      <4>1. Tmp(e) \in Names /\ Tmp(e) # Dest
        BY <2>3, TmpIsTemp, DestIsNotTemp
      <4>2. dir[Tmp(d)] \in {d, Absent} => Tmp(e) # Tmp(d)
        BY <1>1, <2>3, NameIsMine
      <4>3. QED BY <4>1, <4>2 DEF Shape, Touches
    <3>2. QED BY <2>1, <2>2, <3>1 DEF HoldingOf
  <2>4. CASE dl[e].pc \notin Working \ {"naming"}
    BY <2>1, <2>2, <2>4 DEF HoldingOf, Working
  <2>5. QED BY <2>3, <2>4
<1>2. HoldingOf(d)'
  BY DEF Shape
<1>3. \A e \in Downloads : HoldingOf(e)'
  BY <1>1, <1>2
<1>4. QED BY <1>3 DEF Holding, HoldingOf

\* The file under a temporary name is still one that may be there.
LEMMA PlacedKept ==
  ASSUME IInv, NEW p \in Procs, NEW d \in Downloads, Runs(p, d), NEW s, Shape(d, s)
  PROVE  Placed'
<1>0. dl \in [Downloads -> Sink] /\ dl'[d] = s /\ \A e \in Downloads : e # d => dl'[e] = dl[e]
  BY DEF IInv, TypeOK, Sink, Shape
<1>1. dl[d].pc \in Working
  BY Running
<1> SUFFICES ASSUME NEW n \in Temps, dir'[n] \in Downloads
             PROVE  \/ dl'[dir'[n]].pc = "done" /\ dl'[dir'[n]].code = "crashed"
                    \/ dl'[dir'[n]].pc \in Working \ {"naming"} /\ <<dl'[dir'[n]].pid, dl'[dir'[n]].attempt>> = n
  BY DEF Placed, Tmp
<1>2. CASE dir'[n] # d
  <2>1. dir'[n] = dir[n]
    <3>1. n \in Names /\ n # Dest
      BY DestIsNotTemp
    <3>2. Absent \notin Downloads
      BY DEF Absent, Downloads
    <3>3. QED BY <1>2, <3>1, <3>2 DEF Shape, Touches
  <2>2. dl'[dir'[n]] = dl[dir[n]]
    BY <1>0, <1>2, <2>1
  <2>3. QED BY <2>1, <2>2 DEF IInv, Placed, Tmp
<1>3. CASE dir'[n] = d
  <2>1. n = Tmp(d)
    <3>1. CASE dir[n] = d
      BY <1>1, <3>1 DEF IInv, Placed, Working
    <3>2. CASE dir[n] # d
      <4>1. n \in Names /\ n # Dest
        BY DestIsNotTemp
      <4>2. QED BY <1>3, <3>2, <4>1 DEF Shape, Touches
    <3>3. QED BY <3>1, <3>2
  <2>2. s.pc \in Working \ {"naming"} /\ s.pid = dl[d].pid /\ s.attempt = dl[d].attempt
    BY <1>3, <2>1 DEF Shape
  <2>3. <<s.pid, s.attempt>> = n
    BY <2>1, <2>2 DEF Tmp
  <2>4. QED BY <1>0, <1>3, <2>2, <2>3
<1>4. QED BY <1>2, <1>3

\* The destination is still whole.
LEMMA WholeKept ==
  ASSUME IInv, NEW p \in Procs, NEW d \in Downloads, Runs(p, d), NEW s, Shape(d, s)
  PROVE  Whole'
<1>0. dl \in [Downloads -> Sink] /\ dl'[d] = s /\ \A e \in Downloads : e # d => dl'[e] = dl[e]
  BY DEF IInv, TypeOK, Sink, Shape
<1>1. dl[d].pc \in Working /\ Tmp(d) # Dest
  BY Running
<1>2. \/ dir'[Dest] = dir[Dest]
      \/ dir'[Dest] = d /\ s.pc = "free" /\ s.disk = Pieces
  BY DEF Shape, Touches
<1>3. dir'[Dest] # Left
  BY <1>2 DEF IInv, Whole, Left, Downloads
<1>4. ASSUME dir'[Dest] \in Downloads
      PROVE  dl'[dir'[Dest]].pc \in {"free", "done"} /\ dl'[dir'[Dest]].disk = Pieces
  <2>1. CASE dir'[Dest] # d
    BY <1>0, <1>2, <1>4, <2>1 DEF IInv, Whole
  <2>2. CASE dir'[Dest] = d /\ dir[Dest] = d
    <3>1. dl[d].pc = "free" /\ dl[d].disk = Pieces
      BY <1>1, <2>2 DEF IInv, Whole, Working
    <3>2. s.pc \in {"free", "done"} /\ s.disk = Pieces
      BY <3>1 DEF Shape
    <3>3. QED BY <1>0, <2>2, <3>2
  <2>3. CASE dir'[Dest] = d /\ dir[Dest] # d
    BY <1>0, <1>2, <2>3
  <2>4. QED BY <2>1, <2>2, <2>3
<1>5. ASSUME NEW e \in Downloads
      PROVE  /\ dl'[e].pc = "flush" => dl'[e].written = Pieces
             /\ dl'[e].pc = "rename" => dl'[e].disk = Pieces
  <2>1. CASE e = d
    BY <1>0, <2>1 DEF Shape
  <2>2. CASE e # d
    BY <1>0, <2>2 DEF IInv, Whole
  <2>3. QED BY <2>1, <2>2
<1>6. QED BY <1>3, <1>4, <1>5 DEF Whole

LEMMA StepKeeps ==
  ASSUME IInv, NEW p \in Procs, NEW d \in Downloads, Runs(p, d), NEW s, Shape(d, s),
         Stays(p, d, s) \/ Leaves(p, d, s)
  PROVE  IInv'
<1>1. Nested' /\ running' \in [Procs -> Seq(Downloads)]
  <2>1. CASE Stays(p, d, s)
    BY <2>1, NestedStays DEF Stays, IInv, TypeOK
  <2>2. CASE Leaves(p, d, s)
    BY <2>2, NestedLeaves
  <2>3. QED BY <2>1, <2>2
<1>2. TypeOK'
  BY <1>1 DEF IInv, TypeOK, Shape, Sink, Files
<1>3. QED BY <1>1, <1>2, HoldingKept, PlacedKept, WholeKept DEF IInv
-----------------------------------------------------------------------------
(***************************************************************************)
(* Each step of a download has that shape.                                 *)
(***************************************************************************)
Steps(p, d) ==
  Create(p, d) \/ Write(p, d) \/ Performed(p, d) \/ Flush(p, d) \/ Rename(p, d) \/ Abort(p, d) \/ Free(p, d)

\* A step that leaves the directory alone.
LEMMA DirAlone ==
  ASSUME IInv, NEW p \in Procs, NEW d \in Downloads, Runs(p, d), UNCHANGED dir,
         NEW s \in Sink, dl' = [dl EXCEPT ![d] = s],
         s.pid = dl[d].pid /\ s.attempt = dl[d].attempt /\ dl[d].pc # "naming" /\ s.pc \in Working \ {"naming"},
         s.code = "none", dl[d].code = "none",
         dl[d].pc \in {"open", "flush", "rename"},
         s.pc = "flush" => s.written = Pieces, s.pc = "rename" => s.disk = Pieces
  PROVE  Shape(d, s)
<1>1. dir' = dir /\ dl'[d] = s /\ dir \in [Names -> Files]
  BY DEF IInv, TypeOK, Files
<1>2. Tmp(d)' = Tmp(d)
  BY <1>1 DEF Tmp
<1>3. HoldingOf(d)'
  BY <1>1, <1>2 DEF IInv, Holding, HoldingOf
<1>4. QED BY <1>1, <1>3 DEF Shape, Touches

\* One that ends with nothing under its name, and the destination as it was.
LEMMA Removes ==
  ASSUME IInv, NEW p \in Procs, NEW d \in Downloads, Runs(p, d),
         dl[d].pc \in {"abort", "again"} \/ (dl[d].pc = "free" /\ dl[d].code # "OK"),
         dir' = [dir EXCEPT ![Tmp(d)] = Absent],
         NEW s \in Sink, dl' = [dl EXCEPT ![d] = s], s.pc # dl[d].pc, s.pc \in {"again", "free", "done"},
         s.pc # "done" => s.code = "none" /\ s.pid = dl[d].pid /\ s.attempt = dl[d].attempt,
         dl[d].pc = "free" => s.pc = "done" /\ s.disk = dl[d].disk
  PROVE  Shape(d, s)
<1>0. dir \in [Names -> Files] /\ dl \in [Downloads -> Sink]
  BY DEF IInv, TypeOK, Files, Sink
<1>1. Tmp(d) \in Names /\ Tmp(d) # Dest /\ Dest \in Names
  BY Running, DestIsNotTemp
<1>2. dir[Tmp(d)] \in {d, Absent}
  BY MineOrAbsent
<1>3. /\ dir'[Tmp(d)] = Absent /\ \A n \in Names \ {Tmp(d)} : dir'[n] = dir[n]
      /\ dir' \in [Names -> Files] /\ dl'[d] = s
  BY <1>0, <1>1 DEF Files
<1>4. Absent # d
  BY DEF Absent, Downloads
<1>5. Touches(d, s)
  BY <1>1, <1>2, <1>3 DEF Touches
<1>6. HoldingOf(d)'
  <2>1. CASE s.pc = "done"
    BY <1>3, <2>1 DEF HoldingOf, Working
  <2>2. CASE s.pc # "done"
    <3>1. Tmp(d)' = Tmp(d)
      BY <1>3, <2>2 DEF Tmp
    <3>2. QED BY <1>3, <2>2, <3>1 DEF HoldingOf
  <2>3. QED BY <2>1, <2>2
<1>7. QED BY <1>3, <1>4, <1>5, <1>6 DEF Shape

LEMMA CreateShape ==
  ASSUME IInv, NEW p \in Procs, NEW d \in Downloads, Create(p, d)
  PROVE  \E s : Shape(d, s) /\ (Stays(p, d, s) \/ Leaves(p, d, s))
<1>0. /\ dir \in [Names -> Files] /\ dl \in [Downloads -> Sink] /\ dl[d] \in Sink
      /\ Runs(p, d) /\ dl[d].pc = "naming" /\ dl[d].code = "none"
  BY DEF IInv, TypeOK, Files, Sink, Create, Holding, Working
<1>1. Tmp(d) \in Names /\ Tmp(d) # Dest /\ Dest \in Names
  BY <1>0, Running, DestIsNotTemp
<1>2. dir[Tmp(d)] # d
  <2>1. Tmp(d) \in Temps
    BY <1>0, Running
  <2>2. QED BY <1>0, <2>1 DEF IInv, Placed
<1>3. CASE /\ dir[Tmp(d)] = Absent /\ dir' = [dir EXCEPT ![Tmp(d)] = d]
           /\ Goes(d, [dl[d] EXCEPT !.pc = "open", !.fp = TRUE]) /\ UNCHANGED running
  <2> DEFINE s == [dl[d] EXCEPT !.pc = "open", !.fp = TRUE]
  <2>1. /\ s \in Sink /\ s.pc = "open" /\ s.pid = dl[d].pid /\ s.attempt = dl[d].attempt /\ s.code = "none"
    BY <1>0 DEF Sink, Working
  <2>2. dl' = [dl EXCEPT ![d] = s]
    BY <1>3 DEF Goes
  <2> HIDE DEF s
  <2>3. /\ dir'[Tmp(d)] = d /\ dir' \in [Names -> Files] /\ dl'[d] = s
        /\ \A n \in Names \ {Tmp(d)} : dir'[n] = dir[n]
    BY <1>0, <1>1, <1>3, <2>2 DEF Files
  <2>4. Tmp(d)' = Tmp(d)
    BY <2>1, <2>3 DEF Tmp
  <2>5. HoldingOf(d)'
    BY <2>1, <2>3, <2>4 DEF HoldingOf
  <2>6. Touches(d, s)
    BY <1>1, <1>2, <1>3, <2>3 DEF Touches
  <2>7. Shape(d, s)
    BY <1>0, <2>1, <2>2, <2>3, <2>5, <2>6 DEF Shape, Working
  <2>8. Stays(p, d, s)
    BY <1>3, <2>1, <2>2 DEF Stays, Working
  <2>9. QED BY <2>7, <2>8
<1>4. CASE /\ dl[d].attempt + 1 < MaxAttempts
           /\ Goes(d, [dl[d] EXCEPT !.attempt = @ + 1]) /\ UNCHANGED <<dir, running>>
  <2> DEFINE s == [dl[d] EXCEPT !.attempt = @ + 1]
  <2>1. s \in Sink /\ s.pc = "naming" /\ s.pid = dl[d].pid /\ s.code = "none"
    BY <1>0, <1>4, DownloadAssumption DEF Sink
  <2>2. dl' = [dl EXCEPT ![d] = s]
    BY <1>4 DEF Goes
  <2> HIDE DEF s
  <2>3. dl'[d] = s
    BY <1>0, <2>2
  <2>4. HoldingOf(d)'
    BY <2>1, <2>3 DEF HoldingOf
  <2>5. Shape(d, s)
    BY <1>0, <1>2, <1>4, <2>1, <2>2, <2>4 DEF Shape, Touches
  <2>6. Stays(p, d, s)
    BY <1>4, <2>1, <2>2 DEF Stays, Working
  <2>7. QED BY <2>5, <2>6
<1>5. CASE Returns(p, d, "IO") /\ UNCHANGED dir
  <2> DEFINE s == [Fresh EXCEPT !.pc = "done", !.code = "IO", !.disk = dl[d].disk]
  <2>1. s \in Sink
    BY <1>0, FreshTyped
  <2>2. s.pc = "done"
    BY DEF Fresh
  <2>3. dl' = [dl EXCEPT ![d] = s] /\ running' = [running EXCEPT ![p] = Front(@)]
    BY <1>5 DEF Returns, Goes
  <2> HIDE DEF s
  <2>4. dl'[d] = s
    BY <1>0, <2>3
  <2>5. HoldingOf(d)'
    BY <2>2, <2>4 DEF HoldingOf, Working
  <2>6. Shape(d, s)
    BY <1>0, <1>2, <1>5, <2>1, <2>2, <2>3, <2>5 DEF Shape, Touches
  <2>7. QED BY <2>2, <2>3, <2>6 DEF Leaves
<1>6. QED BY <1>3, <1>4, <1>5 DEF Create

LEMMA WriteShape ==
  ASSUME IInv, NEW p \in Procs, NEW d \in Downloads, Write(p, d) \/ Performed(p, d) \/ Flush(p, d)
  PROVE  \E s : Shape(d, s) /\ (Stays(p, d, s) \/ Leaves(p, d, s))
<1>0. dl[d] \in Sink /\ Runs(p, d) /\ dl[d].pc \in {"open", "flush"} /\ dl[d].code = "none" /\ UNCHANGED <<dir, running>>
  BY DEF IInv, TypeOK, Sink, Write, Performed, Flush, Holding, Working
<1>1. PICK s \in Sink : /\ dl' = [dl EXCEPT ![d] = s] /\ s.pc \in {"open", "flush", "abort", "rename", "again"}
                        /\ s.pid = dl[d].pid /\ s.attempt = dl[d].attempt /\ s.code = "none"
                        /\ s.pc = "flush" => s.written = Pieces
                        /\ s.pc = "rename" => s.disk = Pieces
  <2>1. CASE Write(p, d)
    <3>1. PICK disk \in dl[d].disk..(dl[d].written + 1) :
             Goes(d, [dl[d] EXCEPT !.written = @ + 1, !.disk = disk])
      BY <2>1 DEF Write
    <3>2. disk \in 0..Pieces /\ dl[d].written + 1 \in 0..Pieces
      <4>1. dl[d].disk \in 0..Pieces /\ dl[d].written \in 0..Pieces /\ dl[d].written < Pieces /\ Pieces \in Nat
        BY <1>0, <2>1, DownloadAssumption DEF Write, Sink
      <4>2. QED BY <4>1
    <3>3. [dl[d] EXCEPT !.written = @ + 1, !.disk = disk] \in Sink
      BY <1>0, <3>2 DEF Sink
    <3>4. dl[d].pc = "open"
      BY <2>1 DEF Write
    <3>5. QED BY <1>0, <3>1, <3>3, <3>4 DEF Goes, Sink
  <2>2. CASE Performed(p, d)
    <3>1. CASE dl[d].written = Pieces /\ Goes(d, [dl[d] EXCEPT !.pc = "flush"])
      <4>1. [dl[d] EXCEPT !.pc = "flush"] \in Sink
        BY <1>0 DEF Sink, Working
      <4>2. QED BY <1>0, <3>1, <4>1 DEF Goes, Sink
    <3>2. CASE Goes(d, [dl[d] EXCEPT !.pc = "abort"])
      <4>1. [dl[d] EXCEPT !.pc = "abort"] \in Sink
        BY <1>0 DEF Sink, Working
      <4>2. QED BY <1>0, <3>2, <4>1 DEF Goes, Sink
    <3>3. QED BY <2>2, <3>1, <3>2 DEF Performed
  <2>3. CASE Flush(p, d)
    <3>1. dl[d].written = Pieces /\ Pieces \in 0..Pieces
      BY <2>3, DownloadAssumption DEF Flush, IInv, Whole
    <3>2. CASE Goes(d, [dl[d] EXCEPT !.pc = "rename", !.fp = FALSE, !.disk = dl[d].written])
      <4>1. [dl[d] EXCEPT !.pc = "rename", !.fp = FALSE, !.disk = dl[d].written] \in Sink
        BY <1>0, <3>1 DEF Sink, Working
      <4>2. QED BY <1>0, <3>1, <3>2, <4>1 DEF Goes, Sink
    <3>3. CASE Goes(d, [dl[d] EXCEPT !.pc = "again", !.fp = FALSE])
      <4>1. [dl[d] EXCEPT !.pc = "again", !.fp = FALSE] \in Sink
        BY <1>0 DEF Sink, Working
      <4>2. QED BY <1>0, <3>3, <4>1 DEF Goes, Sink
    <3>4. QED BY <2>3, <3>2, <3>3 DEF Flush
  <2>4. QED BY <2>1, <2>2, <2>3
<1>2. Shape(d, s)
  BY <1>0, <1>1, DirAlone DEF Working
<1>3. Stays(p, d, s)
  BY <1>0, <1>1 DEF Stays, Working
<1>4. QED BY <1>2, <1>3

LEMMA RenameShape ==
  ASSUME IInv, NEW p \in Procs, NEW d \in Downloads, Rename(p, d)
  PROVE  \E s : Shape(d, s) /\ (Stays(p, d, s) \/ Leaves(p, d, s))
<1>0. /\ dir \in [Names -> Files] /\ dl \in [Downloads -> Sink] /\ dl[d] \in Sink
      /\ Runs(p, d) /\ dl[d].pc = "rename" /\ dl[d].code = "none" /\ dl[d].disk = Pieces /\ dir[Tmp(d)] = d
  BY DEF IInv, TypeOK, Files, Sink, Rename, Holding, Whole, Working
<1>1. Tmp(d) \in Names /\ Tmp(d) # Dest /\ Dest \in Names
  BY <1>0, Running, DestIsNotTemp
<1>2. CASE /\ dir' = [dir EXCEPT ![Dest] = dir[Tmp(d)], ![Tmp(d)] = Absent]
           /\ Goes(d, [dl[d] EXCEPT !.pc = "free", !.code = "OK"]) /\ UNCHANGED running
  <2> DEFINE s == [dl[d] EXCEPT !.pc = "free", !.code = "OK"]
  <2>1. s \in Sink
    BY <1>0 DEF Sink, Working
  <2>2. /\ s.pc = "free" /\ s.code = "OK" /\ s.pid = dl[d].pid /\ s.attempt = dl[d].attempt
        /\ s.disk = Pieces
    BY <1>0 DEF Sink
  <2>3. dl' = [dl EXCEPT ![d] = s]
    BY <1>2 DEF Goes
  <2> HIDE DEF s
  <2>4. /\ dir'[Tmp(d)] = Absent /\ dir'[Dest] = d /\ dir' \in [Names -> Files] /\ dl'[d] = s
        /\ \A n \in Names \ {Tmp(d), Dest} : dir'[n] = dir[n]
    BY <1>0, <1>1, <1>2, <2>3 DEF Files
  <2>5. Tmp(d)' = Tmp(d) /\ Absent # d
    BY <2>2, <2>4 DEF Tmp, Absent, Downloads
  <2>6. HoldingOf(d)'
    BY <2>2, <2>4, <2>5 DEF HoldingOf, Working
  <2>7. Touches(d, s)
    BY <1>0, <2>2, <2>4 DEF Touches
  <2>8. Shape(d, s)
    BY <1>0, <2>1, <2>2, <2>3, <2>4, <2>5, <2>6, <2>7 DEF Shape
  <2>9. Stays(p, d, s)
    BY <1>2, <2>2, <2>3 DEF Stays, Working
  <2>10. QED BY <2>8, <2>9
<1>3. CASE UNCHANGED <<dir, running>> /\ Goes(d, [dl[d] EXCEPT !.pc = "again"])
  <2> DEFINE s == [dl[d] EXCEPT !.pc = "again"]
  <2>1. s \in Sink
    BY <1>0 DEF Sink, Working
  <2>2. s.pc = "again" /\ s.code = "none" /\ s.pid = dl[d].pid /\ s.attempt = dl[d].attempt
    BY <1>0 DEF Sink
  <2>3. dl' = [dl EXCEPT ![d] = s]
    BY <1>3 DEF Goes
  <2> HIDE DEF s
  <2>4. Shape(d, s)
    BY <1>0, <1>3, <2>1, <2>2, <2>3, DirAlone DEF Working
  <2>5. Stays(p, d, s)
    BY <1>3, <2>2, <2>3 DEF Stays, Working
  <2>6. QED BY <2>4, <2>5
<1>4. QED BY <1>2, <1>3 DEF Rename

LEMMA AbortShape ==
  ASSUME IInv, NEW p \in Procs, NEW d \in Downloads, Abort(p, d)
  PROVE  \E s : Shape(d, s) /\ (Stays(p, d, s) \/ Leaves(p, d, s))
<1>0. dl[d] \in Sink /\ Runs(p, d) /\ dl[d].pc \in {"abort", "again"} /\ dl[d].code = "none" /\ UNCHANGED running
  BY DEF IInv, TypeOK, Sink, Abort, Holding, Working
<1>1. dir' = [dir EXCEPT ![Tmp(d)] = Absent]
  BY <1>0 DEF Abort, Cleanup
<1>2. PICK next \in IF dl[d].pc = "abort" THEN {"again", "free"} ELSE {"free"} :
        Goes(d, [dl[d] EXCEPT !.pc = next, !.fp = FALSE])
  BY DEF Abort
<1> DEFINE s == [dl[d] EXCEPT !.pc = next, !.fp = FALSE]
<1>3. next \in {"again", "free"} /\ next # dl[d].pc
  BY <1>0, <1>2
<1>4. s \in Sink
  BY <1>0, <1>3 DEF Sink, Working
<1>5. s.pc = next /\ s.code = "none" /\ s.pid = dl[d].pid /\ s.attempt = dl[d].attempt
  BY <1>0 DEF Sink
<1>6. dl' = [dl EXCEPT ![d] = s]
  BY <1>2 DEF Goes
<1> HIDE DEF s
<1>7. Shape(d, s)
  BY <1>0, <1>1, <1>3, <1>4, <1>5, <1>6, Removes
<1>8. Stays(p, d, s)
  BY <1>0, <1>3, <1>5, <1>6 DEF Stays, Working
<1>9. QED BY <1>7, <1>8

LEMMA FreeShape ==
  ASSUME IInv, NEW p \in Procs, NEW d \in Downloads, Free(p, d)
  PROVE  \E s : Shape(d, s) /\ (Stays(p, d, s) \/ Leaves(p, d, s))
<1>0. /\ dir \in [Names -> Files] /\ dl \in [Downloads -> Sink] /\ dl[d] \in Sink
      /\ Runs(p, d) /\ dl[d].pc = "free"
  BY DEF IInv, TypeOK, Files, Sink, Free
<1> DEFINE c == IF dl[d].code = "OK" THEN "OK" ELSE "IO"
           s == [Fresh EXCEPT !.pc = "done", !.code = c, !.disk = dl[d].disk]
<1>1. s \in Sink
  BY <1>0, FreshTyped
<1>2. s.pc = "done" /\ s.disk = dl[d].disk
  BY DEF Fresh
<1>3. dl' = [dl EXCEPT ![d] = s] /\ running' = [running EXCEPT ![p] = Front(@)]
  BY DEF Free, Returns, Goes
<1> HIDE DEF s
<1>4. Shape(d, s)
  <2>1. CASE dl[d].code # "OK"
    <3>1. dir' = [dir EXCEPT ![Tmp(d)] = Absent]
      BY <2>1 DEF Free, Cleanup
    <3>2. QED BY <1>0, <1>1, <1>2, <1>3, <2>1, <3>1, Removes
  <2>2. CASE dl[d].code = "OK"
    <3>1. dir' = dir /\ dir[Tmp(d)] # d
      BY <1>0, <2>2 DEF Free, Cleanup, IInv, Holding
    <3>2. dl'[d] = s
      BY <1>0, <1>3
    <3>3. HoldingOf(d)'
      BY <1>2, <3>2 DEF HoldingOf, Working
    <3>4. QED BY <1>0, <1>1, <1>2, <1>3, <3>1, <3>3 DEF Shape, Touches
  <2>3. QED BY <2>1, <2>2
<1>5. QED BY <1>2, <1>3, <1>4 DEF Leaves

LEMMA StepsShape ==
  ASSUME IInv, NEW p \in Procs, NEW d \in Downloads, Steps(p, d)
  PROVE  Runs(p, d) /\ \E s : Shape(d, s) /\ (Stays(p, d, s) \/ Leaves(p, d, s))
<1>1. Runs(p, d)
  BY DEF Steps, Create, Write, Performed, Flush, Rename, Abort, Free
<1>2. QED BY <1>1, CreateShape, WriteShape, RenameShape, AbortShape, FreeShape DEF Steps
-----------------------------------------------------------------------------
(***************************************************************************)
(* A download that starts comes on top of one that is open; a process that *)
(* dies takes all of its downloads with it.                                *)
(***************************************************************************)
LEMMA StartKeeps ==
  ASSUME IInv, NEW p \in Procs, Start(p)
  PROVE  IInv'
<1> DEFINE r == running[p]
<1>0. /\ dir \in [Names -> Files] /\ dl \in [Downloads -> Sink] /\ running \in [Procs -> Seq(Downloads)]
      /\ r \in Seq(Downloads) /\ Len(r) \in Nat /\ UNCHANGED dir /\ Pid[p] \in Nat
  BY DownloadAssumption DEF IInv, TypeOK, Files, Sink, Start
<1>1. PICK d \in Downloads : /\ dl[d].pc = "new" /\ Goes(d, [Fresh EXCEPT !.pc = "naming", !.pid = Pid[p]])
                             /\ running' = [running EXCEPT ![p] = Append(@, d)]
  BY DEF Start
<1> DEFINE s == [Fresh EXCEPT !.pc = "naming", !.pid = Pid[p]]
<1>2. s \in Sink
  BY <1>0, FreshTyped DEF Sink, Working
<1>3. s.pc = "naming" /\ s.pid = Pid[p] /\ s.code = "none"
  BY DEF Fresh
<1>4. dl' = [dl EXCEPT ![d] = s] /\ running' = [running EXCEPT ![p] = Append(r, d)]
  BY <1>1 DEF Goes
<1> HIDE DEF s
<1>5. dl'[d] = s /\ \A e \in Downloads : e # d => dl'[e] = dl[e]
  BY <1>0, <1>4
<1>6. /\ Append(r, d) \in Seq(Downloads) /\ DOMAIN Append(r, d) = 1..Len(r) + 1
      /\ Len(Append(r, d)) = Len(r) + 1
      /\ Append(r, d)[Len(r) + 1] = d /\ \A i \in 1..Len(r) : Append(r, d)[i] = r[i]
  <2> HIDE DEF r
  <2>1. QED BY <1>0
<1>7. running'[p] = Append(r, d) /\ \A q \in Procs : q # p => running'[q] = running[q]
  BY <1>0, <1>4
<1>8. \A q \in Procs : \A i \in DOMAIN running[q] : running[q][i] # d
  BY <1>1 DEF IInv, Nested, Working
<1>9. \A i \in 1..Len(r) : dl[r[i]].pc = "open" /\ r[i] \in Downloads
  <2>1. ASSUME NEW i \in 1..Len(r) PROVE dl[r[i]].pc = "open" /\ r[i] \in Downloads
    <3>1. r # <<>> /\ i \in DOMAIN running[p]
      BY <1>0, <2>1
    <3>2. dl[r[Len(r)]].pc = "open"
      BY <3>1 DEF Start, Last
    <3>3. i < Len(r) \/ i = Len(r)
      BY <1>0, <2>1
    <3>4. QED BY <1>0, <3>1, <3>2, <3>3 DEF IInv, Nested
  <2>2. QED BY <2>1
<1>10. ASSUME NEW q \in Procs, NEW i \in DOMAIN running'[q]
       PROVE  /\ dl'[running'[q][i]].pc \in Working /\ dl'[running'[q][i]].pid = Pid[q]
              /\ i < Len(running'[q]) => dl'[running'[q][i]].pc = "open"
              /\ \A j \in DOMAIN running'[q] : running'[q][i] = running'[q][j] => i = j
  <2>1. CASE q # p
    <3>1. running'[q] = running[q] /\ running[q][i] \in Downloads /\ i \in DOMAIN running[q]
      BY <1>0, <1>7, <1>10, <2>1
    <3>2. dl'[running[q][i]] = dl[running[q][i]]
      BY <1>5, <1>8, <3>1
    <3>3. QED BY <3>1, <3>2 DEF IInv, Nested
  <2>2. CASE q = p /\ i = Len(r) + 1
    <3>1. running'[q][i] = d /\ Len(running'[q]) = i
      BY <1>6, <1>7, <2>2
    <3>2. \A j \in DOMAIN running'[q] : running'[q][j] = d => j = i
      <4>1. ASSUME NEW j \in 1..Len(r) PROVE Append(r, d)[j] # d
        BY <1>6, <1>8, <1>0
      <4>2. \A j \in 1..Len(r) + 1 : j \in 1..Len(r) \/ j = i
        BY <1>0, <2>2
      <4>3. QED BY <1>6, <1>7, <2>2, <4>1, <4>2
    <3>3. ~(i < Len(running'[q]))
      BY <1>0, <2>2, <3>1
    <3>4. QED BY <1>3, <1>5, <2>2, <3>1, <3>2, <3>3 DEF Working
  <2>3. CASE q = p /\ i \in 1..Len(r)
    <3>1. running'[q][i] = r[i] /\ r[i] \in Downloads /\ r[i] # d /\ i \in DOMAIN running[p]
      BY <1>0, <1>6, <1>7, <1>8, <2>3
    <3>2. dl'[r[i]] = dl[r[i]] /\ dl[r[i]].pc = "open" /\ dl[r[i]].pid = Pid[q]
      BY <1>5, <1>9, <2>3, <3>1 DEF IInv, Nested
    <3>3. \A j \in DOMAIN running'[q] : running'[q][j] = r[i] => i = j
      <4>1. ASSUME NEW j \in 1..Len(r), Append(r, d)[j] = r[i] PROVE i = j
        <5>1. r[j] = r[i] /\ j \in DOMAIN running[p]
          BY <1>0, <1>6, <4>1
        <5>2. QED BY <3>1, <5>1 DEF IInv, Nested
      <4>2. \A j \in 1..Len(r) + 1 : j \in 1..Len(r) \/ j = Len(r) + 1
        BY <1>0
      <4>3. QED BY <1>6, <1>7, <2>3, <3>1, <4>1, <4>2
    <3>4. QED BY <3>1, <3>2, <3>3 DEF Working
  <2>4. q = p => i = Len(r) + 1 \/ i \in 1..Len(r)
    <3>1. q = p => i \in 1..Len(r) + 1
      BY <1>6, <1>7, <1>10
    <3>2. QED BY <1>0, <3>1
  <2>5. QED BY <2>1, <2>2, <2>3, <2>4
<1>11. ASSUME NEW e \in Downloads, dl'[e].pc \in Working
       PROVE  \E q \in Procs : \E i \in DOMAIN running'[q] : running'[q][i] = e
  <2>1. CASE e = d
    <3>1. Len(r) + 1 \in DOMAIN running'[p] /\ running'[p][Len(r) + 1] = e
      BY <1>0, <1>6, <1>7, <2>1
    <3>2. QED BY <3>1
  <2>2. CASE e # d
    <3>1. PICK q \in Procs : \E i \in DOMAIN running[q] : running[q][i] = e
      BY <1>5, <1>11, <2>2 DEF IInv, Nested
    <3>2. PICK i \in DOMAIN running[q] : running[q][i] = e
      BY <3>1
    <3>3. i \in DOMAIN running'[q] /\ running'[q][i] = e
      <4>1. CASE q # p
        BY <1>7, <3>2, <4>1
      <4>2. CASE q = p
        <5>1. i \in 1..Len(r) /\ i \in 1..Len(r) + 1
          BY <1>0, <4>2
        <5>2. QED BY <1>6, <1>7, <3>2, <4>2, <5>1
      <4>3. QED BY <4>1, <4>2
    <3>4. QED BY <3>3
  <2>3. QED BY <2>1, <2>2
<1>12. Nested'
  BY <1>10, <1>11 DEF Nested
<1>13. TypeOK'
  <2>1. dl' \in [Downloads -> Sink] /\ running' \in [Procs -> Seq(Downloads)] /\ dir' \in [Names -> Files]
    BY <1>0, <1>2, <1>4, <1>6
  <2>2. QED BY <2>1 DEF TypeOK, Sink, Files
<1>14. Holding'
  <2>1. ASSUME NEW e \in Downloads PROVE HoldingOf(e)'
    <3>1. CASE e = d
      BY <1>3, <1>5, <3>1 DEF HoldingOf
    <3>2. CASE e # d
      BY <1>0, <1>5, <3>2 DEF IInv, Holding, HoldingOf, Tmp
    <3>3. QED BY <3>1, <3>2
  <2>2. QED BY <2>1 DEF Holding, HoldingOf
<1>15. Placed'
  <2>1. \A n \in Temps : dir[n] \in Downloads => dir[n] # d
    BY <1>1 DEF IInv, Placed, Working
  <2>2. QED BY <1>0, <1>5, <2>1 DEF IInv, Placed, Tmp
<1>16. Whole'
  <2>1. dir[Dest] \in Downloads => dir[Dest] # d
    BY <1>1 DEF IInv, Whole
  <2>2. QED BY <1>0, <1>3, <1>5, <2>1 DEF IInv, Whole
<1>17. QED BY <1>12, <1>13, <1>14, <1>15, <1>16 DEF IInv

LEMMA CrashKeeps ==
  ASSUME IInv, NEW p \in Procs, Crash(p)
  PROVE  IInv'
<1> DEFINE Dies(e) == \E i \in DOMAIN running[p] : running[p][i] = e
<1>0. /\ dl \in [Downloads -> Sink] /\ running \in [Procs -> Seq(Downloads)] /\ UNCHANGED dir
      /\ dir \in [Names -> Files]
  BY DEF IInv, TypeOK, Sink, Crash, Files
<1>1. ASSUME NEW e \in Downloads
      PROVE  dl'[e] = IF ~Dies(e) THEN dl[e]
                      ELSE [Fresh EXCEPT !.pc = "done", !.code = "crashed", !.disk = dl[e].disk]
  <2>1. Contains(running[p], e) <=> Dies(e)
    <3>1. DOMAIN running[p] = 1..Len(running[p])
      BY <1>0
    <3>2. QED BY <3>1 DEF Contains
  <2> HIDE DEF Dies
  <2>2. QED BY <2>1 DEF Crash
<1>2. ASSUME NEW e \in Downloads, ~Dies(e) PROVE dl'[e] = dl[e]
  BY <1>1, <1>2
<1>3. ASSUME NEW e \in Downloads, Dies(e)
      PROVE  dl'[e].pc = "done" /\ dl'[e].code = "crashed" /\ dl'[e].disk = dl[e].disk /\ dl'[e] \in Sink
  <2>1. dl'[e] = [Fresh EXCEPT !.pc = "done", !.code = "crashed", !.disk = dl[e].disk]
    BY <1>1, <1>3
  <2>2. QED BY <1>0, <2>1, FreshTyped DEF Fresh
<1>4. dl' \in [Downloads -> Sink]
  <2>1. \A e \in Downloads : dl'[e] \in Sink
    BY <1>0, <1>2, <1>3
  <2>2. QED BY <2>1 DEF Crash
<1>5. running'[p] = <<>> /\ running' \in [Procs -> Seq(Downloads)] /\ \A q \in Procs : q # p => running'[q] = running[q]
  <2>1. running' = [running EXCEPT ![p] = <<>>]
    BY DEF Crash
  <2>2. <<>> \in Seq(Downloads)
    OBVIOUS
  <2>3. running'[p] = <<>> /\ \A q \in Procs : q # p => running'[q] = running[q]
    BY <1>0, <2>1
  <2>4. QED BY <1>0, <2>1, <2>2, <2>3
<1>6. \A q \in Procs : q # p => \A i \in DOMAIN running[q] : ~Dies(running[q][i])
  BY DownloadAssumption DEF IInv, Nested
<1>7. \A e \in Downloads : Dies(e) => dl[e].pc \in Working
  BY DEF IInv, Nested
<1> HIDE DEF Dies
<1>8. ASSUME NEW q \in Procs, NEW i \in DOMAIN running'[q]
      PROVE  /\ dl'[running'[q][i]].pc \in Working /\ dl'[running'[q][i]].pid = Pid[q]
             /\ i < Len(running'[q]) => dl'[running'[q][i]].pc = "open"
             /\ \A j \in DOMAIN running'[q] : running'[q][i] = running'[q][j] => i = j
  <2>1. q # p /\ running'[q] = running[q] /\ running[q][i] \in Downloads /\ i \in DOMAIN running[q]
    BY <1>0, <1>5, <1>8
  <2>2. dl'[running[q][i]] = dl[running[q][i]]
    BY <1>2, <1>6, <2>1
  <2>3. QED BY <2>1, <2>2 DEF IInv, Nested
<1>9. ASSUME NEW e \in Downloads, dl'[e].pc \in Working
      PROVE  \E q \in Procs : \E i \in DOMAIN running'[q] : running'[q][i] = e
  <2>1. ~Dies(e) /\ dl[e].pc \in Working
    BY <1>2, <1>3, <1>9 DEF Working
  <2>2. PICK q \in Procs : \E i \in DOMAIN running[q] : running[q][i] = e
    BY <2>1 DEF IInv, Nested
  <2>3. q # p
    BY <2>1, <2>2 DEF Dies
  <2>4. QED BY <1>5, <2>2, <2>3
<1>10. Nested'
  BY <1>8, <1>9 DEF Nested
<1>11. TypeOK'
  BY <1>0, <1>4, <1>5 DEF TypeOK, Sink, Files
<1>12. Holding'
  <2>1. ASSUME NEW e \in Downloads PROVE HoldingOf(e)'
    <3>1. CASE Dies(e)
      BY <1>3, <3>1 DEF HoldingOf, Working
    <3>2. CASE ~Dies(e)
      BY <1>0, <1>2, <3>2 DEF IInv, Holding, HoldingOf, Tmp
    <3>3. QED BY <3>1, <3>2
  <2>2. QED BY <2>1 DEF Holding, HoldingOf
<1>13. Placed'
  <2>1. ASSUME NEW n \in Temps, dir[n] \in Downloads
        PROVE  \/ dl'[dir[n]].pc = "done" /\ dl'[dir[n]].code = "crashed"
               \/ dl'[dir[n]].pc \in Working \ {"naming"} /\ <<dl'[dir[n]].pid, dl'[dir[n]].attempt>> = n
    <3>1. CASE Dies(dir[n])
      BY <1>3, <2>1, <3>1
    <3>2. CASE ~Dies(dir[n])
      <4>1. dl'[dir[n]] = dl[dir[n]]
        BY <1>2, <2>1, <3>2
      <4>2. QED BY <2>1, <4>1 DEF IInv, Placed, Tmp
    <3>3. QED BY <3>1, <3>2
  <2>2. QED BY <1>0, <2>1 DEF Placed, Tmp
<1>14. Whole'
  <2>1. ASSUME dir[Dest] \in Downloads
        PROVE  dl'[dir[Dest]].pc \in {"free", "done"} /\ dl'[dir[Dest]].disk = Pieces
    BY <1>2, <1>3, <2>1 DEF IInv, Whole
  <2>2. ASSUME NEW e \in Downloads
        PROVE  /\ dl'[e].pc = "flush" => dl'[e].written = Pieces
               /\ dl'[e].pc = "rename" => dl'[e].disk = Pieces
    BY <1>2, <1>3 DEF IInv, Whole
  <2>3. QED BY <1>0, <2>1, <2>2 DEF IInv, Whole
<1>15. QED BY <1>10, <1>11, <1>12, <1>13, <1>14 DEF IInv
-----------------------------------------------------------------------------
LEMMA InitIInv == Init => IInv
<1> SUFFICES ASSUME Init PROVE IInv
  OBVIOUS
<1>1. /\ \A d \in Downloads : dl[d] = Fresh
      /\ \A p \in Procs : running[p] = <<>> /\ DOMAIN running[p] = {}
      /\ \A n \in Names : dir[n] \notin Downloads
  BY DEF Init, Downloads, Absent, Old, Left
<1>2. Fresh.pc = "new" /\ Fresh.code = "none"
  BY DEF Fresh
<1>3. TypeOK
  <2>1. <<>> \in Seq(Downloads)
    OBVIOUS
  <2>2. dl \in [Downloads -> Sink] /\ running \in [Procs -> Seq(Downloads)]
    BY <2>1, FreshTyped DEF Init
  <2>3. QED BY <2>2 DEF Init, TypeOK, Sink
<1>4. Nested
  BY <1>1, <1>2 DEF Nested, Working
<1>5. Holding
  BY <1>1, <1>2 DEF Holding
<1>6. Placed
  BY <1>1, DestIsNotTemp DEF Placed
<1>7. Whole
  BY <1>1, <1>2, DestIsNotTemp DEF Init, Whole, Left, Absent, Old
<1>8. QED BY <1>3, <1>4, <1>5, <1>6, <1>7 DEF IInv

LEMMA NextCases ==
  ASSUME Next
  PROVE  \E p \in Procs : Start(p) \/ Crash(p) \/ \E d \in Downloads : Steps(p, d)
  BY DEF Next, Steps

LEMMA NextIInv == IInv /\ [Next]_vars => IInv'
<1> SUFFICES ASSUME IInv, [Next]_vars PROVE IInv'
  OBVIOUS
<1>1. CASE Next
  <2>1. PICK p \in Procs : Start(p) \/ Crash(p) \/ \E d \in Downloads : Steps(p, d)
    BY <1>1, NextCases
  <2>2. CASE \E d \in Downloads : Steps(p, d)
    <3>1. PICK d \in Downloads : Steps(p, d)
      BY <2>2
    <3>2. PICK s : Runs(p, d) /\ Shape(d, s) /\ (Stays(p, d, s) \/ Leaves(p, d, s))
      BY <3>1, StepsShape
    <3>3. QED BY <3>2, StepKeeps
  <2>3. QED BY <2>1, <2>2, StartKeeps, CrashKeeps
<1>2. CASE UNCHANGED vars
  BY <1>2 DEF vars, IInv, TypeOK, Nested, Holding, Placed, Whole, Tmp
<1>3. QED BY <1>1, <1>2

\* Every state of Download is one the invariant describes.
THEOREM Inductive == Spec => []IInv
<1>1. QED BY InitIInv, NextIInv, PTL DEF Spec

\* file_finish() renames only what is whole on the disk: the destination is
\* the previous file, or one complete body, whichever process dies when.
THEOREM WholeAlways == Spec => []DestinationWhole
<1>1. IInv => DestinationWhole
  BY DestIsNotTemp DEF IInv, TypeOK, Whole, DestinationWhole
<1>2. QED BY <1>1, Inductive, PTL

\* file_cleanup(), in zuh_sink_abort() and in zuh_sink_free(): a request that
\* ends leaves nothing under a temporary name.
THEOREM NothingLeft == Spec => []NoLitter
<1>1. IInv => NoLitter
  BY DEF IInv, Placed, NoLitter, Working
<1>2. QED BY <1>1, Inductive, PTL

\* How a step may change the directory.
LEMMA Changes ==
  ASSUME IInv, Next
  PROVE  \/ dir' = dir
         \/ \E p \in Procs, d \in Downloads, s \in Sink :
              Runs(p, d) /\ dl' = [dl EXCEPT ![d] = s] /\ dir' # dir /\ Touches(d, s)
<1>1. PICK p \in Procs : Start(p) \/ Crash(p) \/ \E d \in Downloads : Steps(p, d)
  BY NextCases
<1>2. CASE \E d \in Downloads : Steps(p, d)
  <2>1. PICK d \in Downloads : Steps(p, d)
    BY <1>2
  <2>2. PICK s : Runs(p, d) /\ Shape(d, s)
    BY <2>1, StepsShape
  <2>3. QED BY <2>2 DEF Shape
<1>3. QED BY <1>1, <1>2 DEF Start, Crash

\* rename(): the destination changes only when a download succeeds, to its body.
THEOREM SuccessReplaces == Spec => ReplacedBySuccess
<1>1. ASSUME IInv, Next, dir'[Dest] # dir[Dest]
      PROVE  \E d \in Downloads : dir'[Dest] = d /\ dl[d].code # "OK" /\ dl'[d].code = "OK"
  <2>1. PICK p \in Procs, d \in Downloads, s \in Sink :
           Runs(p, d) /\ dl' = [dl EXCEPT ![d] = s] /\ dir' # dir /\ Touches(d, s)
    BY <1>1, Changes
  <2>2. dl'[d] = s
    BY <1>1, <2>1 DEF IInv, TypeOK
  <2>3. dir'[Dest] = d /\ dl[d].code = "none" /\ s.code = "OK"
    BY <1>1, <2>1 DEF Touches
  <2>4. QED BY <2>2, <2>3
<1>2. IInv /\ [Next]_vars =>
        [dir'[Dest] # dir[Dest] =>
           \E d \in Downloads : dir'[Dest] = d /\ dl[d].code # "OK" /\ dl'[d].code = "OK"]_vars
  BY <1>1
<1>3. QED BY <1>2, Inductive, PTL DEF Spec, ReplacedBySuccess

\* zuh_sink_file() with O_EXCL, and cleaning up by name: a name that is taken
\* loses its file only to the download that put it there.
THEOREM OthersLeftAlone == Spec => OthersAlone
<1>1. ASSUME IInv, Next, NEW n \in Temps, dir[n] # Absent, dir'[n] # dir[n]
      PROVE  dir[n] \in Downloads /\ dl'[dir[n]] # dl[dir[n]] /\ dir'[n] = Absent
  <2>1. PICK p \in Procs, d \in Downloads, s \in Sink :
           Runs(p, d) /\ dl' = [dl EXCEPT ![d] = s] /\ dir' # dir /\ Touches(d, s)
    BY <1>1, Changes
  <2>2. dl'[d] = s
    BY <1>1, <2>1 DEF IInv, TypeOK
  <2>3. n = Tmp(d)
    BY <1>1, <2>1, DestIsNotTemp DEF Touches
  <2>4. dir[n] = d /\ dir'[n] = Absent /\ s.pc # dl[d].pc
    BY <1>1, <2>1, <2>3 DEF Touches
  <2>5. QED BY <2>2, <2>4
<1>2. IInv /\ [Next]_vars =>
        [\A n \in Temps : dir[n] # Absent /\ dir'[n] # dir[n] =>
           /\ dir[n] \in Downloads /\ dl'[dir[n]] # dl[dir[n]]
           /\ dir'[n] = Absent]_vars
  BY <1>1
<1>3. QED BY <1>2, Inductive, PTL DEF Spec, OthersAlone
=============================================================================
