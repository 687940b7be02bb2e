------------------------- MODULE FrrRuntime_proofs -------------------------
(***************************************************************************)
(* Proofs about FrrRuntime: its properties hold for any nodes and daemons, *)
(* any pids and any number of faults.  The invariant comes in layers, each *)
(* over the ones before it: control, directories, the tree of records, the *)
(* lists of daemons, and on top of them one layer for each property.       *)
(***************************************************************************)
EXTENDS FrrRuntime, SequenceTheorems, TLAPS

FrrPaths == {Run} \cup ({"state", "vty"} \X N)
Chores == {"daemon"} \X (N \X D)
Steps == Paths \cup Chores

(* A loop over nodes: every node has a step to come.                        *)
Loop(t) == t \in Seq(Seq(Steps)) /\ \A k \in 1..Len(t) : t[k] # <<>>
Left == UNION {{todo[k][j] : j \in 1..Len(todo[k])} : k \in 1..Len(todo)}
Distinct == \A k1, k2 \in 1..Len(todo) : \A j1 \in 1..Len(todo[k1]), j2 \in 1..Len(todo[k2]) :
               todo[k1][j1] = todo[k2][j2] => k1 = k2 /\ j1 = j2

LEMMA InLeft == \A x : x \in Left <=> \E k \in 1..Len(todo) : \E j \in 1..Len(todo[k]) : todo[k][j] = x
  BY DEF Left

(* Where the steps of Rest are in todo.                                     *)
Place(k) == IF Len(todo[1]) = 1 THEN k + 1 ELSE k
Shift(k) == IF Len(todo[1]) # 1 /\ k = 1 THEN 1 ELSE 0

LEMMA JobIsLeft ==
  ASSUME Loop(todo), todo # <<>>
  PROVE  /\ Len(todo) \in Nat \ {0} /\ 1 \in 1..Len(todo)
         /\ todo[1] \in Seq(Steps) /\ Len(todo[1]) \in Nat \ {0} /\ 1 \in 1..Len(todo[1])
         /\ Job = todo[1][1] /\ Job \in Steps /\ Job \in Left
<1> USE DEF Loop
<1>1. Len(todo) \in Nat \ {0} /\ 1 \in 1..Len(todo) /\ Head(todo) = todo[1]
  BY EmptySeq, LenProperties
<1>2. todo[1] \in Seq(Steps) /\ todo[1] # <<>>
  BY <1>1, ElementOfSeq
<1>3. Len(todo[1]) \in Nat \ {0} /\ 1 \in 1..Len(todo[1]) /\ Head(todo[1]) = todo[1][1]
  BY <1>2, EmptySeq, LenProperties
<1>4. todo[1][1] \in Steps
  BY <1>2, <1>3, ElementOfSeq
<1> QED
  BY <1>1, <1>2, <1>3, <1>4, InLeft DEF Job

LEMMA ConsProperties ==
  ASSUME NEW S, NEW e \in S, NEW t \in Seq(S)
  PROVE  /\ <<e>> \o t \in Seq(S) /\ Len(<<e>> \o t) = Len(t) + 1
         /\ (<<e>> \o t)[1] = e
         /\ \A k \in 1..Len(t) : (<<e>> \o t)[k + 1] = t[k]
<1> DEFINE h == <<e>>
<1>1. h \in Seq(S) /\ Len(h) = 1 /\ h[1] = e
  OBVIOUS
<1> HIDE DEF h
<1>2. Len(t) \in Nat
  OBVIOUS
<1>3. /\ h \o t \in Seq(S) /\ Len(h \o t) = 1 + Len(t)
      /\ \A k \in 1..(1 + Len(t)) : (h \o t)[k] = IF k <= 1 THEN h[k] ELSE t[k - 1]
  <2>1. /\ h \o t \in Seq(S) /\ Len(h \o t) = Len(h) + Len(t)
        /\ \A k \in 1..Len(h) + Len(t) : (h \o t)[k] = IF k <= Len(h) THEN h[k] ELSE t[k - Len(h)]
    BY <1>1, ConcatProperties
  <2> QED
    BY <1>1, <2>1
<1>4. (h \o t)[1] = e
  BY <1>1, <1>2, <1>3
<1>5. ASSUME NEW k \in 1..Len(t) PROVE (h \o t)[k + 1] = t[k]
  <2>1. k + 1 \in 1..(1 + Len(t)) /\ ~(k + 1 <= 1) /\ k + 1 - 1 = k
    BY <1>2
  <2> QED
    BY <2>1, <1>3
<1> QED
  BY <1>2, <1>3, <1>4, <1>5 DEF h

LEMMA RestSteps ==
  ASSUME Loop(todo), todo # <<>>
  PROVE  /\ Loop(Rest)
         /\ \A k \in 1..Len(Rest) :
              /\ Place(k) \in 1..Len(todo) /\ Shift(k) \in {0, 1}
              /\ Len(todo[Place(k)]) = Len(Rest[k]) + Shift(k)
              /\ \A j \in 1..Len(Rest[k]) : Rest[k][j] = todo[Place(k)][j + Shift(k)]
         /\ Len(Rest) = IF Len(todo[1]) = 1 THEN Len(todo) - 1 ELSE Len(todo)
<1> USE DEF Loop
<1>1. CASE Len(todo[1]) = 1
  <2>1. Rest = Tail(todo)
    BY <1>1, JobIsLeft DEF Rest
  <2>2. Tail(todo) \in Seq(Seq(Steps)) /\ Len(Tail(todo)) = Len(todo) - 1
        /\ \A k \in 1..Len(Tail(todo)) : Tail(todo)[k] = todo[k + 1]
    BY HeadTailProperties
  <2>3. \A k \in 1..Len(Tail(todo)) : k + 1 \in 1..Len(todo) /\ Len(todo[k + 1]) \in Nat
    BY <2>2, JobIsLeft, ElementOfSeq, LenProperties
  <2> QED
    BY <2>1, <2>2, <2>3, <1>1 DEF Place, Shift
<1>2. CASE Len(todo[1]) # 1
  <2>1. Rest = <<Tail(todo[1])>> \o Tail(todo)
    BY <1>2, JobIsLeft DEF Rest
  <2>2. Tail(todo) \in Seq(Seq(Steps)) /\ Len(Tail(todo)) = Len(todo) - 1
        /\ \A k \in 1..Len(Tail(todo)) : Tail(todo)[k] = todo[k + 1]
    BY HeadTailProperties
  <2>3. Tail(todo[1]) \in Seq(Steps) /\ Len(Tail(todo[1])) = Len(todo[1]) - 1
        /\ \A j \in 1..Len(Tail(todo[1])) : Tail(todo[1])[j] = todo[1][j + 1]
    BY JobIsLeft, HeadTailProperties, EmptySeq
  <2>4. Tail(todo[1]) # <<>>
    <3>1. Len(Tail(todo[1])) # 0
      BY <2>3, <1>2, JobIsLeft
    <3> QED
      BY <3>1, EmptySeq
  <2>5. /\ Rest \in Seq(Seq(Steps)) /\ Len(Rest) = Len(todo)
        /\ \A k \in 1..Len(Rest) : Rest[k] = IF k = 1 THEN Tail(todo[1]) ELSE todo[k]
    <3>1. /\ Rest \in Seq(Seq(Steps)) /\ Len(Rest) = Len(Tail(todo)) + 1
          /\ Rest[1] = Tail(todo[1])
          /\ \A k \in 1..Len(Tail(todo)) : Rest[k + 1] = Tail(todo)[k]
      BY <2>1, <2>2, <2>3, ConsProperties
    <3>2. Len(Rest) = Len(todo) /\ Len(todo) \in Nat
      BY <3>1, <2>2, JobIsLeft
    <3>3. ASSUME NEW k \in 1..Len(todo), k # 1 PROVE Rest[k] = todo[k]
      <4>1. k - 1 \in 1..Len(Tail(todo)) /\ k - 1 + 1 = k
        BY <3>2, <3>3, <2>2
      <4> QED
        BY <4>1, <3>1, <2>2
    <3> QED
      BY <3>1, <3>2, <3>3
  <2>6. \A k \in 1..Len(todo) : Len(todo[k]) \in Nat
    BY ElementOfSeq, LenProperties
  <2>7. Loop(Rest)
    BY <2>5, <2>4
  <2>8. ASSUME NEW k \in 1..Len(Rest)
        PROVE  /\ Place(k) \in 1..Len(todo) /\ Shift(k) \in {0, 1}
               /\ Len(todo[Place(k)]) = Len(Rest[k]) + Shift(k)
               /\ \A j \in 1..Len(Rest[k]) : Rest[k][j] = todo[Place(k)][j + Shift(k)]
    <3>1. Place(k) = k /\ k \in 1..Len(todo)
      BY <1>2, <2>5 DEF Place
    <3>2. CASE k = 1
      <4>1. Shift(k) = 1 /\ Rest[k] = Tail(todo[1])
        BY <3>2, <1>2, <2>5 DEF Shift
      <4> QED
        BY <4>1, <3>1, <3>2, <2>3, JobIsLeft
    <3>3. CASE k # 1
      <4>1. Shift(k) = 0 /\ Rest[k] = todo[k]
        BY <3>3, <2>5 DEF Shift
      <4>2. \A j \in 1..Len(Rest[k]) : j + 0 = j
        BY <4>1, <3>1, <2>6
      <4> QED
        BY <4>1, <4>2, <3>1, <2>6
    <3> QED
      BY <3>2, <3>3
  <2> QED
    BY <2>5, <2>7, <2>8, <1>2
<1> QED
  BY <1>1, <1>2

LEMMA RestLeft ==
  ASSUME Loop(todo), todo # <<>>, Distinct, todo' = Rest
  PROVE  Loop(todo)' /\ Distinct' /\ Left' = Left \ {Job}
<1>1. Loop(todo)'
  BY RestSteps DEF Loop
<1>2. \A k \in 1..Len(todo) : Len(todo[k]) \in Nat
  BY ElementOfSeq, LenProperties DEF Loop
<1>3. \A k \in 1..Len(Rest) : Len(Rest[k]) \in Nat
  BY RestSteps, ElementOfSeq, LenProperties DEF Loop
<1>4. Distinct'
  <2> SUFFICES ASSUME NEW k1 \in 1..Len(Rest), NEW k2 \in 1..Len(Rest),
                      NEW j1 \in 1..Len(Rest[k1]), NEW j2 \in 1..Len(Rest[k2]),
                      Rest[k1][j1] = Rest[k2][j2]
               PROVE  k1 = k2 /\ j1 = j2
    BY DEF Distinct
  <2>1. /\ Place(k1) \in 1..Len(todo) /\ j1 + Shift(k1) \in 1..Len(todo[Place(k1)])
        /\ Place(k2) \in 1..Len(todo) /\ j2 + Shift(k2) \in 1..Len(todo[Place(k2)])
        /\ todo[Place(k1)][j1 + Shift(k1)] = todo[Place(k2)][j2 + Shift(k2)]
    <3>1. ASSUME NEW k \in 1..Len(Rest), NEW j \in 1..Len(Rest[k])
          PROVE  /\ Place(k) \in 1..Len(todo) /\ j + Shift(k) \in 1..Len(todo[Place(k)])
                 /\ Rest[k][j] = todo[Place(k)][j + Shift(k)]
      <4>1. /\ Place(k) \in 1..Len(todo) /\ Shift(k) \in {0, 1}
            /\ Len(todo[Place(k)]) = Len(Rest[k]) + Shift(k)
            /\ Rest[k][j] = todo[Place(k)][j + Shift(k)]
        BY RestSteps
      <4>2. Len(Rest[k]) \in Nat
        BY <1>3
      <4> DEFINE e == Shift(k)
                 s == todo[Place(k)]
      <4>3. e \in {0, 1} /\ Len(s) = Len(Rest[k]) + e
        BY <4>1
      <4> HIDE DEF e, s
      <4>4. j + e \in 1..Len(s)
        BY <4>2, <4>3
      <4> QED
        BY <4>1, <4>4 DEF e, s
    <3> QED
      BY <3>1
  <2>2. Place(k1) = Place(k2) /\ j1 + Shift(k1) = j2 + Shift(k2)
    BY <2>1, SMTT(30) DEF Distinct
  <2>3. Len(Rest) \in Nat /\ k1 \in Int /\ k2 \in Int /\ j1 \in Int /\ j2 \in Int
    BY <1>3, RestSteps, JobIsLeft
  <2>4. k1 = k2
    BY <2>2, <2>3 DEF Place
  <2> QED
    BY <2>2, <2>3, <2>4 DEF Shift
<1>5. ASSUME NEW x \in Left' PROVE x \in Left \ {Job}
  <2>1. PICK k \in 1..Len(Rest) : \E j \in 1..Len(Rest[k]) : Rest[k][j] = x
    BY <1>5 DEF Left
  <2>2. PICK j \in 1..Len(Rest[k]) : Rest[k][j] = x
    BY <2>1
  <2>3. /\ Place(k) \in 1..Len(todo) /\ j + Shift(k) \in 1..Len(todo[Place(k)])
        /\ todo[Place(k)][j + Shift(k)] = x
    BY <2>2, <1>2, <1>3, RestSteps, SMTT(30)
  <2>4. Place(k) # 1 \/ j + Shift(k) # 1
    BY <2>2, <1>3, RestSteps, JobIsLeft DEF Place, Shift
  <2> QED
    BY <2>3, <2>4, JobIsLeft, InLeft DEF Distinct
<1>6. ASSUME NEW x \in Left, x # Job PROVE x \in Left'
  <2>0. PICK k \in 1..Len(todo) : \E j \in 1..Len(todo[k]) : todo[k][j] = x
    BY <1>6, InLeft
  <2>1. PICK j \in 1..Len(todo[k]) : todo[k][j] = x
    BY <2>0
  <2>2. k # 1 \/ j # 1
    BY <2>1, <1>6, JobIsLeft
  <2> DEFINE k2 == IF Len(todo[1]) = 1 THEN k - 1 ELSE k
             j2 == IF Len(todo[1]) # 1 /\ k = 1 THEN j - 1 ELSE j
  <2>3. k2 \in 1..Len(Rest) /\ Place(k2) = k /\ j2 = j - Shift(k2)
    BY <2>1, <2>2, <1>2, RestSteps, JobIsLeft DEF Place, Shift
  <2>4. j2 \in 1..Len(Rest[k2]) /\ Rest[k2][j2] = x
    <3> HIDE DEF k2, j2
    <3>1. /\ Len(todo[k]) = Len(Rest[k2]) + Shift(k2) /\ Shift(k2) \in {0, 1}
          /\ \A i \in 1..Len(Rest[k2]) : Rest[k2][i] = todo[k][i + Shift(k2)]
      BY <2>3, RestSteps
    <3>2. j2 # 0
      BY <2>3, <2>2, <1>2, <2>1, RestSteps, JobIsLeft DEF Shift, Place
    <3>3. j2 \in 1..Len(Rest[k2])
      BY <3>1, <3>2, <2>3, <1>2, <1>3
    <3> QED
      BY <3>1, <3>3, <2>3, <2>1, <1>2, <1>3
  <2> QED
    BY <2>3, <2>4, SMTT(30) DEF Left
<1> QED
  BY <1>1, <1>4, <1>5, <1>6

(* The names of the constants.                                              *)
LEMMA Names ==
  /\ Nodes \in Seq(N) /\ Len(Nodes) \in Nat
  /\ \A i \in 1..Len(Nodes) : Nodes[i] \in N
  /\ \A n \in N : \E i \in 1..Len(Nodes) : Nodes[i] = n
  /\ \A i, j \in 1..Len(Nodes) : Nodes[i] = Nodes[j] => i = j
  /\ Daemons \in Seq(D) /\ Len(Daemons) \in Nat \ {0}
  /\ \A i \in 1..Len(Daemons) : Daemons[i] \in D
  /\ \A d \in D : \E i \in 1..Len(Daemons) : Daemons[i] = d
  /\ \A i, j \in 1..Len(Daemons) : Daemons[i] = Daemons[j] => i = j
<1>1. Nodes \in Seq(N) /\ Len(Nodes) \in Nat /\ DOMAIN Nodes = 1..Len(Nodes)
  BY SequencesAssumption, LenProperties
<1>2. Daemons \in Seq(D) /\ Len(Daemons) \in Nat \ {0} /\ DOMAIN Daemons = 1..Len(Daemons)
  BY SequencesAssumption, LenProperties, EmptySeq
<1>3. IsInjective(Nodes) /\ IsInjective(Daemons)
  BY SequencesAssumption
<1> QED
  BY <1>1, <1>2, <1>3 DEF N, D, Range, IsInjective

LEMMA Counts == Len(Nodes) \in Nat /\ Len(Daemons) \in Nat \ {0}
  BY Names

LEMMA NodeAt == \A i \in 1..Len(Nodes) : Nodes[i] \in N
  BY Names

LEMMA OneIndex ==
  /\ \A i, j \in 1..Len(Nodes) : Nodes[i] = Nodes[j] => i = j
  /\ \A i, j \in 1..Len(Daemons) : Daemons[i] = Daemons[j] => i = j
  BY Names

LEMMA DaemonSteps ==
  ASSUME NEW n \in N
  PROVE  /\ DaemonsOf(n) \in Seq(Chores) /\ Len(DaemonsOf(n)) = Len(Daemons)
         /\ \A j \in 1..Len(Daemons) : DaemonsOf(n)[j] = <<"daemon", <<n, Daemons[j]>>>>
<1>1. \A j \in 1..Len(Daemons) : <<"daemon", <<n, Daemons[j]>>>> \in Chores
  BY Names DEF Chores
<1> QED
  BY <1>1, Names, SMTT(30) DEF DaemonsOf

LEMMA NodeSteps ==
  ASSUME NEW n \in N
  PROVE  /\ JobsOf(n) \in Seq(Steps) /\ Len(JobsOf(n)) = 3 + Len(Daemons)
         /\ JobsOf(n)[1] = NodeDir(n) /\ JobsOf(n)[2] = StateDir(n) /\ JobsOf(n)[3] = VtyDir(n)
         /\ \A j \in 1..Len(Daemons) : JobsOf(n)[j + 3] = <<"daemon", <<n, Daemons[j]>>>>
<1> DEFINE h == <<NodeDir(n), StateDir(n), VtyDir(n)>>
           t == DaemonsOf(n)
<1>1. /\ h \in Seq(Steps) /\ Len(h) = 3
      /\ h[1] = NodeDir(n) /\ h[2] = StateDir(n) /\ h[3] = VtyDir(n)
  <2>1. NodeDir(n) \in Steps /\ StateDir(n) \in Steps /\ VtyDir(n) \in Steps
    BY DEF NodeDir, StateDir, VtyDir, Steps, Paths
  <2> QED
    BY <2>1
<1>2. /\ t \in Seq(Steps) /\ Len(t) = Len(Daemons) /\ Len(Daemons) \in Nat
      /\ \A j \in 1..Len(Daemons) : t[j] = <<"daemon", <<n, Daemons[j]>>>>
  BY DaemonSteps, Names, SeqMonotonic DEF Steps
<1>3. JobsOf(n) = h \o t
  BY DEF JobsOf
<1> HIDE DEF h, t
<1>4. /\ h \o t \in Seq(Steps) /\ Len(h \o t) = Len(h) + Len(t)
      /\ \A k \in 1..Len(h) + Len(t) : (h \o t)[k] = IF k <= Len(h) THEN h[k] ELSE t[k - Len(h)]
  <2>1. h \in Seq(Steps) /\ t \in Seq(Steps)
    BY <1>1, <1>2
  <2> QED
    BY <2>1, ConcatProperties
<1>5. \A k \in 1..3 : (h \o t)[k] = h[k]
  BY <1>1, <1>2, <1>4
<1>6. ASSUME NEW j \in 1..Len(Daemons) PROVE (h \o t)[j + 3] = t[j]
  <2>1. j + 3 \in 1..Len(h) + Len(t) /\ ~(j + 3 <= Len(h)) /\ j + 3 - Len(h) = j
    BY <1>1, <1>2
  <2> QED
    BY <2>1, <1>4
<1> QED
  BY <1>1, <1>2, <1>3, <1>4, <1>5, <1>6

(* The three loops.                                                         *)
LEMMA ReadLoop ==
  ASSUME todo' = InOrder
  PROVE  /\ Loop(todo)' /\ Distinct' /\ Left' = Chores
<1>1. /\ InOrder \in Seq(Seq(Chores)) /\ Len(InOrder) = Len(Nodes)
      /\ \A i \in 1..Len(Nodes) : InOrder[i] = DaemonsOf(Nodes[i])
  <2>1. \A i \in 1..Len(Nodes) : DaemonsOf(Nodes[i]) \in Seq(Chores)
    BY Names, DaemonSteps
  <2>2. Len(Nodes) \in Nat
    BY Names
  <2> QED
    BY <2>1, <2>2 DEF InOrder
<1>2. Loop(todo)'
  <2>1. Seq(Chores) \subseteq Seq(Steps)
    BY SeqMonotonic DEF Steps
  <2>2. InOrder \in Seq(Seq(Steps))
    BY <1>1, <2>1, SeqMonotonic
  <2>3. \A i \in 1..Len(InOrder) : InOrder[i] # <<>>
    BY <1>1, DaemonSteps, Names, EmptySeq, SMTT(30)
  <2> QED
    BY <2>2, <2>3 DEF Loop
<1>3. Distinct'
  <2> SUFFICES ASSUME NEW k1 \in 1..Len(InOrder), NEW k2 \in 1..Len(InOrder),
                      NEW j1 \in 1..Len(InOrder[k1]), NEW j2 \in 1..Len(InOrder[k2]),
                      InOrder[k1][j1] = InOrder[k2][j2]
               PROVE  k1 = k2 /\ j1 = j2
    BY DEF Distinct
  <2>1. ASSUME NEW k \in 1..Len(InOrder), NEW j \in 1..Len(InOrder[k])
        PROVE  /\ k \in 1..Len(Nodes) /\ j \in 1..Len(Daemons)
               /\ InOrder[k][j] = <<"daemon", <<Nodes[k], Daemons[j]>>>>
    <3>1. k \in 1..Len(Nodes) /\ Nodes[k] \in N /\ InOrder[k] = DaemonsOf(Nodes[k])
      BY <1>1, NodeAt
    <3> QED
      BY <3>1, DaemonSteps
  <2>2. Nodes[k1] = Nodes[k2] /\ Daemons[j1] = Daemons[j2]
    BY <2>1
  <2> QED
    BY <2>1, <2>2, Names
<1>4. ASSUME NEW x \in Chores PROVE x \in Left'
  <2>1. PICK n \in N, d \in D : x = <<"daemon", <<n, d>>>>
    BY <1>4 DEF Chores
  <2>2. PICK i \in 1..Len(Nodes) : Nodes[i] = n
    BY Names
  <2>3. PICK j \in 1..Len(Daemons) : Daemons[j] = d
    BY Names
  <2>4. InOrder[i][j] = x /\ i \in 1..Len(InOrder) /\ j \in 1..Len(InOrder[i])
    BY <2>1, <2>2, <2>3, <1>1, DaemonSteps
  <2> QED
    BY <2>4 DEF Left
<1>5. ASSUME NEW x \in Left' PROVE x \in Chores
  <2>1. PICK i \in 1..Len(InOrder) : \E j \in 1..Len(InOrder[i]) : InOrder[i][j] = x
    BY <1>5 DEF Left
  <2> QED
    BY <2>1, <1>1, Names, DaemonSteps, ElementOfSeq, SMTT(30)
<1> QED
  BY <1>2, <1>3, <1>4, <1>5

LEMMA NodeStepsDiffer ==
  ASSUME NEW n \in N, NEW j \in 1..(3 + Len(Daemons))
  PROVE  /\ JobsOf(n)[j] # Run
         /\ \A m \in N : \A i \in 1..(3 + Len(Daemons)) :
              JobsOf(m)[i] = JobsOf(n)[j] => m = n /\ i = j
<1>1. ASSUME NEW m \in N, NEW i \in 1..(3 + Len(Daemons))
      PROVE  \/ i = 1 /\ JobsOf(m)[i] = <<"node", m>>
             \/ i = 2 /\ JobsOf(m)[i] = <<"state", m>>
             \/ i = 3 /\ JobsOf(m)[i] = <<"vty", m>>
             \/ i > 3 /\ i - 3 \in 1..Len(Daemons) /\ JobsOf(m)[i] = <<"daemon", <<m, Daemons[i - 3]>>>>
  <2>1. CASE i \in {1, 2, 3}
    BY <2>1, NodeSteps DEF NodeDir, StateDir, VtyDir
  <2>2. CASE i \notin {1, 2, 3}
    <3>1. i > 3 /\ i - 3 \in 1..Len(Daemons) /\ i - 3 + 3 = i
      BY <2>2, Names
    <3> QED
      BY <3>1, NodeSteps
  <2> QED
    BY <2>1, <2>2
<1>2. JobsOf(n)[j] # Run
  BY <1>1 DEF Run
<1>3. ASSUME NEW m \in N, NEW i \in 1..(3 + Len(Daemons)), JobsOf(m)[i] = JobsOf(n)[j]
      PROVE  m = n /\ i = j
  <2>1. i \in Int /\ j \in Int
    BY Names
  <2>2. CASE i <= 3
    BY <1>1, <1>3, <2>1, <2>2
  <2>3. CASE i > 3
    <3>1. j > 3 /\ m = n /\ Daemons[i - 3] = Daemons[j - 3]
          /\ i - 3 \in 1..Len(Daemons) /\ j - 3 \in 1..Len(Daemons)
      BY <1>1, <1>3, <2>1, <2>3
    <3> DEFINE a == i - 3
               b == j - 3
    <3>2. a \in 1..Len(Daemons) /\ b \in 1..Len(Daemons) /\ Daemons[a] = Daemons[b]
      BY <3>1
    <3> HIDE DEF a, b
    <3>3. a = b
      BY <3>2, OneIndex
    <3> QED
      BY <3>1, <3>3, <2>1 DEF a, b
  <2> QED
    BY <2>1, <2>2, <2>3
<1> QED
  BY <1>2, <1>3

(* Every daemon's step comes after that of its directory, unless the        *)
(* directory exists.                                                        *)
Preceded == \A k \in 1..Len(todo) : \A j \in 1..Len(todo[k]) : \A n \in N, d \in D :
   todo[k][j] = <<"daemon", <<n, d>>>> =>
      dirs[NodeDir(n)] # "absent" \/ \E i \in 1..(j - 1) : todo[k][i] = NodeDir(n)

LEMMA StartLoop ==
  ASSUME todo' = StartJobs
  PROVE  /\ Loop(todo)' /\ Distinct' /\ Preceded'
         /\ todo' # <<>> /\ Job' = Run /\ Left' = Steps
<1>1. /\ StartJobs \in Seq(Seq(Steps)) /\ Len(StartJobs) = Len(Nodes) + 1
      /\ StartJobs[1] = <<Run>>
      /\ \A i \in 1..Len(Nodes) : StartJobs[i + 1] = JobsOf(Nodes[i])
  <2> DEFINE t == [i \in 1..Len(Nodes) |-> JobsOf(Nodes[i])]
  <2>1. \A i \in 1..Len(Nodes) : JobsOf(Nodes[i]) \in Seq(Steps)
    BY Names, NodeSteps
  <2>2. Len(Nodes) \in Nat
    BY Names
  <2>3. t \in Seq(Seq(Steps)) /\ Len(t) = Len(Nodes)
        /\ \A i \in 1..Len(Nodes) : t[i] = JobsOf(Nodes[i])
    BY <2>1, <2>2
  <2>4. <<Run>> \in Seq(Steps)
    BY DEF Steps, Paths
  <2>5. StartJobs = <<<<Run>>>> \o t
    BY DEF StartJobs
  <2> HIDE DEF t
  <2>6. t \in Seq(Seq(Steps)) /\ <<Run>> \in Seq(Steps)
    BY <2>3, <2>4
  <2>7. /\ <<<<Run>>>> \o t \in Seq(Seq(Steps)) /\ Len(<<<<Run>>>> \o t) = Len(t) + 1
        /\ (<<<<Run>>>> \o t)[1] = <<Run>>
        /\ \A i \in 1..Len(t) : (<<<<Run>>>> \o t)[i + 1] = t[i]
    BY <2>6, ConsProperties
  <2> QED
    BY <2>3, <2>5, <2>7
<1>2. ASSUME NEW k \in 1..Len(StartJobs), NEW j \in 1..Len(StartJobs[k])
      PROVE  \/ k = 1 /\ j = 1 /\ StartJobs[k][j] = Run
             \/ \E i \in 1..Len(Nodes) :
                  /\ k = i + 1 /\ Nodes[i] \in N
                  /\ StartJobs[k] = JobsOf(Nodes[i]) /\ j \in 1..(3 + Len(Daemons))
  <2>1. CASE k = 1
    <3>1. StartJobs[k] = <<Run>> /\ j \in 1..1
      BY <1>1, <2>1
    <3> QED
      BY <3>1, <2>1
  <2>2. CASE k # 1
    <3>0. k - 1 \in 1..Len(Nodes) /\ k - 1 + 1 = k
      BY <1>1, <2>2, Counts
    <3>1. k - 1 \in 1..Len(Nodes) /\ k - 1 + 1 = k /\ Nodes[k - 1] \in N
      BY <3>0, NodeAt
    <3>2. StartJobs[k] = JobsOf(Nodes[k - 1])
      BY <1>1, <3>1
    <3>3. Len(StartJobs[k]) = 3 + Len(Daemons)
      BY <3>1, <3>2, NodeSteps
    <3> QED
      BY <3>1, <3>2, <3>3
  <2> QED
    BY <2>1, <2>2
<1>3. Loop(todo)'
  <2>1. ASSUME NEW k \in 1..Len(StartJobs) PROVE StartJobs[k] # <<>>
    <3>1. CASE k = 1
      BY <3>1, <1>1
    <3>2. CASE k # 1
      <4>0. k - 1 \in 1..Len(Nodes) /\ k - 1 + 1 = k
        BY <1>1, <3>2, Counts
      <4>1. Nodes[k - 1] \in N /\ StartJobs[k] = JobsOf(Nodes[k - 1])
        BY <1>1, <4>0, NodeAt
      <4>2. Len(StartJobs[k]) # 0
        BY <4>1, NodeSteps, Counts
      <4> QED
        BY <4>2, EmptySeq
    <3> QED
      BY <3>1, <3>2
  <2> QED
    BY <1>1, <2>1 DEF Loop
<1>4. Distinct'
  <2> SUFFICES ASSUME NEW k1 \in 1..Len(StartJobs), NEW k2 \in 1..Len(StartJobs),
                      NEW j1 \in 1..Len(StartJobs[k1]), NEW j2 \in 1..Len(StartJobs[k2]),
                      StartJobs[k1][j1] = StartJobs[k2][j2]
               PROVE  k1 = k2 /\ j1 = j2
    BY DEF Distinct
  <2>1. CASE k1 = 1 \/ k2 = 1
    BY <1>2, <2>1, NodeStepsDiffer
  <2>2. CASE ~(k1 = 1 \/ k2 = 1)
    <3>1. PICK i1 \in 1..Len(Nodes) : /\ k1 = i1 + 1 /\ Nodes[i1] \in N
                                      /\ StartJobs[k1] = JobsOf(Nodes[i1]) /\ j1 \in 1..(3 + Len(Daemons))
      BY <1>2, <2>2
    <3>2. PICK i2 \in 1..Len(Nodes) : /\ k2 = i2 + 1 /\ Nodes[i2] \in N
                                      /\ StartJobs[k2] = JobsOf(Nodes[i2]) /\ j2 \in 1..(3 + Len(Daemons))
      BY <1>2, <2>2
    <3>3. Nodes[i1] = Nodes[i2] /\ j1 = j2
      BY <3>1, <3>2, NodeStepsDiffer
    <3> QED
      BY <3>1, <3>2, <3>3, OneIndex
  <2> QED
    BY <2>1, <2>2
<1>5. Preceded'
  <2> SUFFICES ASSUME NEW k \in 1..Len(StartJobs), NEW j \in 1..Len(StartJobs[k]),
                      NEW n \in N, NEW d \in D, StartJobs[k][j] = <<"daemon", <<n, d>>>>
               PROVE  \E i \in 1..(j - 1) : StartJobs[k][i] = NodeDir(n)
    BY DEF Preceded
  <2>1. k # 1 \/ StartJobs[k][j] = Run
    BY <1>2
  <2>2. <<"daemon", <<n, d>>>> # Run
    BY DEF Run
  <2>3. PICK i \in 1..Len(Nodes) : /\ Nodes[i] \in N /\ StartJobs[k] = JobsOf(Nodes[i])
                                   /\ j \in 1..(3 + Len(Daemons))
    BY <1>2, <2>1, <2>2
  <2>4. j # 1 /\ j # 2 /\ j # 3
    BY <2>3, NodeSteps DEF NodeDir, StateDir, VtyDir
  <2>5. j - 3 \in 1..Len(Daemons) /\ j - 3 + 3 = j /\ 1 \in 1..(j - 1)
    BY <2>3, <2>4, Counts
  <2>6. StartJobs[k][j] = <<"daemon", <<Nodes[i], Daemons[j - 3]>>>>
    BY <2>3, <2>5, NodeSteps
  <2>7. Nodes[i] = n
    BY <2>6
  <2>8. StartJobs[k][1] = NodeDir(n)
    BY <2>3, <2>7, NodeSteps
  <2> QED
    BY <2>5, <2>8
<1>6. StartJobs # <<>> /\ Job' = Run
  <2>1. Len(StartJobs) # 0 /\ 1 \in 1..Len(StartJobs)
    BY <1>1, Counts
  <2>2. StartJobs # <<>>
    BY <2>1, EmptySeq
  <2>3. Head(StartJobs) = <<Run>>
    BY <1>1, <2>2
  <2> QED
    BY <2>2, <2>3 DEF Job
<1>7. ASSUME NEW x \in Steps PROVE x \in Left'
  <2>1. CASE x = Run
    <3>1. 1 \in 1..Len(StartJobs) /\ 1 \in 1..Len(StartJobs[1]) /\ StartJobs[1][1] = Run
      BY <1>1, Counts
    <3> QED
      BY <2>1, <3>1 DEF Left
  <2>2. ASSUME NEW n \in N, NEW j \in 1..(3 + Len(Daemons)), x = JobsOf(n)[j]
        PROVE  x \in Left'
    <3>1. PICK i \in 1..Len(Nodes) : Nodes[i] = n
      BY Names
    <3>2. i + 1 \in 1..Len(StartJobs) /\ StartJobs[i + 1] = JobsOf(n)
      BY <3>1, <1>1, Counts
    <3>3. j \in 1..Len(StartJobs[i + 1]) /\ StartJobs[i + 1][j] = x
      BY <3>2, <2>2, NodeSteps
    <3> QED
      BY <3>2, <3>3 DEF Left
  <2>3. CASE x \in {"node", "state", "vty"} \X N
    <3>1. PICK n \in N : x \in {NodeDir(n), StateDir(n), VtyDir(n)}
      BY <2>3 DEF NodeDir, StateDir, VtyDir
    <3>2. {1, 2, 3} \subseteq 1..(3 + Len(Daemons))
      BY Counts
    <3> QED
      BY <3>1, <3>2, <2>2, NodeSteps
  <2>4. CASE x \in Chores
    <3>1. PICK n \in N, d \in D : x = <<"daemon", <<n, d>>>>
      BY <2>4 DEF Chores
    <3>2. PICK j \in 1..Len(Daemons) : Daemons[j] = d
      BY Names
    <3>3. j + 3 \in 1..(3 + Len(Daemons)) /\ JobsOf(n)[j + 3] = x
      BY <3>1, <3>2, Counts, NodeSteps
    <3> QED
      BY <3>3, <2>2
  <2> QED
    BY <2>1, <2>3, <2>4 DEF Steps, Paths
<1>8. Left' \subseteq Steps
  <2> SUFFICES ASSUME NEW k \in 1..Len(StartJobs), NEW j \in 1..Len(StartJobs[k])
               PROVE  StartJobs[k][j] \in Steps
    BY DEF Left
  <2> QED
    BY <1>1, ElementOfSeq
<1> QED
  BY <1>3, <1>4, <1>5, <1>6, <1>7, <1>8

LEMMA RemoveLoop ==
  ASSUME todo' = Removals
  PROVE  Loop(todo)' /\ Distinct' /\ Left' = FrrPaths
<1>1. /\ Removals \in Seq(Seq(Steps)) /\ Len(Removals) = Len(Nodes) + 1
      /\ Removals[1] = <<Run>>
      /\ \A i \in 1..Len(Nodes) : Removals[i + 1] = <<StateDir(Nodes[i]), VtyDir(Nodes[i])>>
  <2> DEFINE t == [i \in 1..Len(Nodes) |-> <<StateDir(Nodes[i]), VtyDir(Nodes[i])>>]
  <2>1. ASSUME NEW i \in 1..Len(Nodes)
        PROVE  <<StateDir(Nodes[i]), VtyDir(Nodes[i])>> \in Seq(Steps)
    <3>1. StateDir(Nodes[i]) \in Steps /\ VtyDir(Nodes[i]) \in Steps
      BY Names DEF StateDir, VtyDir, Steps, Paths
    <3> QED
      BY <3>1
  <2>2. Len(Nodes) \in Nat
    BY Names
  <2>3. t \in Seq(Seq(Steps)) /\ Len(t) = Len(Nodes)
        /\ \A i \in 1..Len(Nodes) : t[i] = <<StateDir(Nodes[i]), VtyDir(Nodes[i])>>
    BY <2>1, <2>2
  <2>4. <<Run>> \in Seq(Steps)
    BY DEF Steps, Paths
  <2>5. Removals = <<<<Run>>>> \o t
    BY DEF Removals
  <2> HIDE DEF t
  <2> QED
    BY <2>3, <2>4, <2>5, ConsProperties
<1>2. ASSUME NEW k \in 1..Len(Removals), NEW j \in 1..Len(Removals[k])
      PROVE  \/ k = 1 /\ j = 1 /\ Removals[k][j] = Run
             \/ \E i \in 1..Len(Nodes) :
                  /\ k = i + 1 /\ Nodes[i] \in N
                  /\ \/ j = 1 /\ Removals[k][j] = <<"state", Nodes[i]>>
                     \/ j = 2 /\ Removals[k][j] = <<"vty", Nodes[i]>>
  <2>1. CASE k = 1
    <3>1. Removals[k] = <<Run>> /\ j \in 1..1
      BY <1>1, <2>1
    <3> QED
      BY <3>1, <2>1
  <2>2. CASE k # 1
    <3>0. k - 1 \in 1..Len(Nodes) /\ k - 1 + 1 = k
      BY <1>1, <2>2, Counts
    <3>1. k - 1 \in 1..Len(Nodes) /\ k - 1 + 1 = k /\ Nodes[k - 1] \in N
      BY <3>0, NodeAt
    <3>2. Removals[k] = <<StateDir(Nodes[k - 1]), VtyDir(Nodes[k - 1])>>
      BY <1>1, <3>1
    <3>3. j \in 1..2
      BY <3>2
    <3> QED
      BY <3>1, <3>2, <3>3 DEF StateDir, VtyDir
  <2> QED
    BY <2>1, <2>2
<1>3. Loop(todo)'
  <2>1. ASSUME NEW k \in 1..Len(Removals) PROVE Removals[k] # <<>>
    <3>1. CASE k = 1
      BY <3>1, <1>1
    <3>2. CASE k # 1
      <4>1. k - 1 \in 1..Len(Nodes) /\ k - 1 + 1 = k
        BY <1>1, <3>2, Counts
      <4>2. Removals[k] = <<StateDir(Nodes[k - 1]), VtyDir(Nodes[k - 1])>>
        BY <4>1, <1>1
      <4> QED
        BY <4>2
    <3> QED
      BY <3>1, <3>2
  <2> QED
    BY <1>1, <2>1 DEF Loop
<1>4. Distinct'
  <2> SUFFICES ASSUME NEW k1 \in 1..Len(Removals), NEW k2 \in 1..Len(Removals),
                      NEW j1 \in 1..Len(Removals[k1]), NEW j2 \in 1..Len(Removals[k2]),
                      Removals[k1][j1] = Removals[k2][j2]
               PROVE  k1 = k2 /\ j1 = j2
    BY DEF Distinct
  <2>1. CASE k1 = 1 /\ k2 = 1
    BY <1>2, <2>1
  <2>2. ASSUME NEW k \in 1..Len(Removals), NEW j \in 1..Len(Removals[k])
        PROVE  k = 1 <=> Removals[k][j] = Run
    <3>1. \A i \in 1..Len(Nodes) : i + 1 # 1
      BY Counts
    <3>2. CASE k = 1 /\ j = 1 /\ Removals[k][j] = Run
      BY <3>2
    <3>3. ASSUME NEW i \in 1..Len(Nodes), k = i + 1,
                 Removals[k][j] \in {<<"state", Nodes[i]>>, <<"vty", Nodes[i]>>}
          PROVE  k # 1 /\ Removals[k][j] # Run
      BY <3>3, <3>1, SMTT(30) DEF Run
    <3>4. ~(k = 1 /\ j = 1 /\ Removals[k][j] = Run) =>
            \E i \in 1..Len(Nodes) : k = i + 1 /\ Removals[k][j] \in {<<"state", Nodes[i]>>, <<"vty", Nodes[i]>>}
      <4> SUFFICES ASSUME ~(k = 1 /\ j = 1 /\ Removals[k][j] = Run)
                   PROVE  \E i \in 1..Len(Nodes) : k = i + 1 /\ Removals[k][j] \in {<<"state", Nodes[i]>>, <<"vty", Nodes[i]>>}
        OBVIOUS
      <4>1. PICK i \in 1..Len(Nodes) : /\ k = i + 1
                                       /\ \/ j = 1 /\ Removals[k][j] = <<"state", Nodes[i]>>
                                          \/ j = 2 /\ Removals[k][j] = <<"vty", Nodes[i]>>
        BY <1>2
      <4> QED
        BY <4>1
    <3> QED
      BY <3>2, <3>3, <3>4
  <2>3. CASE k1 # 1 /\ k2 # 1
    <3>1. PICK i1 \in 1..Len(Nodes) : /\ k1 = i1 + 1
                                      /\ \/ j1 = 1 /\ Removals[k1][j1] = <<"state", Nodes[i1]>>
                                         \/ j1 = 2 /\ Removals[k1][j1] = <<"vty", Nodes[i1]>>
      BY <1>2, <2>3
    <3>2. PICK i2 \in 1..Len(Nodes) : /\ k2 = i2 + 1
                                      /\ \/ j2 = 1 /\ Removals[k2][j2] = <<"state", Nodes[i2]>>
                                         \/ j2 = 2 /\ Removals[k2][j2] = <<"vty", Nodes[i2]>>
      BY <1>2, <2>3
    <3>3. Nodes[i1] = Nodes[i2] /\ j1 = j2
      BY <3>1, <3>2
    <3> QED
      BY <3>1, <3>2, <3>3, OneIndex
  <2> QED
    BY <2>1, <2>2, <2>3
<1>5. ASSUME NEW x \in FrrPaths PROVE x \in Left'
  <2>1. CASE x = Run
    <3>1. 1 \in 1..Len(Removals) /\ 1 \in 1..Len(Removals[1]) /\ Removals[1][1] = Run
      BY <1>1, Counts
    <3> QED
      BY <2>1, <3>1 DEF Left
  <2>2. CASE x \in {"state", "vty"} \X N
    <3>1. PICK n \in N : x \in {StateDir(n), VtyDir(n)}
      BY <2>2 DEF StateDir, VtyDir
    <3>2. PICK i \in 1..Len(Nodes) : Nodes[i] = n
      BY Names
    <3>3. i + 1 \in 1..Len(Removals) /\ Removals[i + 1] = <<StateDir(n), VtyDir(n)>>
      BY <3>2, <1>1, Counts
    <3>4. \E j \in 1..Len(Removals[i + 1]) : Removals[i + 1][j] = x
      BY <3>1, <3>3
    <3> QED
      BY <3>3, <3>4 DEF Left
  <2> QED
    BY <2>1, <2>2 DEF FrrPaths
<1>6. Left' \subseteq FrrPaths
  <2> SUFFICES ASSUME NEW k \in 1..Len(Removals), NEW j \in 1..Len(Removals[k])
               PROVE  Removals[k][j] \in FrrPaths
    BY DEF Left
  <2>1. CASE k = 1 /\ j = 1 /\ Removals[k][j] = Run
    BY <2>1 DEF FrrPaths
  <2>2. ASSUME NEW n \in N, Removals[k][j] \in {<<"state", n>>, <<"vty", n>>}
        PROVE  Removals[k][j] \in FrrPaths
    BY <2>2 DEF FrrPaths
  <2>3. ~(k = 1 /\ j = 1 /\ Removals[k][j] = Run) =>
          \E i \in 1..Len(Nodes) : /\ Nodes[i] \in N
                                   /\ Removals[k][j] \in {<<"state", Nodes[i]>>, <<"vty", Nodes[i]>>}
    <3> SUFFICES ASSUME ~(k = 1 /\ j = 1 /\ Removals[k][j] = Run)
                 PROVE  \E i \in 1..Len(Nodes) : /\ Nodes[i] \in N
                                   /\ Removals[k][j] \in {<<"state", Nodes[i]>>, <<"vty", Nodes[i]>>}
      OBVIOUS
    <3>1. PICK i \in 1..Len(Nodes) : /\ Nodes[i] \in N
                                     /\ \/ j = 1 /\ Removals[k][j] = <<"state", Nodes[i]>>
                                        \/ j = 2 /\ Removals[k][j] = <<"vty", Nodes[i]>>
      BY <1>2
    <3> QED
      BY <3>1
  <2> QED
    BY <2>1, <2>2, <2>3
<1> QED
  BY <1>3, <1>4, <1>5, <1>6

-----------------------------------------------------------------------------
(***************************************************************************)
(* Types and control: which command is where, and what is left to do.      *)
(***************************************************************************)
Labels == {"idle", "jobs", "marker", "wait", "save", "read", "terminate", "validate", "remove"}
Starting == {"jobs", "marker", "wait", "save"}
Entries == (N \X D) \X Pids

(* The type invariant.                                                      *)
TypeOK ==
  /\ pc \in Labels
  /\ cmd \in {"none", "stop", "restart", "start"} /\ half \in BOOLEAN
  /\ dirs \in [Paths -> {"absent", "bare", "ours", "other"}]
  /\ meta \in [N -> [D -> Pids \cup {NoPid}]]
  /\ pidfile \in [N -> [D -> Pids \cup {NoPid}]]
  /\ proc \in [Pids -> (N \X D) \cup {Free, Zombie, Stranger}]
  /\ started \in Seq(Entries)
  /\ queue \in Seq(Entries)

(* Which command is where, and what it holds there.                         *)
Control ==
  /\ pc \in {"idle", "terminate", "validate"} => todo = <<>>
  /\ pc \in {"marker", "wait", "save"} => todo # <<>>
  /\ pc \in {"wait", "save"} => started # <<>>
  /\ pc \in Starting => cmd = "start" /\ queue = <<>>
  /\ pc = "idle" => cmd = "none" /\ queue = <<>> /\ started = <<>>
  /\ pc # "idle" => cmd # "none"
  /\ pc = "read" => cmd # "start"
  /\ cmd # "start" => started = <<>>
  /\ pc \in {"validate", "remove"} /\ cmd # "start" => queue = <<>>
  /\ half = TRUE => (pc = "jobs" /\ todo # <<>>) \/ (pc = "terminate" /\ queue # <<>>)

(* The steps to come.                                                       *)
Loops ==
  /\ Loop(todo) /\ Distinct
  /\ pc = "read" => Left \subseteq Chores
  /\ pc = "remove" => Left \subseteq FrrPaths
  /\ pc = "marker" \/ (pc = "jobs" /\ half = TRUE) => Job \in Paths
  /\ pc \in {"wait", "save"} => Job = <<"daemon", Last(started)[1]>>

(* Where the running command is agrees with what it holds.                  *)
CInv == TypeOK /\ Control /\ Loops

LEMMA ReverseProperties ==
  ASSUME NEW S, NEW s \in Seq(S)
  PROVE  /\ Reverse(s) \in Seq(S) /\ Len(Reverse(s)) = Len(s)
         /\ \A i \in 1..Len(s) : (Len(s) - i) + 1 \in 1..Len(s) /\ Reverse(s)[i] = s[(Len(s) - i) + 1]
<1>1. Len(s) \in Nat
  OBVIOUS
<1>2. \A i \in 1..Len(s) : (Len(s) - i) + 1 \in 1..Len(s)
  BY <1>1
<1>3. \A i \in 1..Len(s) : s[(Len(s) - i) + 1] \in S
  BY <1>2, ElementOfSeq
<1> QED
  BY <1>1, <1>2, <1>3 DEF Reverse

LEMMA EmptyLoop ==
  ASSUME todo' = <<>>
  PROVE  Loop(todo)' /\ Distinct' /\ Left' = {}
  BY EmptySeq DEF Loop, Distinct, Left

(* The kinds of step.                                                       *)
LEMMA EndSteps ==
  ASSUME NEW how, End(how)
  PROVE  Control' /\ Loops'
  BY EmptyLoop DEF End, Control, Loops, Starting

LEMMA RaiseSteps ==
  ASSUME CInv, Raise
  PROVE  /\ Control' /\ Loops' /\ pc' \in {"idle", "terminate", "validate"}
         /\ queue' \in Seq(Entries) /\ started' \in Seq(Entries)
         /\ cmd' \in {"none", "stop", "restart", "start"} /\ half' = FALSE
         /\ proc' \in {proc, Reaped(proc)}
<1>1. CASE pc \in Starting /\ pc' = "terminate" /\ queue' = Reverse(started) /\ todo' = <<>>
           /\ half' = FALSE /\ UNCHANGED <<cmd, started, outcome, proc>>
  BY <1>1, ReverseProperties, EmptyLoop DEF CInv, TypeOK, Control, Loops, Starting
<1>2. CASE End(Failed) /\ proc' = Reaped(proc)
  BY <1>2, EndSteps, EmptySeq DEF End
<1>3. CASE pc = "terminate" /\ cmd = "start" /\ pc' = "validate"
           /\ half' = FALSE /\ UNCHANGED <<todo, cmd, started, outcome, queue, proc>>
  BY <1>3, EmptyLoop DEF CInv, TypeOK, Control, Loops, Starting
<1> QED
  BY <1>1, <1>2, <1>3 DEF Raise, Starting

LEMMA ReapedType ==
  ASSUME TypeOK
  PROVE  Reaped(proc) \in [Pids -> (N \X D) \cup {Free, Zombie, Stranger}]
  BY DEF TypeOK, Reaped

LEMMA KilledType ==
  ASSUME TypeOK, NEW pid
  PROVE  Killed(pid) \in [Pids -> (N \X D) \cup {Free, Zombie, Stranger}]
  BY DEF TypeOK, Killed

(* The step a loop ends with leaves the rest of it.                         *)
LEMMA RestLoop ==
  ASSUME CInv, todo # <<>>, todo' = Rest
  PROVE  Loop(todo)' /\ Distinct' /\ Left' \subseteq Left
  BY RestLeft DEF CInv, Loops

LEMMA SameLoop ==
  ASSUME CInv, UNCHANGED todo
  PROVE  Loop(todo)' /\ Distinct' /\ Left' = Left /\ Job' = Job
  BY SMTT(30) DEF CInv, Loops, Loop, Distinct, Left, Job

LEMMA LastStarted ==
  ASSUME TypeOK, started # <<>>
  PROVE  Last(started) \in Entries /\ Last(started) = started[Len(started)]
         /\ Len(started) \in 1..Len(started)
<1>1. Len(started) \in Nat \ {0}
  BY EmptySeq DEF TypeOK
<1> QED
  BY <1>1, ElementOfSeq DEF TypeOK, Last

LEMMA ChoreSteps ==
  ASSUME NEW x \in Steps, x \notin Paths
  PROVE  x = <<"daemon", x[2]>> /\ x[2] \in N \X D /\ x[2] = <<x[2][1], x[2][2]>>
         /\ x[2][1] \in N /\ x[2][2] \in D
  BY DEF Steps, Chores

LEMMA StepTyped == CInv /\ [Next]_vars => TypeOK'
<1> SUFFICES ASSUME CInv, [Next]_vars PROVE TypeOK'
  OBVIOUS
<1> USE DEF CInv, TypeOK, Labels, disk
<1>a. CASE Start
  BY <1>a DEF Start
<1>b. CASE FindDirectory
  BY <1>b, RaiseSteps, ReapedType DEF FindDirectory
<1>x. CASE MakeDirectory
  <2>1. dirs' \in [Paths -> {"absent", "bare", "ours", "other"}]
    BY <1>x DEF MakeDirectory
  <2> QED
    BY <1>x, <2>1, RaiseSteps, ReapedType DEF MakeDirectory
<1>c. CASE WriteMarker
  BY <1>c DEF WriteMarker
<1>d. CASE Spawn
  <2>1. CASE Raise /\ UNCHANGED disk
    BY <2>1, RaiseSteps, ReapedType
  <2>2. ASSUME NEW pid \in Pids, proc' = [proc EXCEPT ![pid] = Job[2]], UNCHANGED <<disk, half>>,
               pc = "jobs", todo # <<>>, Job \notin Paths,
               \/ started' = Append(started, <<Job[2], pid>>) /\ pc' = "wait" /\ UNCHANGED <<cmd, queue>>
               \/ pc' = "terminate" /\ queue' = Reverse(started) /\ UNCHANGED <<cmd, started>>
        PROVE  TypeOK'
    <3>1. Job[2] \in N \X D
      BY <2>2, JobIsLeft, ChoreSteps DEF Loops
    <3>2. proc' \in [Pids -> (N \X D) \cup {Free, Zombie, Stranger}]
      BY <2>2, <3>1
    <3>3. <<Job[2], pid>> \in Entries
      BY <3>1 DEF Entries
    <3>4. Append(started, <<Job[2], pid>>) \in Seq(Entries)
      BY <3>3, AppendProperties
    <3>5. Reverse(started) \in Seq(Entries)
      BY ReverseProperties
    <3> QED
      BY <2>2, <3>2, <3>4, <3>5
  <2> QED
    BY <1>d, <2>1, <2>2 DEF Spawn
<1>e. CASE WaitStarted
  <2>1. Reverse(started) \in Seq(Entries)
    BY ReverseProperties
  <2> QED
    BY <1>e, <2>1 DEF WaitStarted
<1>f. CASE SaveMetadata
  <2>1. Last(started) \in Entries
    BY <1>f, LastStarted DEF SaveMetadata, Control
  <2>2. Last(started)[1][1] \in N /\ Last(started)[1][2] \in D /\ Last(started)[2] \in Pids
    BY <2>1 DEF Entries
  <2>3. meta' \in [N -> [D -> Pids \cup {NoPid}]]
    BY <1>f, <2>2 DEF SaveMetadata
  <2> QED
    BY <1>f, <2>3 DEF SaveMetadata
<1>g. CASE Started
  BY <1>g, ReapedType, EmptySeq DEF Started, End
<1>h. CASE Stop
  BY <1>h DEF Stop
<1>i. CASE ReadRecord
  <2>1. PICK pid : /\ pid = Record(Job[2][1], Job[2][2])
                   /\ queue' = IF dirs[NodeDir(Job[2][1])] # "absent" /\ Exists(pid)
                                 THEN <<<<Job[2], pid>>>> \o queue ELSE queue
    BY <1>i DEF ReadRecord
  <2>2. Job \in Chores
    BY <1>i, JobIsLeft DEF ReadRecord, Loops
  <2>3. Job[2] \in N \X D /\ Job[2][1] \in N /\ Job[2][2] \in D
    BY <2>2 DEF Chores
  <2>4. pid \in Pids \cup {NoPid}
    BY <2>1, <2>3 DEF Record
  <2>5. Exists(pid) => <<Job[2], pid>> \in Entries
    BY <2>3, <2>4 DEF Exists, Entries
  <2>6. queue' \in Seq(Entries)
    BY <2>1, <2>5, ConsProperties
  <2> QED
    BY <1>i, <2>6 DEF ReadRecord
<1>j. CASE AllRead
  BY <1>j DEF AllRead
<1>k. CASE SendTerm
  <2>1. Tail(queue) \in Seq(Entries)
    BY <1>k, HeadTailProperties DEF SendTerm
  <2> QED
    BY <1>k, <2>1 DEF SendTerm
<1>y. CASE Gone
  <2>1. Tail(queue) \in Seq(Entries)
    BY <1>y, HeadTailProperties DEF Gone, Control
  <2> QED
    BY <1>y, <2>1 DEF Gone
<1>z. CASE SendKill
  <2>1. Tail(queue) \in Seq(Entries)
    BY <1>z, HeadTailProperties DEF SendKill, Control
  <2>2. proc' \in [Pids -> (N \X D) \cup {Free, Zombie, Stranger}]
    BY <1>z, KilledType DEF SendKill
  <2> QED
    BY <1>z, <2>1, <2>2 DEF SendKill
<1>l. CASE Terminated
  BY <1>l DEF Terminated
<1>m. CASE ValidateAll
  BY <1>m, ReapedType, EmptySeq DEF ValidateAll, End
<1>n. CASE RemoveNext
  <2>1. NoRecords \in [N -> [D -> Pids \cup {NoPid}]]
    BY DEF NoRecords
  <2>2. CASE RemoveTree(Job) /\ UNCHANGED <<pc, cmd, half, proc, started, queue>>
    BY <2>1, <2>2 DEF RemoveTree, Without
  <2>3. CASE TearTree(Job) /\ End(Failed) /\ proc' = Reaped(proc)
    <3>1. dirs' \in [Paths -> {"absent", "bare", "ours", "other"}]
      BY <2>3 DEF TearTree
    <3>2. meta' \in [N -> [D -> Pids \cup {NoPid}]] /\ pidfile' \in [N -> [D -> Pids \cup {NoPid}]]
      BY <2>1, <2>3 DEF TearTree
    <3> QED
      BY <2>3, <3>1, <3>2, ReapedType, EmptySeq DEF End
  <2> QED
    BY <1>n, <2>2, <2>3 DEF RemoveNext
<1>o. CASE Removed
  BY <1>o, ReapedType, EmptySeq DEF Removed, End
<1>p. CASE Interrupt
  BY <1>p, RaiseSteps, ReapedType DEF Interrupt
<1>q. CASE WritePidFile
  <2>1. PICK pid \in Pids : /\ Daemon(pid)
                            /\ pidfile' = [pidfile EXCEPT ![proc[pid][1]] = [@ EXCEPT ![proc[pid][2]] = pid]]
    BY <1>q DEF WritePidFile
  <2>2. proc[pid][1] \in N /\ proc[pid][2] \in D
    BY <2>1 DEF Daemon
  <2>3. pidfile' \in [N -> [D -> Pids \cup {NoPid}]]
    BY <2>1, <2>2
  <2> QED
    BY <1>q, <2>3 DEF WritePidFile
<1>r. CASE Die
  <2>1. proc' \in [Pids -> (N \X D) \cup {Free, Zombie, Stranger}]
    BY <1>r DEF Die
  <2> QED
    BY <1>r, <2>1 DEF Die
<1>rr. CASE Obey
  <2>1. proc' \in [Pids -> (N \X D) \cup {Free, Zombie, Stranger}]
    BY <1>rr, KilledType DEF Obey
  <2> QED
    BY <1>rr, <2>1 DEF Obey
<1>s. CASE Claim
  BY <1>s DEF Claim
<1>t. CASE Reuse
  BY <1>t DEF Reuse
<1>u. CASE Kill
  BY <1>u, ReapedType, EmptySeq DEF Kill, End
<1>v. CASE Reboot
  BY <1>v, EmptySeq DEF Reboot, End, NoRecords
<1>w. CASE UNCHANGED vars
  BY <1>w DEF vars
<1> QED
  BY <1>a, <1>b, <1>x, <1>c, <1>d, <1>e, <1>f, <1>g, <1>h, <1>i, <1>j, <1>k, <1>y, <1>z,
     <1>l, <1>m, <1>n, <1>o, <1>p, <1>q, <1>r, <1>rr, <1>s, <1>t, <1>u, <1>v, <1>w
  DEF Next, Command

LEMMA StepControl == CInv /\ [Next]_vars => Control' /\ Loops'
<1> SUFFICES ASSUME CInv, [Next]_vars PROVE Control' /\ Loops'
  OBVIOUS
<1> USE DEF Control, Loops, Starting
<1>a. CASE Start
  BY <1>a, StartLoop, ReadLoop, SameLoop DEF Start, CInv
<1>b. CASE FindDirectory
  <2>1. CASE Raise
    BY <2>1, RaiseSteps
  <2>2. CASE dirs[Job] = "absent" /\ pc = "jobs" /\ todo # <<>> /\ Job \in Paths
             /\ UNCHANGED <<pc, todo, cmd, started, queue>>
    BY <2>2, SameLoop DEF CInv
  <2>3. CASE dirs[Job] # "absent" /\ pc = "jobs" /\ todo # <<>> /\ half' = FALSE /\ todo' = Rest
             /\ UNCHANGED <<pc, cmd, started, queue>>
    BY <2>3, RestLoop DEF CInv
  <2> QED
    BY <1>b, <2>1, <2>2, <2>3 DEF FindDirectory
<1>x. CASE MakeDirectory
  BY <1>x, RaiseSteps, SameLoop DEF MakeDirectory, CInv
<1>c. CASE WriteMarker
  BY <1>c, RestLoop DEF WriteMarker, CInv
<1>d. CASE Spawn
  <2>1. CASE Raise
    BY <2>1, RaiseSteps
  <2>2. ASSUME NEW pid \in Pids, UNCHANGED disk,
               pc = "jobs", todo # <<>>, Job \notin Paths,
               started' = Append(started, <<Job[2], pid>>) /\ pc' = "wait" /\ UNCHANGED <<todo, cmd, half, queue>>
        PROVE  Control' /\ Loops'
    <3>1. Job[2] \in N \X D /\ Job = <<"daemon", Job[2]>>
      BY <2>2, JobIsLeft, ChoreSteps DEF CInv
    <3>2. <<Job[2], pid>> \in Entries
      BY <3>1 DEF Entries
    <3>3. started' # <<>> /\ Last(started)' = <<Job[2], pid>>
      BY <2>2, <3>2, AppendProperties DEF CInv, TypeOK, Last
    <3>4. half # TRUE
      BY <2>2 DEF CInv, Loops
    <3>5. Control'
      BY <2>2, <3>3, <3>4 DEF CInv
    <3>6. Loops'
      BY <2>2, <3>1, <3>3, <3>4, SameLoop
    <3> QED
      BY <3>5, <3>6
  <2>3. CASE pc = "jobs" /\ pc' = "terminate" /\ todo' = <<>> /\ Job \notin Paths
             /\ UNCHANGED <<cmd, half, started>>
    BY <2>3, EmptyLoop DEF CInv
  <2> QED
    BY <1>d, <2>1, <2>2, <2>3 DEF Spawn
<1>e. CASE WaitStarted
  BY <1>e, SameLoop, EmptyLoop DEF WaitStarted, CInv
<1>f. CASE SaveMetadata
  BY <1>f, RestLoop DEF SaveMetadata, CInv
<1>g. CASE Started
  BY <1>g, EndSteps DEF Started
<1>h. CASE Stop
  BY <1>h, ReadLoop, SameLoop DEF Stop, CInv
<1>i. CASE ReadRecord
  BY <1>i, RestLoop DEF ReadRecord, CInv
<1>j. CASE AllRead
  BY <1>j, SameLoop DEF AllRead, CInv
<1>k. CASE SendTerm
  BY <1>k, SameLoop DEF SendTerm, CInv
<1>y. CASE Gone
  BY <1>y, SameLoop DEF Gone, CInv
<1>z. CASE SendKill
  BY <1>z, SameLoop DEF SendKill, CInv
<1>l. CASE Terminated
  BY <1>l, SameLoop DEF Terminated, CInv
<1>m. CASE ValidateAll
  BY <1>m, EndSteps, RemoveLoop DEF ValidateAll, CInv
<1>n. CASE RemoveNext
  BY <1>n, EndSteps, RestLoop DEF RemoveNext, CInv
<1>o. CASE Removed
  BY <1>o, EndSteps, StartLoop DEF Removed, CInv
<1>p. CASE Interrupt
  BY <1>p, RaiseSteps DEF Interrupt
<1>q. CASE WritePidFile
  BY <1>q, SameLoop DEF WritePidFile, CInv
<1>r. CASE Die
  BY <1>r, SameLoop DEF Die, CInv
<1>rr. CASE Obey
  BY <1>rr, SameLoop DEF Obey, CInv
<1>s. CASE Claim
  BY <1>s, SameLoop DEF Claim, CInv
<1>t. CASE Reuse
  BY <1>t, SameLoop DEF Reuse, CInv
<1>u. CASE Kill
  BY <1>u, EndSteps DEF Kill
<1>v. CASE Reboot
  BY <1>v, EndSteps DEF Reboot
<1>w. CASE UNCHANGED vars
  BY <1>w, SameLoop DEF vars, CInv
<1> QED
  BY <1>a, <1>b, <1>x, <1>c, <1>d, <1>e, <1>f, <1>g, <1>h, <1>i, <1>j, <1>k, <1>y, <1>z,
     <1>l, <1>m, <1>n, <1>o, <1>p, <1>q, <1>r, <1>rr, <1>s, <1>t, <1>u, <1>v, <1>w
  DEF Next, Command

-----------------------------------------------------------------------------
(***************************************************************************)
(* The directories: somebody else's are never taken.                       *)
(***************************************************************************)

(* No node's directory is somebody else's; nothing is, when the removal     *)
(* begins; and the directory that is to be made is not there, the one that  *)
(* gets its marker was made by this start(), unless somebody made it late.  *)
DirsInv ==
  /\ \A n \in N : dirs[NodeDir(n)] # "other"
  /\ pc = "jobs" /\ half = TRUE => dirs[Job] = "absent" \/ "late" \in past
  /\ pc = "marker" => dirs[Job] = "bare" \/ "late" \in past
  /\ pc = "remove" => "late" \in past \/ \A p \in Paths : dirs[p] # "other"

(* A directory without a marker is the one that start() is about to mark,   *)
(* unless a command was cut short; a refusal met somebody else's directory. *)
RefusedInv ==
  /\ "cut" \notin past => \A p \in Paths : dirs[p] = "bare" => pc = "marker" /\ p = Job
  /\ outcome = "refused" /\ "cut" \notin past => pc = "idle" /\ \E p \in Paths : dirs[p] = "other"

DInv == DirsInv /\ RefusedInv

(* What a validation says.                                                  *)
LEMMA ValidDirs ==
  ASSUME TypeOK, DirsInv, Valid
  PROVE  \A p \in Paths : dirs[p] # "other"
<1> SUFFICES ASSUME NEW p \in Paths PROVE dirs[p] # "other"
  OBVIOUS
<1>1. CASE p = Run
  BY <1>1 DEF Valid, Mine, Legacy
<1>2. ASSUME NEW n \in N, p \in {NodeDir(n), StateDir(n), VtyDir(n)}
      PROVE  dirs[p] # "other"
  BY <1>2 DEF Valid, Mine, DirsInv
<1>3. p = Run \/ \E n \in N : p \in {NodeDir(n), StateDir(n), VtyDir(n)}
  BY DEF Paths, NodeDir, StateDir, VtyDir
<1> QED
  BY <1>1, <1>2, <1>3

LEMMA OthersAreArtifacts ==
  ASSUME DirsInv, NEW p \in Paths, dirs[p] = "other"
  PROVE  HasArtifacts
<1>1. p \notin {"node"} \X N
  BY DEF DirsInv, NodeDir
<1> QED
  BY <1>1 DEF HasArtifacts, Paths

LEMMA BareIsRefused ==
  ASSUME ~Valid, \A p \in Paths : dirs[p] # "bare", TypeOK
  PROVE  \E p \in Paths : dirs[p] = "other"
<1>1. Run \in Paths /\ \A n \in N : {NodeDir(n), StateDir(n), VtyDir(n)} \subseteq Paths
  BY DEF Paths, NodeDir, StateDir, VtyDir
<1>2. \E p \in Paths : ~Mine(p)
  BY <1>1 DEF Valid
<1> QED
  BY <1>2 DEF Mine, TypeOK

LEMMA JobIsPath ==
  ASSUME CInv
  PROVE  pc = "marker" \/ (pc = "jobs" /\ half = TRUE) => Job \in Paths
  BY DEF CInv, Loops

LEMMA NodePathsArePaths == \A n \in N : NodeDir(n) \in Paths
  BY DEF NodeDir, Paths

LEMMA RaiseKeepsDirs ==
  ASSUME CInv, DInv, Raise, UNCHANGED disk, past \subseteq past',
         pc = "marker" => "cut" \in past'
  PROVE  DInv'
<1>1. pc' \notin {"marker", "remove", "jobs"}
  BY RaiseSteps
<1>2. DirsInv'
  BY <1>1 DEF DInv, DirsInv, disk
<1>3. outcome' \in {outcome, "rollback failed", "not stopped"} /\ pc # "idle"
  BY DEF Raise, End, Failed
<1>4. RefusedInv'
  BY <1>3 DEF DInv, RefusedInv, disk
<1> QED
  BY <1>2, <1>4 DEF DInv

(* A command that ends, and leaves the directories alone.                   *)
LEMMA EndKeepsDirs ==
  ASSUME NEW how, DInv, End(how), how # "refused", UNCHANGED dirs, past \subseteq past',
         pc = "marker" => "cut" \in past'
  PROVE  DInv'
  BY DEF DInv, DirsInv, RefusedInv, End

LEMMA StepDirs == CInv /\ DInv /\ [Next]_vars => DInv'
<1> SUFFICES ASSUME CInv, DInv, [Next]_vars PROVE DInv'
  OBVIOUS
<1> USE DEF DInv, DirsInv, RefusedInv, disk
<1>0. TypeOK
  BY DEF CInv
<1>1. half = TRUE => pc \in {"jobs", "terminate"}
  BY DEF CInv, Control
<1>a. CASE Start
  BY <1>a, <1>0, <1>1, BareIsRefused, OthersAreArtifacts, ValidDirs DEF Start
<1>b. CASE FindDirectory
  <2>1. CASE Raise
    BY <1>b, <2>1, RaiseKeepsDirs DEF FindDirectory
  <2>2. CASE dirs[Job] = "absent" /\ todo' = todo /\ UNCHANGED <<pc, dirs, outcome, past>>
    BY <1>b, <2>2, SameLoop DEF FindDirectory
  <2>3. CASE dirs[Job] # "absent" /\ half' = FALSE /\ UNCHANGED <<pc, dirs, outcome, past>>
    BY <1>b, <2>3 DEF FindDirectory
  <2> QED
    BY <1>b, <2>1, <2>2, <2>3 DEF FindDirectory
<1>x. CASE MakeDirectory
  <2>1. CASE Raise /\ UNCHANGED dirs
    BY <1>x, <2>1, RaiseKeepsDirs DEF MakeDirectory
  <2>2. CASE pc' = "marker" /\ todo' = todo /\ UNCHANGED outcome
             /\ dirs' = [dirs EXCEPT ![Job] = IF @ = "absent" THEN "bare" ELSE @]
    <3>1. Job' = Job /\ Job \in Paths /\ pc = "jobs" /\ half = TRUE /\ past' = past
      BY <1>x, <2>2, SameLoop DEF MakeDirectory, CInv, Loops
    <3>2. \A p \in Paths : dirs'[p] = dirs[p] \/ (p = Job /\ dirs'[p] = "bare")
      BY <2>2, <1>0 DEF TypeOK
    <3>3. dirs[Job] = "absent" => dirs'[Job] = "bare"
      BY <2>2, <3>1, <1>0 DEF TypeOK
    <3> QED
      BY <2>2, <3>1, <3>2, <3>3, NodePathsArePaths
  <2> QED
    BY <1>x, <2>1, <2>2 DEF MakeDirectory
<1>c. CASE WriteMarker
  BY <1>c, <1>0, <1>1, JobIsPath, NodePathsArePaths DEF WriteMarker, TypeOK
<1>d. CASE Spawn
  BY <1>d, RaiseKeepsDirs DEF Spawn, Note
<1>e. CASE WaitStarted
  BY <1>e DEF WaitStarted
<1>f. CASE SaveMetadata
  BY <1>f, <1>1 DEF SaveMetadata
<1>g. CASE Started
  BY <1>g, EndKeepsDirs DEF Started
<1>h. CASE Stop
  BY <1>h, <1>0, BareIsRefused, OthersAreArtifacts, ValidDirs DEF Stop
<1>i. CASE ReadRecord
  BY <1>i DEF ReadRecord
<1>j. CASE AllRead
  BY <1>j DEF AllRead
<1>k. CASE SendTerm
  BY <1>k DEF SendTerm, Signal
<1>y. CASE Gone
  BY <1>y DEF Gone
<1>z. CASE SendKill
  BY <1>z DEF SendKill, Signal
<1>l. CASE Terminated
  BY <1>l DEF Terminated
<1>m. CASE ValidateAll
  BY <1>m, <1>0, ValidDirs, EndKeepsDirs DEF ValidateAll, Note, Failed
<1>n. CASE RemoveNext
  <2>1. CASE RemoveTree(Job) /\ UNCHANGED <<pc, outcome, past>> /\ pc = "remove"
    BY <2>1, NodePathsArePaths, <1>0 DEF RemoveTree, Without, TypeOK
  <2>2. CASE TearTree(Job) /\ pc = "remove" /\ End(Failed) /\ past' = past \cup CutShort
    <3>1. "cut" \in past'
      BY <2>2 DEF CutShort
    <3>2. \A n \in N : dirs'[NodeDir(n)] # "other"
      BY <2>2, NodePathsArePaths, <1>0 DEF TearTree, TypeOK
    <3> QED
      BY <2>2, <3>1, <3>2 DEF End, Failed
  <2> QED
    BY <1>n, <2>1, <2>2 DEF RemoveNext
<1>o. CASE Removed
  BY <1>o, <1>1, EndKeepsDirs DEF Removed
<1>p. CASE Interrupt
  <2>1. past \subseteq past' /\ (pc = "marker" => "cut" \in past')
    BY <1>p DEF Interrupt, CutShort
  <2> QED
    BY <1>p, <2>1, RaiseKeepsDirs DEF Interrupt
<1>q. CASE WritePidFile
  BY <1>q, SameLoop DEF WritePidFile
<1>r. CASE Die
  BY <1>r, SameLoop DEF Die, Note
<1>rr. CASE Obey
  BY <1>rr, SameLoop DEF Obey
<1>s. CASE Claim
  <2>1. PICK p \in Paths : /\ dirs[p] = "absent" /\ p[1] # "node" /\ dirs' = [dirs EXCEPT ![p] = "other"]
                          /\ past' = past \cup (IF Late(p) THEN {"late"} ELSE {})
    BY <1>s DEF Claim
  <2>2. \A n \in N : NodeDir(n) # p
    BY <2>1 DEF NodeDir
  <2>3. DirsInv'
    <3>1. UNCHANGED <<pc, half>> /\ Job' = Job /\ past \subseteq past'
      BY <1>s, <2>1, SameLoop DEF Claim
    <3>2. \A q \in Paths : dirs'[q] = dirs[q] \/ (q = p /\ dirs'[q] = "other")
      BY <2>1, <1>0 DEF TypeOK
    <3>3. \A n \in N : dirs'[NodeDir(n)] # "other"
      BY <2>2, <3>2, NodePathsArePaths
    <3>4. pc = "remove" => "late" \in past'
      BY <2>1 DEF Late
    <3>5. pc = "jobs" /\ half = TRUE => dirs'[Job] = "absent" \/ "late" \in past'
      <4>1. pc = "jobs" /\ half = TRUE /\ p = Job => "late" \in past'
        BY <2>1 DEF Late
      <4> QED
        BY <3>1, <3>2, <4>1, JobIsPath
    <3>6. pc = "marker" => dirs'[Job] = "bare" \/ "late" \in past'
      BY <2>1, <3>1, <3>2, JobIsPath
    <3> QED
      BY <3>1, <3>3, <3>4, <3>5, <3>6
  <2>4. RefusedInv'
    BY <1>s, <2>1, <1>0, SameLoop DEF Claim, TypeOK
  <2> QED
    BY <2>3, <2>4
<1>t. CASE Reuse
  BY <1>t, SameLoop DEF Reuse
<1>u. CASE Kill
  <2>1. past \subseteq past' /\ (pc = "marker" => "cut" \in past')
    BY <1>u DEF Kill, CutShort
  <2> QED
    BY <1>u, <2>1, EndKeepsDirs DEF Kill
<1>v. CASE Reboot
  <2>1. past \subseteq past' /\ (pc = "marker" => "cut" \in past')
    BY <1>v DEF Reboot, CutShort
  <2>2. \A n \in N : dirs'[NodeDir(n)] # "other"
    BY <1>v, NodePathsArePaths DEF Reboot, NodeDir
  <2> QED
    BY <1>v, <2>1, <2>2 DEF Reboot, End
<1>w. CASE UNCHANGED vars
  BY <1>w, SameLoop DEF vars
<1> QED
  BY <1>a, <1>b, <1>x, <1>c, <1>d, <1>e, <1>f, <1>g, <1>h, <1>i, <1>j, <1>k, <1>y, <1>z,
     <1>l, <1>m, <1>n, <1>o, <1>p, <1>q, <1>r, <1>rr, <1>s, <1>t, <1>u, <1>v, <1>w
  DEF Next, Command

LEMMA InitDirs == Init => CInv /\ DInv
<1> SUFFICES ASSUME Init PROVE CInv /\ DInv
  OBVIOUS
<1>1. TypeOK
  BY EmptySeq DEF Init, TypeOK, Labels, NoRecords
<1>2. Control
  BY DEF Init, Control, Starting
<1>3. Loops
  BY EmptySeq DEF Init, Loops, Loop, Distinct
<1>4. DInv
  BY DEF Init, DInv, DirsInv, RefusedInv
<1> QED
  BY <1>1, <1>2, <1>3, <1>4 DEF CInv

(* Control and directories are an inductive invariant by themselves: neither *)
(* the records nor the processes decide what is made, marked or removed.    *)
THEOREM DirsInvariance == Spec => [](CInv /\ DInv)
<1>1. CInv /\ DInv /\ [Next]_vars => (CInv /\ DInv)'
  BY StepTyped, StepControl, StepDirs DEF CInv
<1> QED
  BY InitDirs, <1>1, PTL DEF Spec

(* start() and stop() refuse a deployment only for a directory of somebody  *)
(* else, or after a command was cut short between a directory and its       *)
(* marker or within a removal: _validate_artifacts accepts all the rest.    *)
THEOREM RefusalsHaveCauses == Spec => []RefusedForCause
<1>1. DInv => RefusedForCause
  BY DEF DInv, RefusedInv, RefusedForCause
<1> QED
  BY DirsInvariance, <1>1, PTL

(* No step of start(), stop() or their rollbacks takes over or removes a    *)
(* directory of somebody else, unless it appeared between the look and the  *)
(* mkdir of _prepare_managed_directory, or between the validation and the   *)
(* removal of _cleanup_deployment.                                          *)
THEOREM OthersAreKept == Spec => OthersKept
<1> DEFINE Kept == \A p \in Paths : dirs[p] = "other" => dirs'[p] = "other" \/ Reboot \/ "late" \in past
<1>1. CInv /\ DInv /\ [Next]_vars => [Kept]_vars
  <2> SUFFICES ASSUME CInv, DInv, [Next]_vars PROVE Kept
    OBVIOUS
  <2> USE DEF disk
  <2>0. TypeOK /\ DirsInv
    BY DEF CInv, DInv
  <2>1. CASE UNCHANGED dirs
    BY <2>1
  <2>2. CASE MakeDirectory
    BY <2>2, <2>0 DEF MakeDirectory, TypeOK, disk
  <2>3. CASE WriteMarker
    BY <2>3, <2>0, JobIsPath DEF WriteMarker, TypeOK, DirsInv
  <2>4. CASE RemoveNext
    BY <2>4, <2>0 DEF RemoveNext, DirsInv
  <2>5. CASE Claim
    BY <2>5, <2>0 DEF Claim, TypeOK
  <2>6. CASE Reboot
    BY <2>6
  <2>7. CASE Start \/ FindDirectory \/ Spawn \/ WaitStarted \/ SaveMetadata \/ Started \/ Stop
             \/ ReadRecord \/ AllRead \/ SendTerm \/ Gone \/ SendKill \/ Terminated \/ ValidateAll \/ Removed
    BY <2>7, <2>1 DEF Start, FindDirectory, Spawn, WaitStarted, SaveMetadata, Started, Stop,
                      ReadRecord, AllRead, SendTerm, Gone, SendKill, Terminated, ValidateAll, Removed
  <2>8. CASE Interrupt \/ WritePidFile \/ Die \/ Obey \/ Reuse \/ Kill
    BY <2>8, <2>1 DEF Interrupt, WritePidFile, Die, Obey, Reuse, Kill
  <2>9. CASE UNCHANGED vars
    BY <2>9, <2>1 DEF vars
  <2> QED
    BY <2>2, <2>3, <2>4, <2>5, <2>6, <2>7, <2>8, <2>9 DEF Next, Command
<1> QED
  BY DirsInvariance, <1>1, PTL DEF Spec, OthersKept

-----------------------------------------------------------------------------
(***************************************************************************)
(* The tree: the records are in the directories.                           *)
(***************************************************************************)

(* There is no node's directory without the deployment's, and no record     *)
(* without the node's; a start() comes to a daemon after its directory, and *)
(* what a removal has left behind it is gone.                               *)
TreeInv ==
  /\ dirs[Run] \in {"absent", "other"} => \A n \in N : dirs[NodeDir(n)] = "absent"
  /\ \A n \in N : dirs[NodeDir(n)] = "absent" => meta[n] = NoRecords[n] /\ pidfile[n] = NoRecords[n]
  /\ pc \in Starting => IF Run \in Left THEN Job = Run ELSE dirs[Run] = "ours"
  /\ pc \in Starting => Preceded
  /\ pc = "remove" => \A p \in FrrPaths : p \in Left \/ dirs[p] \in {"absent", "other"}

LEMMA RestPreceded ==
  ASSUME CInv, todo # <<>>, Preceded, todo' = Rest,
         \A n \in N : dirs'[NodeDir(n)] = "absent" => dirs[NodeDir(n)] = "absent" /\ Job # NodeDir(n)
  PROVE  Preceded'
<1> SUFFICES ASSUME NEW k \in 1..Len(Rest), NEW j \in 1..Len(Rest[k]), NEW n \in N, NEW d \in D,
                    Rest[k][j] = <<"daemon", <<n, d>>>>, dirs'[NodeDir(n)] = "absent"
             PROVE  \E i \in 1..(j - 1) : Rest[k][i] = NodeDir(n)
  BY DEF Preceded
<1>1. Loop(todo) /\ Len(Rest[k]) \in Nat
  BY RestSteps, ElementOfSeq, LenProperties DEF CInv, Loops, Loop
<1>2. /\ Place(k) \in 1..Len(todo) /\ Shift(k) \in {0, 1}
      /\ Len(todo[Place(k)]) = Len(Rest[k]) + Shift(k)
      /\ \A i \in 1..Len(Rest[k]) : Rest[k][i] = todo[Place(k)][i + Shift(k)]
  BY <1>1, RestSteps
<1>3. j + Shift(k) \in 1..Len(todo[Place(k)])
  BY <1>1, <1>2
<1>4. todo[Place(k)][j + Shift(k)] = <<"daemon", <<n, d>>>> /\ dirs[NodeDir(n)] = "absent"
  BY <1>2
<1> DEFINE l == Place(k)
           m == j + Shift(k)
<1>5. /\ l = Place(k) /\ m = j + Shift(k)
      /\ l \in 1..Len(todo) /\ m \in 1..Len(todo[l]) /\ todo[l][m] = <<"daemon", <<n, d>>>>
  BY <1>2, <1>3, <1>4
<1> HIDE DEF l, m
<1>6. PICK i \in 1..(m - 1) : todo[l][i] = NodeDir(n)
  BY <1>4, <1>5 DEF Preceded
<1>7. ~(Shift(k) = 1 /\ i = 1)
  <2>1. Shift(k) = 1 => k = 1 /\ Len(todo[1]) # 1
    BY DEF Shift
  <2>2. Shift(k) = 1 => Place(k) = 1
    BY <2>1 DEF Place
  <2>3. Job = todo[1][1]
    BY <1>1, JobIsLeft
  <2> QED
    BY <1>6, <1>5, <2>2, <2>3
<1>8. i - Shift(k) \in 1..(j - 1) /\ i - Shift(k) \in 1..Len(Rest[k]) /\ i - Shift(k) + Shift(k) = i
  <2> DEFINE e == Shift(k)
             L == Len(Rest[k])
  <2>1. e \in {0, 1} /\ L \in Nat /\ j \in 1..L /\ i \in 1..(j + e - 1) /\ ~(e = 1 /\ i = 1)
    BY <1>1, <1>2, <1>6, <1>7, <1>5
  <2> HIDE DEF e, L
  <2>2. i - e \in 1..(j - 1) /\ i - e \in 1..L /\ i - e + e = i
    BY <2>1
  <2> QED
    BY <2>2 DEF e, L
<1>9. Rest[k][i - Shift(k)] = NodeDir(n)
  BY <1>2, <1>6, <1>8, <1>5
<1> QED
  BY <1>8, <1>9

LEMMA SamePreceded ==
  ASSUME UNCHANGED todo, \A n \in N : dirs'[NodeDir(n)] = "absent" => dirs[NodeDir(n)] = "absent"
  PROVE  Preceded => Preceded'
  BY DEF Preceded

LEMMA FirstPreceded ==
  ASSUME CInv, todo # <<>>, Preceded, NEW n \in N, NEW d \in D, Job = <<"daemon", <<n, d>>>>
  PROVE  dirs[NodeDir(n)] # "absent"
<1>1. 1 \in 1..Len(todo) /\ 1 \in 1..Len(todo[1]) /\ Job = todo[1][1]
  BY JobIsLeft DEF CInv, Loops
<1> QED
  BY <1>1 DEF Preceded

LEMMA PathNames ==
  /\ Run \in Paths /\ Run \in FrrPaths /\ Run \in Steps
  /\ \A n \in N : NodeDir(n) \in Paths /\ NodeDir(n) # Run /\ NodeDir(n)[1] = "node" /\ NodeDir(n)[2] = n
  /\ \A p \in FrrPaths : p \in Paths /\ p[1] # "node"
  /\ \A p \in Paths : p \notin Chores
  /\ Run[1] = "run" /\ Run[1] # "node" /\ Run[1] # "vty"
  BY DEF Run, NodeDir, Paths, FrrPaths, Steps, Chores

LEMMA SameTree ==
  ASSUME UNCHANGED disk, pc' \notin Starting \cup {"remove"}, TreeInv
  PROVE  TreeInv'
  BY DEF TreeInv, disk, Starting

LEMMA KeptTree ==
  ASSUME CInv, UNCHANGED <<disk, todo>>, pc \in Starting <=> pc' \in Starting,
         pc' = "remove" => pc = "remove", TreeInv
  PROVE  TreeInv'
  BY SameLoop, SamePreceded DEF TreeInv, disk

LEMMA RaisedTree ==
  ASSUME CInv, TreeInv, Raise, UNCHANGED disk
  PROVE  TreeInv'
<1>1. pc' \notin Starting \cup {"remove"}
  BY RaiseSteps DEF Starting
<1> QED
  BY <1>1, SameTree

LEMMA EndedTree ==
  ASSUME NEW how, End(how), TreeInv, UNCHANGED disk
  PROVE  TreeInv'
  BY SameTree DEF End, Starting

LEMMA StartedTree ==
  ASSUME TreeInv, todo' = StartJobs, pc' = "jobs", UNCHANGED disk
  PROVE  TreeInv'
  BY StartLoop, PathNames DEF TreeInv, disk

(* A start makes its next directory, or finds or marks it as its own.       *)
LEMMA MadeTree ==
  ASSUME CInv, TreeInv, pc \in {"jobs", "marker"}, todo # <<>>, Job \in Paths,
         UNCHANGED <<meta, pidfile>>,
         \/ /\ dirs[Job] = "absent" /\ dirs' = [dirs EXCEPT ![Job] = "bare"]
            /\ pc' = "marker" /\ todo' = todo
         \/ dirs' = [dirs EXCEPT ![Job] = "ours"] /\ pc' = "jobs" /\ todo' = Rest
  PROVE  TreeInv'
<1> USE DEF Starting
<1>1. /\ \A p \in Paths : p # Job => dirs'[p] = dirs[p]
      /\ dirs'[Job] \in {"bare", "ours"}
  BY DEF CInv, TypeOK
<1>2. Run \notin Left \/ Job = Run
  BY DEF TreeInv
<1>3. ASSUME NEW n \in N, dirs'[NodeDir(n)] = "absent"
      PROVE  dirs[NodeDir(n)] = "absent" /\ Job # NodeDir(n)
  BY <1>1, <1>3, PathNames
<1>4. ASSUME NEW n \in N, dirs'[Run] \in {"absent", "other"}
      PROVE  dirs'[NodeDir(n)] = "absent"
  <2>1. Job # Run /\ dirs[Run] \in {"absent", "other"}
    BY <1>1, <1>4, PathNames
  <2> QED
    BY <2>1, <1>2 DEF TreeInv
<1>5. IF Run \in Left' THEN Job' = Run ELSE dirs'[Run] = "ours"
  <2>1. CASE todo' = todo
    <3>1. Left' = Left /\ Job' = Job
      BY <2>1, SameLoop
    <3>2. Run \notin Left => Job # Run
      BY JobIsLeft DEF CInv, Loops
    <3> QED
      BY <1>1, <1>2, <3>1, <3>2, PathNames DEF TreeInv
  <2>2. CASE dirs' = [dirs EXCEPT ![Job] = "ours"] /\ todo' = Rest
    <3>1. Left' = Left \ {Job}
      BY <2>2, RestLeft DEF CInv, Loops
    <3>2. dirs'[Job] = "ours"
      BY <2>2 DEF CInv, TypeOK
    <3> QED
      BY <1>1, <1>2, <3>1, <3>2, PathNames DEF TreeInv
  <2> QED
    BY <2>1, <2>2
<1>6. Preceded'
  BY <1>3, RestPreceded, SamePreceded DEF TreeInv
<1>7. pc' \in Starting /\ pc' # "remove"
  OBVIOUS
<1> QED
  BY <1>3, <1>4, <1>5, <1>6, <1>7 DEF TreeInv

LEMMA StepTree == CInv /\ DInv /\ TreeInv /\ [Next]_vars => TreeInv'
<1> SUFFICES ASSUME CInv, DInv, TreeInv, [Next]_vars PROVE TreeInv'
  OBVIOUS
<1> USE DEF Starting
<1>0. TypeOK /\ Control
  BY DEF CInv
<1>a. CASE Start
  BY <1>a, <1>0, StartedTree, SameTree DEF Start, Control, disk
<1>b. CASE FindDirectory
  <2>1. CASE Raise /\ UNCHANGED disk
    BY <2>1, RaisedTree
  <2>2. CASE dirs[Job] = "absent" /\ UNCHANGED <<disk, todo, pc>>
    BY <2>2, KeptTree
  <2>3. CASE dirs[Job] = "ours" /\ todo' = Rest /\ UNCHANGED <<disk, pc>>
    <3>1. dirs' = [dirs EXCEPT ![Job] = "ours"]
      BY <1>b, <2>3, <1>0 DEF FindDirectory, TypeOK, disk
    <3> QED
      BY <1>b, <2>3, <3>1, MadeTree DEF FindDirectory, disk
  <2> QED
    BY <1>b, <2>1, <2>2, <2>3 DEF FindDirectory, Mine
<1>x. CASE MakeDirectory
  <2>1. CASE Raise /\ UNCHANGED disk
    BY <2>1, RaisedTree
  <2>2. CASE pc' = "marker" /\ todo' = todo
             /\ dirs' = [dirs EXCEPT ![Job] = IF @ = "absent" THEN "bare" ELSE @]
    <3>0. pc = "jobs" /\ todo # <<>> /\ Job \in Paths /\ UNCHANGED <<meta, pidfile>>
      BY <1>x DEF MakeDirectory, CInv, Control, Loops
    <3>1. CASE dirs[Job] = "absent"
      <4>1. dirs' = [dirs EXCEPT ![Job] = "bare"]
        BY <2>2, <3>1
      <4> QED
        BY <2>2, <3>0, <3>1, <4>1, MadeTree
    <3>2. CASE dirs[Job] # "absent"
      <4>1. dirs' = dirs
        BY <2>2, <3>2, <1>0 DEF TypeOK
      <4> QED
        BY <2>2, <3>0, <4>1, KeptTree DEF disk
    <3> QED
      BY <3>1, <3>2
  <2> QED
    BY <1>x, <2>1, <2>2 DEF MakeDirectory, disk
<1>c. CASE WriteMarker
  BY <1>c, <1>0, MadeTree, JobIsPath DEF WriteMarker, Control
<1>d. CASE Spawn
  BY <1>d, RaisedTree, SameTree, KeptTree DEF Spawn
<1>e. CASE WaitStarted
  BY <1>e, SameTree, KeptTree DEF WaitStarted
<1>f. CASE SaveMetadata
  <2>1. started # <<>> /\ todo # <<>> /\ Job = <<"daemon", Last(started)[1]>>
    BY <1>f DEF SaveMetadata, CInv, Control, Loops
  <2>2. PICK n \in N, d \in D : Last(started)[1] = <<n, d>>
    BY <2>1, <1>0, LastStarted DEF Entries
  <2>3. dirs[NodeDir(n)] # "absent"
    BY <1>f, <2>1, <2>2, FirstPreceded DEF SaveMetadata, TreeInv
  <2>4. \A m \in N : m # n => meta'[m] = meta[m]
    BY <1>f, <1>0, <2>2 DEF SaveMetadata, TypeOK
  <2>5. Left' = Left \ {Job} /\ todo' = Rest
    BY <1>f, <2>1, RestLeft DEF SaveMetadata, CInv, Loops
  <2>6. \A m \in N : Job # NodeDir(m)
    BY <2>1 DEF NodeDir
  <2>7. Run \notin Left /\ dirs[Run] = "ours"
    <3>1. Job # Run
      BY <2>1 DEF Run
    <3> QED
      BY <1>f, <3>1 DEF SaveMetadata, TreeInv
  <2>8. Preceded'
    BY <1>f, <2>1, <2>5, <2>6, RestPreceded DEF SaveMetadata, TreeInv
  <2> QED
    BY <1>f, <2>3, <2>4, <2>5, <2>7, <2>8 DEF SaveMetadata, TreeInv
<1>g. CASE Started
  BY <1>g, EndedTree DEF Started
<1>h. CASE Stop
  BY <1>h, SameTree DEF Stop
<1>i. CASE ReadRecord
  BY <1>i, SameTree DEF ReadRecord
<1>j. CASE AllRead
  BY <1>j, SameTree DEF AllRead
<1>k. CASE SendTerm
  BY <1>k, SameTree DEF SendTerm
<1>y. CASE Gone
  BY <1>y, SameTree DEF Gone
<1>z. CASE SendKill
  BY <1>z, SameTree DEF SendKill
<1>l. CASE Terminated
  BY <1>l, SameTree DEF Terminated
<1>m. CASE ValidateAll
  BY <1>m, EndedTree, RemoveLoop DEF ValidateAll, TreeInv, disk
<1>n. CASE RemoveNext
  <2>1. Job \in FrrPaths /\ Job \in Left
    BY <1>n, JobIsLeft DEF RemoveNext, CInv, Loops
  <2>2. CASE RemoveTree(Job) /\ todo' = Rest /\ UNCHANGED pc /\ pc = "remove" /\ todo # <<>>
    <3>1. Left' = Left \ {Job}
      BY <2>2, RestLeft DEF CInv, Loops
    <3>2. dirs'[Job] = "absent" /\ \A q \in Paths : dirs'[q] \in {dirs[q], "absent"}
      BY <2>1, <2>2, PathNames DEF RemoveTree, Without
    <3>3. \A p \in FrrPaths : p \in Left' \/ dirs'[p] \in {"absent", "other"}
      BY <2>2, <3>1, <3>2, PathNames DEF TreeInv
    <3>4. CASE Job = Run
      <4>1. \A n \in N : dirs'[NodeDir(n)] = "absent"
        BY <2>2, <3>4, PathNames DEF RemoveTree, Without
      <4> QED
        BY <2>2, <3>3, <3>4, <4>1 DEF RemoveTree, TreeInv
    <3>5. CASE Job # Run
      <4>1. dirs'[Run] = dirs[Run] /\ \A n \in N : dirs'[NodeDir(n)] = dirs[NodeDir(n)]
        BY <2>1, <2>2, <3>5, PathNames DEF RemoveTree, Without
      <4> QED
        BY <2>2, <3>3, <3>5, <4>1 DEF RemoveTree, TreeInv
    <3> QED
      BY <3>4, <3>5
  <2>3. CASE TearTree(Job) /\ End(Failed)
    <3>1. CASE Job # Run /\ dirs' = [dirs EXCEPT ![Job] = IF @ = "absent" THEN @ ELSE "bare"]
               /\ UNCHANGED <<meta, pidfile>>
      <4>1. dirs'[Run] = dirs[Run] /\ \A n \in N : dirs'[NodeDir(n)] = dirs[NodeDir(n)]
        BY <2>1, <3>1, <1>0, PathNames DEF TypeOK
      <4> QED
        BY <2>3, <3>1, <4>1 DEF End, TreeInv
    <3>2. CASE Job = Run
      <4>0. PICK marker \in BOOLEAN, gone \in SUBSET N, unmarked \in SUBSET N, emptied \in SUBSET N :
              /\ dirs' = [q \in Paths |->
                        IF q = Run /\ ~marker /\ dirs[q] = "ours" THEN "bare"
                        ELSE IF q[1] = "node" /\ q[2] \in gone THEN "absent"
                        ELSE IF q[1] = "node" /\ q[2] \in unmarked /\ dirs[q] = "ours" THEN "bare"
                        ELSE dirs[q]]
              /\ meta' = [n \in N |-> IF n \in gone \cup emptied THEN NoRecords[n] ELSE meta[n]]
              /\ pidfile' = [n \in N |-> IF n \in gone \cup emptied THEN NoRecords[n] ELSE pidfile[n]]
        BY <2>3, <3>2 DEF TearTree
      <4>1. dirs'[Run] \in {"absent", "other"} => dirs[Run] \in {"absent", "other"}
        BY <4>0, PathNames
      <4>2. ASSUME NEW n \in N
            PROVE  /\ dirs'[NodeDir(n)] = "absent" <=> dirs[NodeDir(n)] = "absent" \/ n \in gone
                   /\ n \in gone => meta'[n] = NoRecords[n] /\ pidfile'[n] = NoRecords[n]
                   /\ meta'[n] \in {meta[n], NoRecords[n]} /\ pidfile'[n] \in {pidfile[n], NoRecords[n]}
        BY <4>0, PathNames
      <4> QED
        BY <2>3, <4>1, <4>2 DEF End, TreeInv
    <3> QED
      BY <2>3, <3>1, <3>2 DEF TearTree
  <2> QED
    BY <1>n, <2>2, <2>3 DEF RemoveNext
<1>o. CASE Removed
  BY <1>o, EndedTree, StartedTree DEF Removed
<1>p. CASE Interrupt
  BY <1>p, RaisedTree DEF Interrupt
<1>q. CASE WritePidFile
  <2>1. PICK pid \in Pids : /\ Daemon(pid)
                            /\ dirs[NodeDir(proc[pid][1])] # "absent"
                            /\ pidfile' = [pidfile EXCEPT ![proc[pid][1]] = [@ EXCEPT ![proc[pid][2]] = pid]]
    BY <1>q DEF WritePidFile
  <2>2. \A n \in N : dirs[NodeDir(n)] = "absent" => pidfile'[n] = pidfile[n]
    BY <2>1, <1>0 DEF TypeOK, Daemon
  <2>3. /\ Left' = Left /\ Job' = Job /\ (Preceded => Preceded')
    BY <1>q, SameLoop, SamePreceded DEF WritePidFile
  <2> QED
    BY <1>q, <2>2, <2>3 DEF WritePidFile, TreeInv
<1>r. CASE Die
  BY <1>r, KeptTree DEF Die
<1>rr. CASE Obey
  BY <1>rr, KeptTree DEF Obey
<1>s. CASE Claim
  <2>1. PICK p \in Paths : dirs[p] = "absent" /\ p[1] # "node" /\ dirs' = [dirs EXCEPT ![p] = "other"]
    BY <1>s DEF Claim
  <2>2. \A n \in N : dirs'[NodeDir(n)] = dirs[NodeDir(n)]
    BY <2>1, <1>0, PathNames DEF TypeOK
  <2>3. \A q \in Paths : dirs'[q] = dirs[q] \/ (dirs[q] = "absent" /\ dirs'[q] = "other")
    BY <2>1, <1>0 DEF TypeOK
  <2>4. /\ Left' = Left /\ Job' = Job /\ (Preceded => Preceded')
    BY <1>s, <2>2, SameLoop, SamePreceded DEF Claim
  <2>5. /\ dirs'[Run] \in {"absent", "other"} => dirs[Run] \in {"absent", "other"}
        /\ dirs[Run] = "ours" => dirs'[Run] = "ours"
        /\ \A q \in FrrPaths : dirs[q] \in {"absent", "other"} => dirs'[q] \in {"absent", "other"}
    BY <2>3, PathNames
  <2> QED
    BY <1>s, <2>2, <2>4, <2>5 DEF Claim, TreeInv
<1>t. CASE Reuse
  BY <1>t, KeptTree DEF Reuse
<1>u. CASE Kill
  BY <1>u, EndedTree DEF Kill
<1>v. CASE Reboot
  <2>1. \A n \in N : dirs'[NodeDir(n)] = "absent"
    BY <1>v, PathNames DEF Reboot
  <2> QED
    BY <1>v, <2>1 DEF Reboot, End, TreeInv
<1>w. CASE UNCHANGED vars
  BY <1>w, KeptTree DEF vars
<1> QED
  BY <1>a, <1>b, <1>x, <1>c, <1>d, <1>e, <1>f, <1>g, <1>h, <1>i, <1>j, <1>k, <1>y, <1>z,
     <1>l, <1>m, <1>n, <1>o, <1>p, <1>q, <1>r, <1>rr, <1>s, <1>t, <1>u, <1>v, <1>w
  DEF Next, Command

-----------------------------------------------------------------------------
(***************************************************************************)
(* The lists: a daemon is once in started and once in queue.               *)
(***************************************************************************)
Chore(x) == <<"daemon", x>>
(* The daemon spawned last is not yet on record.                            *)
Saved(i) == ~(pc \in {"wait", "save"} /\ i = Len(started))
Once(s) == \A i, j \in 1..Len(s) : s[i][1] = s[j][1] => i = j

(* What start() still has to do has no record; what it has spawned and      *)
(* saved has the record that it saved.                                      *)
StartInv == pc \in Starting =>
  /\ \A n \in N, d \in D : meta[n][d] = NoPid <=> Chore(<<n, d>>) \in Left
  /\ \A i \in 1..Len(started) : Saved(i) =>
       /\ Chore(started[i][1]) \notin Left
       /\ meta[started[i][1][1]][started[i][1][2]] = started[i][2]

(* Its rollback finds those records, or none.                               *)
StartedInv ==
  /\ Once(started)
  /\ pc = "terminate" => \A i \in 1..Len(started) :
       meta[started[i][1][1]][started[i][1][2]] \in {NoPid, started[i][2]}

(* What stop() still has to read is not yet in the queue.                   *)
QueueInv ==
  /\ Once(queue)
  /\ pc = "read" => \A i \in 1..Len(queue) : Chore(queue[i][1]) \notin Left

(* Only a running start() has children to reap.                             *)
Zombies == started = <<>> => \A pid \in Pids : proc[pid] # Zombie

EInv == StartInv /\ StartedInv /\ QueueInv /\ Zombies

LEMMA Kinds ==
  /\ Free # Zombie /\ Zombie # Stranger /\ Stranger # Free
  /\ \A x \in N \X D : x \notin {Free, Zombie, Stranger}
<1>1. \A x \in N \X D : x[1] \in N
  OBVIOUS
<1>2. Free[1] \notin N /\ Zombie[1] \notin N /\ Stranger[1] \notin N
  BY NamesAssumption DEF Free, Zombie, Stranger
<1> QED
  BY <1>1, <1>2 DEF Free, Zombie, Stranger

LEMMA EmptyOnce ==
  ASSUME NEW s, s = <<>>
  PROVE  Once(s) /\ 1..Len(s) = {}
  BY EmptySeq DEF Once

LEMMA ReverseOnce ==
  ASSUME NEW s \in Seq(Entries), Once(s)
  PROVE  Once(Reverse(s))
<1>1. Len(s) \in Nat
  OBVIOUS
<1> SUFFICES ASSUME NEW i \in 1..Len(s), NEW j \in 1..Len(s), Reverse(s)[i][1] = Reverse(s)[j][1]
             PROVE  i = j
  BY ReverseProperties DEF Once
<1> DEFINE a == (Len(s) - i) + 1
           b == (Len(s) - j) + 1
<1>2. a \in 1..Len(s) /\ b \in 1..Len(s) /\ Reverse(s)[i] = s[a] /\ Reverse(s)[j] = s[b]
  BY ReverseProperties
<1> HIDE DEF a, b
<1>3. a = b
  BY <1>2 DEF Once
<1> QED
  BY <1>1, <1>3 DEF a, b

LEMMA TailOnce ==
  ASSUME NEW s \in Seq(Entries), s # <<>>, Once(s)
  PROVE  /\ Once(Tail(s))
         /\ \A i \in 1..Len(Tail(s)) : i + 1 \in 1..Len(s) /\ Tail(s)[i] = s[i + 1]
         /\ 1 \in 1..Len(s) /\ Head(s) = s[1]
<1>1. Len(s) \in Nat \ {0}
  BY EmptySeq
<1>2. /\ Tail(s) \in Seq(Entries) /\ Len(Tail(s)) = Len(s) - 1
      /\ \A i \in 1..Len(Tail(s)) : Tail(s)[i] = s[i + 1]
  BY HeadTailProperties
<1>3. \A i \in 1..Len(Tail(s)) : i + 1 \in 1..Len(s) /\ i \in Int
  BY <1>1, <1>2
<1>4. Once(Tail(s))
  <2> SUFFICES ASSUME NEW i \in 1..Len(Tail(s)), NEW j \in 1..Len(Tail(s)), Tail(s)[i][1] = Tail(s)[j][1]
               PROVE  i = j
    BY DEF Once
  <2> DEFINE a == i + 1
             b == j + 1
  <2>1. a \in 1..Len(s) /\ b \in 1..Len(s) /\ Tail(s)[i] = s[a] /\ Tail(s)[j] = s[b]
    BY <1>2, <1>3
  <2> HIDE DEF a, b
  <2>2. a = b
    BY <2>1 DEF Once
  <2> QED
    BY <1>3, <2>2 DEF a, b
<1> QED
  BY <1>1, <1>2, <1>3, <1>4

(* The entries of a list with one more in front.                            *)
LEMMA ConsEntries ==
  ASSUME NEW s \in Seq(Entries), NEW e \in Entries, NEW k \in 1..Len(<<e>> \o s)
  PROVE  \/ k = 1 /\ (<<e>> \o s)[k] = e
         \/ \E i \in 1..Len(s) : k = i + 1 /\ (<<e>> \o s)[k] = s[i]
<1>1. Len(s) \in Nat /\ Len(<<e>> \o s) = Len(s) + 1
  BY ConsProperties
<1>2. CASE k = 1
  BY <1>2, ConsProperties
<1>3. CASE k # 1
  <2> DEFINE i == k - 1
  <2>1. i \in 1..Len(s) /\ k = i + 1
    BY <1>1, <1>3
  <2> HIDE DEF i
  <2>2. (<<e>> \o s)[i + 1] = s[i]
    BY <2>1, ConsProperties
  <2> QED
    BY <2>1, <2>2
<1> QED
  BY <1>2, <1>3

LEMMA ConsOnce ==
  ASSUME NEW s \in Seq(Entries), Once(s), NEW e \in Entries,
         \A i \in 1..Len(s) : s[i][1] # e[1]
  PROVE  Once(<<e>> \o s)
<1> SUFFICES ASSUME NEW k \in 1..Len(<<e>> \o s), NEW l \in 1..Len(<<e>> \o s),
                    (<<e>> \o s)[k][1] = (<<e>> \o s)[l][1]
             PROVE  k = l
  BY DEF Once
<1> DEFINE t == <<e>> \o s
<1>1. \/ k = 1 /\ t[k] = e
      \/ \E i \in 1..Len(s) : k = i + 1 /\ t[k] = s[i]
  BY ConsEntries
<1>2. \/ l = 1 /\ t[l] = e
      \/ \E i \in 1..Len(s) : l = i + 1 /\ t[l] = s[i]
  BY ConsEntries
<1>3. t[k][1] = t[l][1]
  OBVIOUS
<1> HIDE DEF t
<1> QED
  BY <1>1, <1>2, <1>3 DEF Once

LEMMA AppendOnce ==
  ASSUME NEW s \in Seq(Entries), Once(s), NEW e \in Entries,
         \A i \in 1..Len(s) : s[i][1] # e[1]
  PROVE  /\ Once(Append(s, e))
         /\ Last(Append(s, e)) = e /\ Len(Append(s, e)) = Len(s) + 1
         /\ \A k \in 1..Len(Append(s, e)) : k # Len(s) + 1 => k \in 1..Len(s) /\ Append(s, e)[k] = s[k]
<1> DEFINE t == Append(s, e)
<1>1. /\ Len(t) = Len(s) + 1 /\ t[Len(s) + 1] = e
      /\ \A i \in 1..Len(s) : t[i] = s[i]
  BY AppendProperties
<1>2. Len(s) \in Nat
  OBVIOUS
<1> HIDE DEF t
<1>3. \A k \in 1..Len(t) : k # Len(s) + 1 => k \in 1..Len(s) /\ t[k] = s[k]
  BY <1>1, <1>2
<1>4. Once(t)
  BY <1>1, <1>3 DEF Once
<1>5. Last(t) = e
  BY <1>1 DEF Last
<1> QED
  BY <1>1, <1>3, <1>4, <1>5 DEF t

LEMMA LeftChores ==
  ASSUME CInv, NEW x, Job \in Paths, todo # <<>>, todo' = Rest
  PROVE  Chore(x) \in Left' <=> Chore(x) \in Left
<1>1. Left' = Left \ {Job}
  BY RestLeft DEF CInv, Loops
<1>2. Chore(x) \notin Paths
  BY DEF Chore, Paths, Run
<1> QED
  BY <1>1, <1>2

LEMMA EndedStart ==
  ASSUME NEW how, End(how)
  PROVE  (StartInv /\ StartedInv /\ QueueInv)'
  BY EmptyOnce DEF End, StartInv, StartedInv, QueueInv, Starting

(* What a start leaves to _terminate_processes.                             *)
LEMMA UnwoundStart ==
  ASSUME CInv, StartInv, StartedInv, pc \in Starting, UNCHANGED <<started, meta>>,
         pc' = "terminate", queue' = Reverse(started)
  PROVE  (StartInv /\ StartedInv /\ QueueInv)'
<1>1. ASSUME NEW i \in 1..Len(started)
      PROVE  meta[started[i][1][1]][started[i][1][2]] \in {NoPid, started[i][2]}
  <2>1. CASE Saved(i)
    BY <1>1, <2>1 DEF StartInv
  <2>2. CASE ~Saved(i)
    <3>1. Last(started) = started[i] /\ pc \in {"wait", "save"}
      BY <2>2 DEF Saved, Last
    <3>2. started # <<>> /\ Job \in Left /\ Job = Chore(started[i][1])
      BY <3>1, JobIsLeft DEF CInv, Control, Loops, Chore
    <3>3. started[i][1] \in N \X D
      BY ElementOfSeq DEF CInv, TypeOK, Entries
    <3>4. Chore(<<started[i][1][1], started[i][1][2]>>) \in Left
      BY <3>2, <3>3
    <3> QED
      BY <3>3, <3>4 DEF StartInv
  <2> QED
    BY <2>1, <2>2
<1>2. Once(queue)'
  BY ReverseOnce DEF StartedInv, CInv, TypeOK
<1> QED
  BY <1>1, <1>2 DEF StartInv, StartedInv, QueueInv, Starting, Once

LEMMA RaisedStart ==
  ASSUME CInv, EInv, Raise, UNCHANGED disk
  PROVE  (StartInv /\ StartedInv /\ QueueInv)'
<1>1. CASE pc \in Starting /\ pc' = "terminate" /\ queue' = Reverse(started) /\ UNCHANGED started
  BY <1>1, UnwoundStart DEF EInv, disk
<1>2. CASE End(Failed)
  BY <1>2, EndedStart
<1>3. CASE pc = "terminate" /\ pc' = "validate" /\ UNCHANGED <<started, queue>>
  BY <1>3 DEF EInv, StartInv, StartedInv, QueueInv, Starting, Once
<1> QED
  BY <1>1, <1>2, <1>3 DEF Raise, Starting

(* Steps that leave these records alone.                                    *)
LEMMA SameStart ==
  ASSUME CInv, EInv, UNCHANGED <<todo, started, queue, meta>>,
         pc \in Starting <=> pc' \in Starting,
         pc \in {"wait", "save"} <=> pc' \in {"wait", "save"},
         pc' \in {"read", "terminate"} => pc' = pc
  PROVE  (StartInv /\ StartedInv /\ QueueInv)'
<1>1. Left' = Left
  BY SameLoop
<1>2. StartInv'
  BY <1>1 DEF EInv, StartInv, Saved
<1>3. StartedInv' /\ QueueInv'
  BY <1>1 DEF EInv, StartedInv, QueueInv, Once
<1> QED
  BY <1>2, <1>3

LEMMA BegunStart ==
  ASSUME todo' = StartJobs, pc' = "jobs", UNCHANGED <<started, queue, meta>>,
         started = <<>>, queue = <<>>, \A n \in N : meta[n] = NoRecords[n]
  PROVE  (StartInv /\ StartedInv /\ QueueInv)'
<1>1. \A n \in N, d \in D : Chore(<<n, d>>) \in Left' /\ meta[n][d] = NoPid
  BY StartLoop DEF Chore, Steps, Chores, NoRecords
<1> QED
  BY <1>1, EmptyOnce DEF StartInv, StartedInv, QueueInv

LEMMA NoArtifactsNoRecords ==
  ASSUME TreeInv, dirs[Run] \in {"absent", "other"}
  PROVE  \A n \in N : dirs[NodeDir(n)] = "absent" /\ meta[n] = NoRecords[n] /\ pidfile[n] = NoRecords[n]
  BY DEF TreeInv

LEMMA AllRemoved ==
  ASSUME CInv, TreeInv, pc = "remove", todo = <<>>
  PROVE  \A p \in FrrPaths : dirs[p] \in {"absent", "other"}
<1>1. Left = {}
  BY EmptySeq DEF Left
<1> QED
  BY <1>1 DEF TreeInv

LEMMA SavedMeta ==
  ASSUME TypeOK, started # <<>>,
         LET x == Last(started)[1] IN
         meta' = [meta EXCEPT ![x[1]] = [@ EXCEPT ![x[2]] = Last(started)[2]]]
  PROVE  \A n \in N, d \in D :
           meta'[n][d] = IF <<n, d>> = Last(started)[1] THEN Last(started)[2] ELSE meta[n][d]
<1>1. PICK n \in N, d \in D : Last(started)[1] = <<n, d>>
  BY LastStarted DEF Entries
<1>2. meta' = [meta EXCEPT ![n] = [meta[n] EXCEPT ![d] = Last(started)[2]]]
  BY <1>1
<1>3. meta \in [N -> [D -> Pids \cup {NoPid}]]
  BY DEF TypeOK
<1> QED
  BY <1>1, <1>2, <1>3

LEMMA StepStart == CInv /\ TreeInv /\ EInv /\ [Next]_vars => (StartInv /\ StartedInv /\ QueueInv)'
<1> SUFFICES ASSUME CInv, TreeInv, EInv, [Next]_vars PROVE (StartInv /\ StartedInv /\ QueueInv)'
  OBVIOUS
<1> USE DEF Starting
<1>0. TypeOK /\ Control
  BY DEF CInv
<1>a. CASE Start
  <2>1. CASE pc = "idle" /\ ~HasArtifacts /\ pc' = "jobs" /\ todo' = StartJobs
             /\ UNCHANGED <<started, queue, meta>>
    <3>1. dirs[Run] = "absent"
      BY <2>1 DEF HasArtifacts
    <3>2. started = <<>> /\ queue = <<>>
      BY <2>1 DEF CInv, Control
    <3> QED
      BY <2>1, <3>1, <3>2, NoArtifactsNoRecords, BegunStart
  <2>2. CASE pc = "idle" /\ UNCHANGED <<pc, todo, started, queue, meta>>
    BY <2>2, SameStart
  <2>3. CASE pc = "idle" /\ pc' = "read" /\ UNCHANGED <<started, queue, meta>>
    <3>1. queue' = <<>> /\ started' = <<>>
      BY <2>3 DEF CInv, Control
    <3> QED
      BY <2>3, <3>1, EmptyOnce DEF StartInv, StartedInv, QueueInv
  <2> QED
    BY <1>a, <2>1, <2>2, <2>3 DEF Start, disk
<1>b. CASE FindDirectory
  <2>1. CASE Raise /\ UNCHANGED disk
    BY <2>1, RaisedStart
  <2>2. CASE pc = "jobs" /\ UNCHANGED <<pc, todo, started, queue, meta>>
    BY <2>2, SameStart
  <2>3. CASE pc = "jobs" /\ pc' = "jobs" /\ todo # <<>> /\ Job \in Paths /\ todo' = Rest
             /\ UNCHANGED <<started, queue, meta>>
    BY <2>3, LeftChores DEF EInv, StartInv, StartedInv, QueueInv, Saved, Once
  <2> QED
    BY <1>b, <2>1, <2>2, <2>3 DEF FindDirectory, disk
<1>x. CASE MakeDirectory
  <2>1. CASE Raise /\ UNCHANGED disk
    BY <2>1, RaisedStart
  <2>2. CASE pc = "jobs" /\ pc' = "marker" /\ UNCHANGED <<todo, started, queue, meta>>
    BY <2>2, SameStart
  <2> QED
    BY <1>x, <2>1, <2>2 DEF MakeDirectory, disk
<1>c. CASE WriteMarker
  BY <1>c, <1>0, LeftChores, JobIsPath DEF WriteMarker, Control, EInv, StartInv, StartedInv, QueueInv, Saved, Once
<1>d. CASE Spawn
  <2>1. CASE Raise /\ UNCHANGED disk
    BY <2>1, RaisedStart
  <2>2. CASE pc = "jobs" /\ pc' = "terminate" /\ queue' = Reverse(started) /\ UNCHANGED <<started, meta>>
    BY <2>2, UnwoundStart DEF EInv
  <2>3. ASSUME NEW pid \in Pids, pc = "jobs", todo # <<>>, Job \notin Paths,
               started' = Append(started, <<Job[2], pid>>), pc' = "wait", UNCHANGED <<todo, queue, meta>>
        PROVE  (StartInv /\ StartedInv /\ QueueInv)'
    <3> DEFINE e == <<Job[2], pid>>
    <3>1. Job[2] \in N \X D /\ Job = Chore(Job[2]) /\ Job \in Left
      BY <2>3, JobIsLeft, ChoreSteps DEF CInv, Loops, Chore
    <3>2. e \in Entries /\ e[1] = Job[2]
      BY <3>1 DEF Entries
    <3>3. \A i \in 1..Len(started) :
            /\ Chore(started[i][1]) \notin Left
            /\ meta[started[i][1][1]][started[i][1][2]] = started[i][2]
      BY <2>3 DEF EInv, StartInv, Saved
    <3>4. \A i \in 1..Len(started) : started[i][1] # e[1]
      BY <3>1, <3>2, <3>3
    <3>5. started' = Append(started, e) /\ started \in Seq(Entries) /\ Once(started)
      BY <2>3 DEF EInv, StartedInv, CInv, TypeOK
    <3> HIDE DEF e
    <3>6. /\ Once(started)' /\ Len(started') = Len(started) + 1
          /\ \A k \in 1..Len(started') : k # Len(started) + 1 => k \in 1..Len(started) /\ started'[k] = started[k]
      BY <3>2, <3>4, <3>5, AppendOnce DEF Once
    <3>7. Left' = Left
      BY <2>3, SameLoop
    <3>8. StartInv'
      BY <2>3, <3>3, <3>6, <3>7 DEF EInv, StartInv, Saved
    <3> QED
      BY <2>3, <3>6, <3>8 DEF EInv, StartedInv, QueueInv, Once
  <2> QED
    BY <1>d, <2>1, <2>2, <2>3 DEF Spawn, disk
<1>e. CASE WaitStarted
  <2>1. CASE pc = "wait" /\ pc' = "save" /\ UNCHANGED <<todo, started, queue, meta>>
    BY <2>1, SameStart
  <2>2. CASE pc = "wait" /\ pc' = "terminate" /\ queue' = Reverse(started) /\ UNCHANGED <<started, meta>>
    BY <2>2, UnwoundStart DEF EInv
  <2> QED
    BY <1>e, <2>1, <2>2 DEF WaitStarted, disk
<1>f. CASE SaveMetadata
  <2>1. started # <<>> /\ todo # <<>> /\ Job = Chore(Last(started)[1])
    BY <1>f DEF SaveMetadata, CInv, Control, Loops, Chore
  <2>2. Left' = Left \ {Job}
    BY <1>f, <2>1, RestLeft DEF SaveMetadata, CInv, Loops
  <2>3. \A n \in N, d \in D :
          meta'[n][d] = IF <<n, d>> = Last(started)[1] THEN Last(started)[2] ELSE meta[n][d]
    BY <1>f, <1>0, <2>1, SavedMeta DEF SaveMetadata
  <2>4. Last(started)[2] # NoPid /\ Last(started) = started[Len(started)] /\ Len(started) \in 1..Len(started)
    BY <1>0, <2>1, LastStarted, NamesAssumption DEF Entries
  <2>5. \A n \in N, d \in D : meta'[n][d] = NoPid <=> Chore(<<n, d>>) \in Left'
    <3>1. \A n \in N, d \in D : meta[n][d] = NoPid <=> Chore(<<n, d>>) \in Left
      BY <1>f DEF SaveMetadata, EInv, StartInv
    <3>2. \A x : Chore(x) = Job <=> x = Last(started)[1]
      BY <2>1 DEF Chore
    <3> SUFFICES ASSUME NEW n \in N, NEW d \in D
                 PROVE  meta'[n][d] = NoPid <=> Chore(<<n, d>>) \in Left'
      OBVIOUS
    <3>3. CASE <<n, d>> = Last(started)[1]
      BY <2>2, <2>3, <2>4, <3>2, <3>3
    <3>4. CASE <<n, d>> # Last(started)[1]
      BY <2>2, <2>3, <3>1, <3>2, <3>4
    <3> QED
      BY <3>3, <3>4
  <2>6. ASSUME NEW i \in 1..Len(started)
        PROVE  /\ Chore(started[i][1]) \notin Left'
               /\ meta'[started[i][1][1]][started[i][1][2]] = started[i][2]
    <3>1. /\ started[i][1] \in N \X D /\ started[i][1] = <<started[i][1][1], started[i][1][2]>>
          /\ started[i][1][1] \in N /\ started[i][1][2] \in D
      BY <1>0, ElementOfSeq DEF TypeOK, Entries
    <3>2. CASE i = Len(started)
      BY <2>1, <2>2, <2>3, <2>4, <3>1, <3>2
    <3>3. CASE i # Len(started)
      <4>1. started[i][1] # Last(started)[1]
        BY <2>4, <3>3 DEF EInv, StartedInv, Once
      <4>2. Chore(started[i][1]) \notin Left /\ meta[started[i][1][1]][started[i][1][2]] = started[i][2]
        BY <1>f, <3>3 DEF SaveMetadata, EInv, StartInv, Saved
      <4> QED
        BY <2>2, <2>3, <3>1, <4>1, <4>2
    <3> QED
      BY <3>2, <3>3
  <2> QED
    BY <1>f, <2>5, <2>6 DEF SaveMetadata, EInv, StartInv, StartedInv, QueueInv, Once
<1>g. CASE Started
  BY <1>g, EndedStart DEF Started
<1>h. CASE Stop
  <2>1. CASE pc = "idle" /\ UNCHANGED <<pc, todo, started, queue, meta>>
    BY <2>1, SameStart
  <2>2. CASE pc = "idle" /\ pc' = "read" /\ UNCHANGED <<started, queue, meta>>
    <3>1. queue' = <<>> /\ started' = <<>>
      BY <2>2 DEF CInv, Control
    <3> QED
      BY <2>2, <3>1, EmptyOnce DEF StartInv, StartedInv, QueueInv
  <2> QED
    BY <1>h, <2>1, <2>2 DEF Stop, disk
<1>i. CASE ReadRecord
  <2>1. Left' = Left \ {Job} /\ Job \in Left /\ Job \in Chores
    BY <1>i, RestLeft, JobIsLeft DEF ReadRecord, CInv, Loops
  <2>2. Job = Chore(Job[2]) /\ Job[2] \in N \X D
    BY <2>1 DEF Chores, Chore
  <2>3. PICK pid : /\ pid = Record(Job[2][1], Job[2][2])
                   /\ queue' = IF dirs[NodeDir(Job[2][1])] # "absent" /\ Exists(pid)
                                 THEN <<<<Job[2], pid>>>> \o queue ELSE queue
    BY <1>i DEF ReadRecord
  <2>4. pid \in Pids \cup {NoPid}
    BY <2>3, <2>2, <1>0 DEF Record, TypeOK
  <2>5. CASE queue' = queue
    BY <1>i, <2>1, <2>5 DEF ReadRecord, EInv, StartInv, StartedInv, QueueInv, Once
  <2>6. CASE queue' # queue
    <3> DEFINE e == <<Job[2], pid>>
    <3>1. e \in Entries /\ e[1] = Job[2] /\ queue' = <<e>> \o queue
      BY <2>2, <2>3, <2>4, <2>6 DEF Exists, Entries
    <3>2. \A i \in 1..Len(queue) : Chore(queue[i][1]) \notin Left
      BY <1>i DEF ReadRecord, EInv, QueueInv
    <3>3. \A i \in 1..Len(queue) : queue[i][1] # e[1]
      BY <2>1, <2>2, <3>1, <3>2
    <3>4. queue \in Seq(Entries) /\ Once(queue)
      BY <1>0 DEF TypeOK, EInv, QueueInv
    <3> HIDE DEF e
    <3>5. Once(queue)'
      BY <3>1, <3>3, <3>4, ConsOnce DEF Once
    <3>6. \A k \in 1..Len(queue') : queue'[k] = e \/ \E i \in 1..Len(queue) : queue'[k] = queue[i]
      BY <3>1, <3>4, ConsEntries
    <3>7. \A k \in 1..Len(queue') : Chore(queue'[k][1]) \notin Left'
      BY <2>1, <2>2, <3>1, <3>2, <3>6
    <3> QED
      BY <1>i, <3>5, <3>7 DEF ReadRecord, EInv, StartInv, StartedInv, QueueInv, Once
  <2> QED
    BY <2>5, <2>6
<1>j. CASE AllRead
  <2>1. started' = <<>>
    BY <1>j, <1>0 DEF AllRead, Control
  <2> QED
    BY <1>j, <2>1, EmptyOnce DEF AllRead, EInv, StartInv, StartedInv, QueueInv, Once
<1>k. CASE SendTerm
  <2>1. Once(Tail(queue))
    BY <1>k, <1>0, TailOnce DEF SendTerm, EInv, QueueInv, TypeOK
  <2> QED
    BY <1>k, <2>1 DEF SendTerm, disk, EInv, StartInv, StartedInv, QueueInv, Once
<1>y. CASE Gone
  <2>1. Once(Tail(queue))
    BY <1>y, <1>0, TailOnce DEF Gone, Control, EInv, QueueInv, TypeOK
  <2> QED
    BY <1>y, <2>1 DEF Gone, disk, EInv, StartInv, StartedInv, QueueInv, Once
<1>z. CASE SendKill
  <2>1. Once(Tail(queue))
    BY <1>z, <1>0, TailOnce DEF SendKill, Control, EInv, QueueInv, TypeOK
  <2> QED
    BY <1>z, <2>1 DEF SendKill, disk, EInv, StartInv, StartedInv, QueueInv, Once
<1>l. CASE Terminated
  BY <1>l DEF Terminated, EInv, StartInv, StartedInv, QueueInv, Once
<1>m. CASE ValidateAll
  BY <1>m, EndedStart DEF ValidateAll, EInv, StartInv, StartedInv, QueueInv, Once
<1>n. CASE RemoveNext
  BY <1>n, EndedStart DEF RemoveNext, EInv, StartInv, StartedInv, QueueInv, Once
<1>o. CASE Removed
  <2>1. CASE \E how : End(how)
    BY <2>1, EndedStart
  <2>2. CASE cmd = "restart" /\ pc' = "jobs" /\ todo' = StartJobs /\ UNCHANGED <<started, queue>>
    <3>1. started = <<>> /\ queue = <<>> /\ pc = "remove" /\ todo = <<>> /\ UNCHANGED disk
      BY <1>o, <1>0, <2>2 DEF Removed, Control
    <3>2. dirs[Run] \in {"absent", "other"}
      BY <3>1, AllRemoved, PathNames
    <3> QED
      BY <2>2, <3>1, <3>2, NoArtifactsNoRecords, BegunStart DEF disk
  <2> QED
    BY <1>o, <2>1, <2>2 DEF Removed
<1>p. CASE Interrupt
  BY <1>p, RaisedStart DEF Interrupt
<1>q. CASE WritePidFile
  BY <1>q, SameStart DEF WritePidFile
<1>r. CASE Die
  BY <1>r, SameStart DEF Die, disk
<1>rr. CASE Obey
  BY <1>rr, SameStart DEF Obey, disk
<1>s. CASE Claim
  BY <1>s, SameStart DEF Claim
<1>t. CASE Reuse
  BY <1>t, SameStart DEF Reuse, disk
<1>u. CASE Kill
  BY <1>u, EndedStart DEF Kill
<1>v. CASE Reboot
  BY <1>v, EndedStart DEF Reboot
<1>w. CASE UNCHANGED vars
  BY <1>w, SameStart DEF vars, disk
<1> QED
  BY <1>a, <1>b, <1>x, <1>c, <1>d, <1>e, <1>f, <1>g, <1>h, <1>i, <1>j, <1>k, <1>y, <1>z,
     <1>l, <1>m, <1>n, <1>o, <1>p, <1>q, <1>r, <1>rr, <1>s, <1>t, <1>u, <1>v, <1>w
  DEF Next, Command

LEMMA NoZombies ==
  ASSUME proc' = Reaped(proc)
  PROVE  Zombies'
  BY Kinds DEF Reaped, Zombies

LEMMA StepZombies == CInv /\ EInv /\ [Next]_vars => Zombies'
<1> SUFFICES ASSUME CInv, EInv, [Next]_vars PROVE Zombies'
  OBVIOUS
<1>1. ASSUME UNCHANGED <<proc, started>> PROVE Zombies'
  BY <1>1 DEF EInv, Zombies
<1>2. TypeOK /\ Zombies
  BY DEF CInv, EInv
<1>3. ASSUME Raise PROVE Zombies'
  BY <1>1, <1>3, NoZombies DEF Raise
<1>4. CASE Spawn
  <2>1. ASSUME NEW pid \in Pids, proc' = [proc EXCEPT ![pid] = Job[2]], todo # <<>>, Job \notin Paths,
               started' = Append(started, <<Job[2], pid>>) \/ started' = started
        PROVE  Zombies'
    <3>1. Job[2] \in N \X D
      BY <2>1, JobIsLeft, ChoreSteps DEF CInv, Loops
    <3>2. <<Job[2], pid>> \in Entries
      BY <3>1 DEF Entries
    <3>3. started # <<>> => started' # <<>>
      BY <2>1, <3>2, AppendProperties, <1>2 DEF TypeOK
    <3> QED
      BY <1>2, <2>1, <3>1, <3>3, Kinds DEF Zombies, TypeOK
  <2> QED
    BY <1>3, <1>4, <2>1 DEF Spawn
<1>5. CASE WaitStarted
  BY <1>1, <1>2, <1>5, Kinds DEF WaitStarted, Zombies, TypeOK
<1>6. CASE SendKill \/ Obey
  BY <1>2, <1>6, Kinds DEF SendKill, Obey, Killed, Zombies, TypeOK
<1>7. CASE Die
  <2>1. started = <<>> => 1..Len(started) = {}
    BY EmptyOnce
  <2> QED
    BY <1>2, <1>7, <2>1, Kinds DEF Die, Zombies, TypeOK
<1>8. CASE Reuse
  BY <1>2, <1>8, Kinds DEF Reuse, Zombies, TypeOK
<1>9. CASE Reboot
  BY <1>9, Kinds DEF Reboot, Zombies
<1>10. CASE Start \/ FindDirectory \/ MakeDirectory \/ WriteMarker \/ SaveMetadata \/ Started \/ Stop
            \/ ReadRecord \/ AllRead \/ SendTerm \/ Gone \/ Terminated \/ ValidateAll \/ RemoveNext \/ Removed
  BY <1>1, <1>3, <1>10, NoZombies
  DEF Start, FindDirectory, MakeDirectory, WriteMarker, SaveMetadata, Started, Stop, ReadRecord,
      AllRead, SendTerm, Gone, Terminated, ValidateAll, RemoveNext, Removed
<1>11. CASE Interrupt \/ WritePidFile \/ Claim \/ Kill \/ UNCHANGED vars
  BY <1>1, <1>3, <1>11, NoZombies DEF Interrupt, WritePidFile, Claim, Kill, vars
<1> QED
  BY <1>4, <1>5, <1>6, <1>7, <1>8, <1>9, <1>10, <1>11 DEF Next, Command

-----------------------------------------------------------------------------
(***************************************************************************)
(* Start: what is recorded is what was spawned.                            *)
(***************************************************************************)

(* While no daemon dies by itself, a pid on record is its daemon's or was   *)
(* freed since; start() records daemons that live.                          *)
OwnRecords == "died" \notin past =>
  /\ \A n \in N, d \in D : meta[n][d] # NoPid =>
       proc[meta[n][d]] \in {<<n, d>>, Free, Zombie, Stranger}
  /\ pc \in Starting => \A n \in N, d \in D : meta[n][d] # NoPid => proc[meta[n][d]] = <<n, d>>
  /\ pc \in Starting => \A i \in 1..Len(started) : proc[started[i][2]] = started[i][1]

LEMMA RecordedPids ==
  ASSUME TypeOK
  PROVE  /\ \A n \in N, d \in D : /\ meta[n][d] # NoPid => meta[n][d] \in Pids
                                  /\ pidfile[n][d] # NoPid => pidfile[n][d] \in Pids
         /\ \A i \in 1..Len(started) : started[i][2] \in Pids /\ started[i][1] \in N \X D
         /\ \A i \in 1..Len(queue) : queue[i][2] \in Pids /\ queue[i][1] \in N \X D
  BY ElementOfSeq DEF TypeOK, Entries

(* A command that is not starting anything: a record is outlived at worst.  *)
LEMMA Outlived ==
  ASSUME TypeOK, OwnRecords, past \subseteq past', pc' \notin Starting,
         \A n \in N, d \in D : meta'[n][d] \in {meta[n][d], NoPid},
         \A pid \in Pids : proc'[pid] \in {proc[pid], Free, Zombie, Stranger}
  PROVE  OwnRecords'
  BY RecordedPids DEF OwnRecords

(* Nothing but a free pid changes hands.                                    *)
LEMMA Undisturbed ==
  ASSUME TypeOK, OwnRecords, past \subseteq past', UNCHANGED <<meta, started>>,
         pc' \in Starting => pc \in Starting,
         \A pid \in Pids : proc'[pid] = proc[pid] \/ (proc[pid] = Free /\ proc'[pid] = Stranger)
  PROVE  OwnRecords'
<1>1. \A n \in N, d \in D : <<n, d>> # Free
  BY Kinds
<1>2. \A i \in 1..Len(started) : started[i][1] # Free
  BY Kinds, RecordedPids
<1> SUFFICES ASSUME "died" \notin past PROVE OwnRecords'
  BY DEF OwnRecords
<1>3. ASSUME NEW n \in N, NEW d \in D, meta[n][d] # NoPid
      PROVE  /\ proc'[meta[n][d]] \in {<<n, d>>, Free, Zombie, Stranger}
             /\ pc \in Starting => proc'[meta[n][d]] = <<n, d>>
  <2>1. meta[n][d] \in Pids
    BY <1>3, RecordedPids
  <2> QED
    BY <1>1, <1>3, <2>1 DEF OwnRecords
<1>4. ASSUME NEW i \in 1..Len(started), pc \in Starting PROVE proc'[started[i][2]] = started[i][1]
  <2>1. started[i][2] \in Pids
    BY RecordedPids
  <2> QED
    BY <1>2, <1>4, <2>1 DEF OwnRecords
<1> QED
  BY <1>3, <1>4 DEF OwnRecords

LEMMA EndedOutlived ==
  ASSUME TypeOK, OwnRecords, past \subseteq past', NEW how, End(how),
         \A n \in N, d \in D : meta'[n][d] \in {meta[n][d], NoPid},
         proc' = Reaped(proc)
  PROVE  OwnRecords'
<1>1. \A pid \in Pids : proc'[pid] \in {proc[pid], Free, Zombie, Stranger}
  BY DEF Reaped
<1> QED
  BY <1>1, Outlived DEF End, Starting

LEMMA RaisedOutlived ==
  ASSUME CInv, OwnRecords, past \subseteq past', Raise, UNCHANGED disk
  PROVE  OwnRecords'
<1>1. pc' \notin Starting
  BY RaiseSteps DEF Starting
<1>2. \A pid \in Pids : proc'[pid] \in {proc[pid], Free, Zombie, Stranger}
  BY RaiseSteps DEF Reaped
<1> QED
  BY <1>1, <1>2, Outlived DEF disk, CInv

LEMMA BegunRecords ==
  ASSUME started' = <<>>, \A n \in N : meta'[n] = NoRecords[n]
  PROVE  OwnRecords'
  BY EmptyOnce DEF OwnRecords, NoRecords

LEMMA StepOwn == CInv /\ TreeInv /\ OwnRecords /\ [Next]_vars => OwnRecords'
<1> SUFFICES ASSUME CInv, TreeInv, OwnRecords, [Next]_vars PROVE OwnRecords'
  OBVIOUS
<1> USE DEF Starting
<1>0. TypeOK /\ Control
  BY DEF CInv
<1>a. CASE Start
  <2>1. CASE pc = "idle" /\ ~HasArtifacts /\ UNCHANGED <<started, meta>>
    <3>1. dirs[Run] = "absent" /\ started = <<>>
      BY <1>0, <2>1 DEF HasArtifacts, Control
    <3> QED
      BY <2>1, <3>1, NoArtifactsNoRecords, BegunRecords
  <2>2. CASE pc' \in {pc, "read"} /\ pc = "idle"
    BY <1>a, <1>0, <2>2, Undisturbed DEF Start, disk
  <2> QED
    BY <1>a, <2>1, <2>2 DEF Start, disk
<1>b. CASE FindDirectory
  <2>1. CASE Raise /\ UNCHANGED disk
    BY <1>b, <2>1, RaisedOutlived DEF FindDirectory
  <2>2. CASE pc = "jobs" /\ UNCHANGED <<meta, started, proc>>
    BY <1>b, <1>0, <2>2, Undisturbed DEF FindDirectory
  <2> QED
    BY <1>b, <2>1, <2>2 DEF FindDirectory, disk
<1>x. CASE MakeDirectory
  <2>1. CASE Raise /\ UNCHANGED disk
    BY <1>x, <2>1, RaisedOutlived DEF MakeDirectory
  <2>2. CASE pc = "jobs" /\ UNCHANGED <<meta, started, proc>>
    BY <1>x, <1>0, <2>2, Undisturbed DEF MakeDirectory
  <2> QED
    BY <1>x, <2>1, <2>2 DEF MakeDirectory, disk
<1>c. CASE WriteMarker
  BY <1>c, <1>0, Undisturbed DEF WriteMarker
<1>d. CASE Spawn
  <2>1. CASE Raise /\ UNCHANGED <<disk, past>>
    BY <2>1, RaisedOutlived
  <2>2. ASSUME NEW pid \in Pids, proc[pid] = Free, proc' = [proc EXCEPT ![pid] = Job[2]],
               pc = "jobs", todo # <<>>, Job \notin Paths, UNCHANGED meta, past \subseteq past',
               \/ started' = Append(started, <<Job[2], pid>>) /\ pc' = "wait"
               \/ pc' = "terminate"
        PROVE  OwnRecords'
    <3> SUFFICES ASSUME "died" \notin past PROVE OwnRecords'
      BY <2>2 DEF OwnRecords
    <3>1. Job[2] \in N \X D
      BY <2>2, JobIsLeft, ChoreSteps DEF CInv, Loops
    <3>2. ASSUME NEW n \in N, NEW d \in D, meta[n][d] # NoPid
          PROVE  meta[n][d] \in Pids /\ proc[meta[n][d]] = <<n, d>> /\ meta[n][d] # pid
      <4>1. meta[n][d] \in Pids /\ proc[meta[n][d]] = <<n, d>>
        BY <1>0, <2>2, <3>2, RecordedPids DEF OwnRecords
      <4>2. <<n, d>> # Free
        BY Kinds
      <4> QED
        BY <2>2, <4>1, <4>2
    <3>3. \A n \in N, d \in D : meta'[n][d] # NoPid => proc'[meta'[n][d]] = <<n, d>>
      BY <1>0, <2>2, <3>2 DEF TypeOK
    <3>4. CASE pc' = "terminate"
      BY <3>3, <3>4 DEF OwnRecords
    <3>5. CASE started' = Append(started, <<Job[2], pid>>) /\ pc' = "wait"
      <4> DEFINE e == <<Job[2], pid>>
      <4>1. e \in Entries /\ e[1] = Job[2] /\ e[2] = pid /\ started' = Append(started, e)
        BY <3>1, <3>5 DEF Entries
      <4>2. \A i \in 1..Len(started) : /\ started[i][2] \in Pids /\ started[i][2] # pid
                                       /\ proc[started[i][2]] = started[i][1]
        BY <1>0, <2>2, RecordedPids, Kinds DEF OwnRecords
      <4>3. started \in Seq(Entries) /\ Len(started) \in Nat
        BY <1>0 DEF TypeOK
      <4> HIDE DEF e
      <4>4. \A k \in 1..Len(started') : started'[k] = e \/ \E i \in 1..Len(started) : started'[k] = started[i]
        <5>1. /\ Len(started') = Len(started) + 1 /\ started'[Len(started) + 1] = e
              /\ \A i \in 1..Len(started) : started'[i] = started[i]
          BY <4>1, <4>3, AppendProperties
        <5> QED
          BY <5>1, <4>3
      <4>5. \A k \in 1..Len(started') : proc'[started'[k][2]] = started'[k][1]
        BY <1>0, <2>2, <4>1, <4>2, <4>4 DEF TypeOK
      <4> QED
        BY <3>3, <4>5 DEF OwnRecords
    <3> QED
      BY <2>2, <3>4, <3>5
  <2> QED
    BY <1>d, <2>1, <2>2 DEF Spawn, disk, Note
<1>e. CASE WaitStarted
  <2>1. CASE pc = "wait" /\ pc' = "save" /\ UNCHANGED <<meta, started, proc, past>>
    BY <1>0, <2>1, Undisturbed
  <2>2. CASE pc' = "terminate" /\ UNCHANGED <<meta, past>>
             /\ \E pid : proc' = [proc EXCEPT ![pid] = Free]
    BY <1>0, <2>2, Outlived DEF TypeOK
  <2> QED
    BY <1>e, <2>1, <2>2 DEF WaitStarted, disk
<1>f. CASE SaveMetadata
  <2>1. started # <<>>
    BY <1>f, <1>0 DEF SaveMetadata, Control
  <2>2. \A n \in N, d \in D :
          meta'[n][d] = IF <<n, d>> = Last(started)[1] THEN Last(started)[2] ELSE meta[n][d]
    BY <1>f, <1>0, <2>1, SavedMeta DEF SaveMetadata
  <2>3. "died" \notin past => proc[Last(started)[2]] = Last(started)[1]
    BY <1>f, <1>0, <2>1, LastStarted DEF SaveMetadata, OwnRecords
  <2>4. pc = "save" /\ pc' = "jobs" /\ UNCHANGED <<proc, started, past>>
    BY <1>f DEF SaveMetadata
  <2> SUFFICES ASSUME "died" \notin past PROVE OwnRecords'
    BY <2>4 DEF OwnRecords
  <2>5. ASSUME NEW n \in N, NEW d \in D, meta'[n][d] # NoPid PROVE proc[meta'[n][d]] = <<n, d>>
    <3>1. CASE <<n, d>> = Last(started)[1]
      BY <2>2, <2>3, <3>1
    <3>2. CASE <<n, d>> # Last(started)[1]
      <4>1. meta'[n][d] = meta[n][d]
        BY <2>2, <3>2
      <4> QED
        BY <2>4, <2>5, <4>1 DEF OwnRecords
    <3> QED
      BY <3>1, <3>2
  <2>6. \A i \in 1..Len(started) : proc[started[i][2]] = started[i][1]
    BY <2>4 DEF OwnRecords
  <2> QED
    BY <2>4, <2>5, <2>6 DEF OwnRecords
<1>g. CASE Started
  BY <1>g, <1>0, EndedOutlived DEF Started, disk
<1>h. CASE Stop
  BY <1>h, <1>0, Undisturbed DEF Stop, disk
<1>i. CASE ReadRecord
  BY <1>i, <1>0, Undisturbed DEF ReadRecord, disk
<1>j. CASE AllRead
  BY <1>j, <1>0, Undisturbed DEF AllRead, disk
<1>k. CASE SendTerm
  BY <1>k, <1>0, Undisturbed DEF SendTerm, Signal, disk
<1>y. CASE Gone
  BY <1>y, <1>0, Undisturbed DEF Gone, disk
<1>z. CASE SendKill
  <2>1. \A pid \in Pids : proc'[pid] \in {proc[pid], Free, Zombie, Stranger}
    BY <1>z, <1>0 DEF SendKill, Killed, TypeOK
  <2> QED
    BY <1>z, <1>0, <2>1, Outlived DEF SendKill, Signal, disk
<1>l. CASE Terminated
  BY <1>l, <1>0, Undisturbed DEF Terminated, disk
<1>m. CASE ValidateAll
  BY <1>m, <1>0, EndedOutlived, Undisturbed DEF ValidateAll, disk, Note
<1>n. CASE RemoveNext
  <2>1. \A n \in N, d \in D : meta'[n][d] \in {meta[n][d], NoPid}
    BY <1>n DEF RemoveNext, RemoveTree, TearTree, NoRecords
  <2> QED
    BY <1>n, <1>0, <2>1, EndedOutlived, Outlived DEF RemoveNext
<1>o. CASE Removed
  <2>1. CASE (\E how : End(how)) /\ proc' = Reaped(proc) /\ UNCHANGED <<disk, past>>
    BY <1>0, <2>1, EndedOutlived DEF disk
  <2>2. CASE cmd = "restart" /\ UNCHANGED started
    <3>1. started = <<>> /\ pc = "remove" /\ todo = <<>> /\ UNCHANGED disk
      BY <1>o, <1>0, <2>2 DEF Removed, Control
    <3>2. dirs[Run] \in {"absent", "other"}
      BY <3>1, AllRemoved, PathNames
    <3> QED
      BY <2>2, <3>1, <3>2, NoArtifactsNoRecords, BegunRecords DEF disk
  <2> QED
    BY <1>o, <2>1, <2>2 DEF Removed
<1>p. CASE Interrupt
  BY <1>p, RaisedOutlived DEF Interrupt
<1>q. CASE WritePidFile
  BY <1>q, <1>0, Undisturbed DEF WritePidFile
<1>r. CASE Die
  BY <1>r DEF Die, Note, OwnRecords
<1>rr. CASE Obey
  <2>1. \A pid \in Pids : proc'[pid] \in {proc[pid], Free, Zombie, Stranger}
    BY <1>rr, <1>0 DEF Obey, Killed, TypeOK
  <2> QED
    BY <1>rr, <1>0, <2>1, Outlived DEF Obey, Signalled, disk
<1>s. CASE Claim
  BY <1>s, <1>0, Undisturbed DEF Claim
<1>t. CASE Reuse
  <2>1. \A pid \in Pids : proc'[pid] = proc[pid] \/ (proc[pid] = Free /\ proc'[pid] = Stranger)
    BY <1>t, <1>0 DEF Reuse, TypeOK
  <2> QED
    BY <1>t, <1>0, <2>1, Undisturbed DEF Reuse, disk
<1>u. CASE Kill
  BY <1>u, <1>0, EndedOutlived DEF Kill, disk
<1>v. CASE Reboot
  BY <1>v DEF Reboot, OwnRecords, NoRecords, End
<1>w. CASE UNCHANGED vars
  BY <1>w, <1>0, Undisturbed DEF vars, disk
<1> QED
  BY <1>a, <1>b, <1>x, <1>c, <1>d, <1>e, <1>f, <1>g, <1>h, <1>i, <1>j, <1>k, <1>y, <1>z,
     <1>l, <1>m, <1>n, <1>o, <1>p, <1>q, <1>r, <1>rr, <1>s, <1>t, <1>u, <1>v, <1>w
  DEF Next, Command

LEMMA NotReady ==
  ASSUME pc' # "idle" \/ outcome' # "started"
  PROVE  StartedIsReady'
  BY DEF StartedIsReady

LEMMA StillReady ==
  ASSUME TypeOK, StartedIsReady, UNCHANGED meta, outcome' = "started" => outcome = "started",
         pc' = "idle" => pc = "idle", past \subseteq past',
         \A pid \in Pids : proc'[pid] = proc[pid] \/ (proc[pid] = Free /\ proc'[pid] = Stranger)
  PROVE  StartedIsReady'
<1>1. \A n \in N, d \in D : Free \notin {<<n, d>>, Stranger}
  BY Kinds
<1> QED
  BY <1>1, RecordedPids DEF StartedIsReady

LEMMA StepReady == CInv /\ EInv /\ OwnRecords /\ StartedIsReady /\ [Next]_vars => StartedIsReady'
<1> SUFFICES ASSUME CInv, EInv, OwnRecords, StartedIsReady, [Next]_vars PROVE StartedIsReady'
  OBVIOUS
<1> USE DEF Starting
<1>0. TypeOK /\ Control
  BY DEF CInv
<1>a. CASE Start
  <2>1. CASE Ready /\ pc = "idle" /\ UNCHANGED <<meta, proc, pc, past>>
    <3> SUFFICES ASSUME "died" \notin past, NEW n \in N, NEW d \in D
                 PROVE  meta[n][d] # NoPid /\ proc[meta[n][d]] \in {<<n, d>>, Stranger}
      BY <2>1 DEF StartedIsReady
    <3>1. meta[n][d] # NoPid /\ proc[meta[n][d]] # Free
      BY <2>1 DEF Ready, Exists
    <3>2. proc[meta[n][d]] # Zombie
      BY <1>0, <2>1, <3>1, RecordedPids DEF EInv, Zombies, Control
    <3> QED
      BY <3>1, <3>2 DEF OwnRecords
  <2> QED
    BY <1>a, <2>1, NotReady DEF Start, disk
<1>b. CASE Started
  <2> SUFFICES ASSUME "died" \notin past, NEW n \in N, NEW d \in D
               PROVE  meta[n][d] # NoPid /\ proc'[meta[n][d]] \in {<<n, d>>, Stranger}
    BY <1>b DEF Started, StartedIsReady, disk
  <2>1. Left = {} /\ pc = "jobs"
    BY <1>b, EmptySeq DEF Started, Left
  <2>2. meta[n][d] # NoPid /\ meta[n][d] \in Pids /\ proc[meta[n][d]] = <<n, d>>
    BY <1>0, <2>1, RecordedPids DEF EInv, StartInv, OwnRecords
  <2>3. <<n, d>> # Zombie
    BY Kinds
  <2> QED
    BY <1>b, <2>2, <2>3 DEF Started, Reaped
<1>c. CASE Reuse
  <2>1. \A pid \in Pids : proc'[pid] = proc[pid] \/ (proc[pid] = Free /\ proc'[pid] = Stranger)
    BY <1>c, <1>0 DEF Reuse, TypeOK
  <2> QED
    BY <1>c, <1>0, <2>1, StillReady DEF Reuse, disk
<1>d. CASE WritePidFile \/ Claim \/ UNCHANGED vars
  BY <1>d, <1>0, StillReady DEF WritePidFile, Claim, vars, disk
<1>e. CASE Die
  BY <1>e DEF Die, Note, StartedIsReady
<1>f. CASE FindDirectory \/ MakeDirectory \/ Spawn \/ Interrupt
  <2>1. CASE Raise
    BY <2>1, NotReady DEF Raise, End, Failed
  <2> QED
    BY <1>f, <2>1, NotReady DEF FindDirectory, MakeDirectory, Spawn, Interrupt
<1>g. CASE WriteMarker \/ WaitStarted \/ SaveMetadata \/ ReadRecord \/ AllRead
           \/ SendTerm \/ Gone \/ SendKill \/ Obey \/ Terminated
  BY <1>g, NotReady
  DEF WriteMarker, WaitStarted, SaveMetadata, ReadRecord, AllRead, SendTerm, Gone, SendKill, Obey,
      Signalled, Terminated
<1>h. CASE Stop \/ ValidateAll \/ RemoveNext \/ Removed \/ Kill \/ Reboot
  <2>1. ASSUME NEW how, how # "started", End(how) PROVE StartedIsReady'
    BY <2>1, NotReady DEF End
  <2> QED
    BY <1>h, <2>1, NotReady DEF Stop, ValidateAll, RemoveNext, Removed, Kill, Reboot, Failed
<1> QED
  BY <1>a, <1>b, <1>c, <1>d, <1>e, <1>f, <1>g, <1>h DEF Next, Command

-----------------------------------------------------------------------------
(***************************************************************************)
(* Signals: who is signalled is who was recorded.                          *)
(***************************************************************************)

(* The pids on record are their daemons'.                                   *)
OwnFiles == \A n \in N, d \in D :
  /\ meta[n][d] # NoPid => proc[meta[n][d]] = <<n, d>>
  /\ pidfile[n][d] # NoPid => proc[pidfile[n][d]] = <<n, d>>

(* So are the pids in the queue, but for the one that was sent SIGTERM: its *)
(* daemon may have obeyed, and another program have come.                   *)
OwnQueue == \A i \in 1..Len(queue) : proc[queue[i][2]] = queue[i][1] \/ (half = TRUE /\ i = 1)
OwnTarget == half = TRUE =>
  \/ proc[Target] \in {Head(queue)[1], Free, Zombie}
  \/ proc[Target] = Stranger /\ "reused" \in past

(* While no daemon dies by itself and no command is cut between the         *)
(* termination and the removal, nobody else is signalled but the program    *)
(* that came while its pid's daemon was obeying.                            *)
CalmInv == "died" \notin past /\ "stale" \notin past =>
  /\ pc \notin {"terminate", "validate", "remove"} => OwnFiles
  /\ pc \in {"read", "terminate"} => OwnQueue
  /\ pc = "terminate" => OwnTarget
  /\ "termed" \notin past /\ ("shot" \in past => "reused" \in past)

(* No signal is sent to somebody else.                                      *)
NoShot == past \subseteq past' /\ past' \cap {"termed", "shot"} \subseteq past

(* Only pids that no daemon has change hands.                               *)
DaemonsKept == \A pid \in Pids : proc'[pid] = proc[pid] \/ proc[pid] \in {Free, Zombie, Stranger}

LEMMA SameTarget ==
  ASSUME OwnTarget, UNCHANGED <<queue, half, proc>>, past \subseteq past'
  PROVE  OwnTarget'
  BY DEF OwnTarget, Target

LEMMA KeptCalm ==
  ASSUME TypeOK, CalmInv, UNCHANGED <<meta, pidfile, queue>>, DaemonsKept, NoShot,
         pc' \notin {"terminate", "validate", "remove"} => pc \notin {"terminate", "validate", "remove"},
         pc' \in {"read", "terminate"} => pc \in {"read", "terminate"} /\ UNCHANGED half,
         pc' = "terminate" /\ "died" \notin past /\ "stale" \notin past => OwnTarget'
  PROVE  CalmInv'
<1>1. OwnFiles => OwnFiles'
  <2> SUFFICES ASSUME OwnFiles, NEW n \in N, NEW d \in D
               PROVE  /\ meta[n][d] # NoPid => proc'[meta[n][d]] = <<n, d>>
                      /\ pidfile[n][d] # NoPid => proc'[pidfile[n][d]] = <<n, d>>
    BY DEF OwnFiles
  <2>1. <<n, d>> \notin {Free, Zombie, Stranger}
    BY Kinds
  <2> QED
    BY <2>1, RecordedPids DEF OwnFiles, DaemonsKept
<1>2. UNCHANGED half /\ OwnQueue => OwnQueue'
  <2> SUFFICES ASSUME OwnQueue, NEW i \in 1..Len(queue), ~(half = TRUE /\ i = 1)
               PROVE  proc'[queue[i][2]] = queue[i][1]
    BY DEF OwnQueue
  <2>1. queue[i][1] \notin {Free, Zombie, Stranger} /\ queue[i][2] \in Pids
    BY Kinds, RecordedPids
  <2> QED
    BY <2>1 DEF OwnQueue, DaemonsKept
<1> QED
  BY <1>1, <1>2 DEF CalmInv, NoShot

LEMMA ReapedKept ==
  ASSUME proc' \in {proc, Reaped(proc)}
  PROVE  DaemonsKept
  BY DEF DaemonsKept, Reaped

LEMMA EndedCalm ==
  ASSUME TypeOK, CalmInv, NEW how, End(how), proc' = Reaped(proc), UNCHANGED <<meta, pidfile>>,
         NoShot,
         pc \in {"terminate", "validate", "remove"} => "stale" \in past'
  PROVE  CalmInv'
<1>1. OwnFiles => OwnFiles'
  <2> SUFFICES ASSUME OwnFiles, NEW n \in N, NEW d \in D
               PROVE  /\ meta[n][d] # NoPid => proc'[meta[n][d]] = <<n, d>>
                      /\ pidfile[n][d] # NoPid => proc'[pidfile[n][d]] = <<n, d>>
    BY DEF OwnFiles
  <2>1. <<n, d>> \notin {Free, Zombie, Stranger}
    BY Kinds
  <2> QED
    BY <2>1, ReapedKept, RecordedPids DEF OwnFiles, DaemonsKept
<1>2. pc' = "idle"
  BY DEF End
<1> QED
  BY <1>1, <1>2 DEF CalmInv, NoShot

(* The daemons that a start has spawned are signalled, and still live.      *)
LEMMA UnwoundCalm ==
  ASSUME TypeOK, CalmInv, OwnRecords, pc \in Starting, pc' = "terminate", queue' = Reverse(started),
         half' = FALSE, DaemonsKept, NoShot
  PROVE  CalmInv'
<1> SUFFICES ASSUME "died" \notin past, "stale" \notin past PROVE OwnQueue'
  BY DEF CalmInv, NoShot, OwnTarget
<1>1. ASSUME NEW i \in 1..Len(queue') PROVE proc'[queue'[i][2]] = queue'[i][1]
  <2>1. PICK j \in 1..Len(started) : queue'[i] = started[j]
    BY ReverseProperties DEF TypeOK
  <2>2. started[j][2] \in Pids /\ started[j][1] \notin {Free, Zombie, Stranger}
    BY Kinds, RecordedPids
  <2>3. proc[started[j][2]] = started[j][1]
    BY DEF OwnRecords
  <2> QED
    BY <2>1, <2>2, <2>3 DEF DaemonsKept
<1> QED
  BY <1>1 DEF OwnQueue

LEMMA RaisedCalm ==
  ASSUME TypeOK, CalmInv, OwnRecords, Raise, UNCHANGED disk,
         NoShot,
         pc \in {"terminate", "validate", "remove"} => "stale" \in past'
  PROVE  CalmInv'
<1>1. CASE pc \in Starting /\ pc' = "terminate" /\ queue' = Reverse(started) /\ half' = FALSE /\ UNCHANGED proc
  BY <1>1, UnwoundCalm, ReapedKept
<1>2. CASE End(Failed) /\ proc' = Reaped(proc)
  BY <1>2, EndedCalm DEF disk
<1>3. CASE pc = "terminate"
  BY <1>3 DEF CalmInv
<1> QED
  BY <1>1, <1>2, <1>3 DEF Raise, Starting

LEMMA NoFilesCalm ==
  ASSUME CalmInv, \A n \in N : meta'[n] = NoRecords[n] /\ pidfile'[n] = NoRecords[n],
         pc' \notin {"read", "terminate"}, NoShot
  PROVE  CalmInv'
  BY DEF CalmInv, OwnFiles, NoRecords, NoShot

LEMMA WrittenPidFile ==
  ASSUME TypeOK, WritePidFile
  PROVE  \E pid \in Pids, n \in N, d \in D :
           /\ proc[pid] = <<n, d>>
           /\ \A m \in N, c \in D : pidfile'[m][c] = IF <<m, c>> = <<n, d>> THEN pid ELSE pidfile[m][c]
<1>1. PICK pid \in Pids : /\ Daemon(pid)
                          /\ pidfile' = [pidfile EXCEPT ![proc[pid][1]] = [@ EXCEPT ![proc[pid][2]] = pid]]
  BY DEF WritePidFile
<1>2. PICK n \in N, d \in D : proc[pid] = <<n, d>>
  BY <1>1 DEF Daemon
<1>3. pidfile' = [pidfile EXCEPT ![n] = [pidfile[n] EXCEPT ![d] = pid]]
  BY <1>1, <1>2
<1>4. \A m \in N, c \in D : pidfile'[m][c] = IF <<m, c>> = <<n, d>> THEN pid ELSE pidfile[m][c]
  BY <1>3 DEF TypeOK
<1> QED
  BY <1>2, <1>4

(* The pids behind the one that was sent SIGTERM.                           *)
LEMMA QueueApart ==
  ASSUME CInv, EInv, pc = "terminate", half = TRUE, OwnQueue, OwnTarget
  PROVE  /\ Target \in Pids /\ Head(queue) = queue[1] /\ queue # <<>>
         /\ \A j \in 1..Len(queue) : j # 1 =>
              proc[queue[j][2]] = queue[j][1] /\ queue[j][2] # Target /\ queue[j][2] \in Pids
<1>0. TypeOK /\ queue \in Seq(Entries) /\ queue # <<>> /\ Once(queue)
  BY DEF CInv, TypeOK, Control, EInv, QueueInv
<1>1. 1 \in 1..Len(queue) /\ Head(queue) = queue[1]
  BY <1>0, TailOnce
<1>2. Target \in Pids /\ Target = queue[1][2]
  BY <1>0, <1>1, RecordedPids DEF Target
<1>3. proc[Target] \in {queue[1][1], Free, Zombie, Stranger}
  BY <1>1 DEF OwnTarget
<1>4. ASSUME NEW j \in 1..Len(queue), j # 1
      PROVE  proc[queue[j][2]] = queue[j][1] /\ queue[j][2] # Target /\ queue[j][2] \in Pids
  <2>1. proc[queue[j][2]] = queue[j][1] /\ queue[j][2] \in Pids /\ queue[j][1] \in N \X D
    BY <1>0, <1>4, RecordedPids DEF OwnQueue
  <2>2. queue[j][1] \notin {queue[1][1], Free, Zombie, Stranger}
    BY <1>0, <1>1, <1>4, <2>1, Kinds DEF Once
  <2> QED
    BY <1>3, <2>1, <2>2
<1> QED
  BY <1>0, <1>1, <1>2, <1>4

LEMMA QueueAdvances ==
  ASSUME CInv, EInv, pc = "terminate", half = TRUE, OwnQueue, OwnTarget,
         queue' = Tail(queue), \A pid \in Pids : pid # Target => proc'[pid] = proc[pid]
  PROVE  OwnQueue'
<1> SUFFICES ASSUME NEW i \in 1..Len(queue') PROVE proc'[queue'[i][2]] = queue'[i][1]
  BY DEF OwnQueue
<1>1. queue \in Seq(Entries) /\ queue # <<>> /\ Once(queue)
  BY DEF CInv, TypeOK, Control, EInv, QueueInv
<1> DEFINE j == i + 1
<1>2. j \in 1..Len(queue) /\ queue'[i] = queue[j] /\ j # 1
  <2>1. Len(queue') \in Nat
    BY <1>1, HeadTailProperties
  <2>2. j \in 1..Len(queue) /\ queue'[i] = queue[j]
    BY <1>1, TailOnce
  <2> QED
    BY <2>1, <2>2
<1> HIDE DEF j
<1>3. proc[queue[j][2]] = queue[j][1] /\ queue[j][2] # Target /\ queue[j][2] \in Pids
  BY <1>2, QueueApart
<1> QED
  BY <1>2, <1>3

LEMMA StepCalm == CInv /\ TreeInv /\ EInv /\ OwnRecords /\ CalmInv /\ [Next]_vars => CalmInv'
<1> SUFFICES ASSUME CInv, TreeInv, EInv, OwnRecords, CalmInv, [Next]_vars PROVE CalmInv'
  OBVIOUS
<1> USE DEF Starting
<1>0. TypeOK /\ Control
  BY DEF CInv
<1>1. UNCHANGED proc => DaemonsKept
  BY ReapedKept
<1>3. UNCHANGED past => NoShot
  BY DEF NoShot
<1>2. ASSUME pc = "idle", pc' = "read", UNCHANGED <<disk, proc, queue, past>> PROVE CalmInv'
  <2>1. OwnQueue'
    BY <1>0, <1>2, EmptyOnce DEF OwnQueue, Control
  <2> QED
    BY <1>2, <2>1 DEF CalmInv, OwnFiles, disk
<1>a. CASE Start
  BY <1>a, <1>0, <1>1, <1>2, <1>3, KeptCalm DEF Start, disk
<1>b. CASE FindDirectory
  <2>1. CASE Raise /\ UNCHANGED disk
    BY <1>b, <1>0, <1>3, <2>1, RaisedCalm DEF FindDirectory
  <2>2. CASE UNCHANGED <<meta, pidfile, proc, queue, past>> /\ pc' \in {"jobs", "marker"}
    BY <1>b, <1>0, <1>1, <1>3, <2>2, KeptCalm DEF FindDirectory
  <2> QED
    BY <1>b, <2>1, <2>2 DEF FindDirectory, disk
<1>x. CASE MakeDirectory
  <2>1. CASE Raise /\ UNCHANGED disk
    BY <1>x, <1>0, <1>3, <2>1, RaisedCalm DEF MakeDirectory
  <2>2. CASE UNCHANGED <<meta, pidfile, proc, queue, past>> /\ pc' \in {"jobs", "marker"}
    BY <1>x, <1>0, <1>1, <1>3, <2>2, KeptCalm DEF MakeDirectory
  <2> QED
    BY <1>x, <2>1, <2>2 DEF MakeDirectory, disk
<1>c. CASE WriteMarker
  BY <1>c, <1>0, <1>1, <1>3, KeptCalm DEF WriteMarker
<1>d. CASE Spawn
  <2>1. CASE Raise /\ UNCHANGED <<disk, past>>
    BY <1>d, <1>0, <1>3, <2>1, RaisedCalm DEF Spawn
  <2>2. ASSUME NEW pid \in Pids, proc[pid] = Free, proc' = [proc EXCEPT ![pid] = Job[2]]
        PROVE  DaemonsKept
    BY <1>0, <2>2 DEF DaemonsKept, TypeOK
  <2>3. CASE pc = "jobs" /\ pc' = "wait" /\ DaemonsKept /\ UNCHANGED <<disk, queue, past>>
    BY <1>0, <1>3, <2>3, KeptCalm DEF disk
  <2>4. CASE pc = "jobs" /\ pc' = "terminate" /\ queue' = Reverse(started) /\ DaemonsKept /\ Note("lost")
             /\ half' = FALSE
    BY <1>0, <2>4, UnwoundCalm DEF Note, NoShot
  <2>5. half = FALSE
    BY <1>d DEF Spawn, CInv, TypeOK, Control, Loops
  <2> QED
    BY <1>d, <2>1, <2>2, <2>3, <2>4, <2>5 DEF Spawn
<1>e. CASE WaitStarted
  <2>1. DaemonsKept
    BY <1>e, <1>0, <1>1 DEF WaitStarted, DaemonsKept, TypeOK
  <2>2. CASE pc = "wait" /\ pc' = "save" /\ UNCHANGED <<disk, queue, past>>
    BY <1>0, <1>3, <2>1, <2>2, KeptCalm DEF disk
  <2>3. CASE pc = "wait" /\ pc' = "terminate" /\ queue' = Reverse(started) /\ UNCHANGED <<half, past>>
    <3>1. half' = FALSE
      BY <1>0, <2>3 DEF TypeOK, Control
    <3> QED
      BY <1>0, <1>3, <2>1, <2>3, <3>1, UnwoundCalm
  <2> QED
    BY <1>e, <2>2, <2>3 DEF WaitStarted
<1>f. CASE SaveMetadata
  <2>1. started # <<>> /\ pc = "save" /\ pc' = "jobs" /\ UNCHANGED <<pidfile, proc, past>>
    BY <1>f, <1>0 DEF SaveMetadata, Control
  <2>2. \A n \in N, d \in D :
          meta'[n][d] = IF <<n, d>> = Last(started)[1] THEN Last(started)[2] ELSE meta[n][d]
    BY <1>f, <1>0, <2>1, SavedMeta DEF SaveMetadata
  <2>3. "died" \notin past => proc[Last(started)[2]] = Last(started)[1]
    BY <1>0, <2>1, LastStarted DEF OwnRecords
  <2>4. ASSUME "died" \notin past, OwnFiles PROVE OwnFiles'
    <3> SUFFICES ASSUME NEW n \in N, NEW d \in D, meta'[n][d] # NoPid PROVE proc[meta'[n][d]] = <<n, d>>
      BY <2>1, <2>4 DEF OwnFiles
    <3>1. CASE <<n, d>> = Last(started)[1]
      BY <2>2, <2>3, <2>4, <3>1
    <3>2. CASE <<n, d>> # Last(started)[1]
      <4>1. meta'[n][d] = meta[n][d]
        BY <2>2, <3>2
      <4> QED
        BY <2>4, <4>1 DEF OwnFiles
    <3> QED
      BY <3>1, <3>2
  <2> QED
    BY <2>1, <2>4 DEF CalmInv
<1>g. CASE Started
  BY <1>g, <1>0, <1>3, EndedCalm DEF Started, disk
<1>h. CASE Stop
  BY <1>h, <1>0, <1>1, <1>2, <1>3, KeptCalm DEF Stop, disk
<1>i. CASE ReadRecord
  <2> SUFFICES ASSUME "died" \notin past, "stale" \notin past PROVE OwnFiles' /\ OwnQueue'
    BY <1>i DEF ReadRecord, CalmInv
  <2>1. OwnFiles /\ OwnQueue
    BY <1>i DEF ReadRecord, CalmInv
  <2>2. UNCHANGED <<disk, proc, half, past>> /\ half = FALSE
    BY <1>i, <1>0 DEF ReadRecord, TypeOK, Control
  <2>3. OwnFiles'
    BY <2>1, <2>2 DEF OwnFiles, disk
  <2>4. Job \in Chores /\ Job[2] = <<Job[2][1], Job[2][2]>> /\ Job[2][1] \in N /\ Job[2][2] \in D
    <3>1. Job \in Chores
      BY <1>i, JobIsLeft DEF ReadRecord, CInv, Loops
    <3> QED
      BY <3>1 DEF Chores
  <2>5. PICK pid : /\ pid = Record(Job[2][1], Job[2][2])
                   /\ queue' = IF dirs[NodeDir(Job[2][1])] # "absent" /\ Exists(pid)
                                 THEN <<<<Job[2], pid>>>> \o queue ELSE queue
    BY <1>i DEF ReadRecord
  <2>6. CASE queue' = queue
    BY <2>1, <2>2, <2>3, <2>6 DEF OwnQueue
  <2>7. CASE queue' # queue
    <3> DEFINE e == <<Job[2], pid>>
    <3>1. pid # NoPid /\ queue' = <<e>> \o queue
      BY <2>5, <2>7 DEF Exists
    <3>2. pid \in Pids /\ proc[pid] = Job[2]
      BY <1>0, <2>1, <2>4, <2>5, <3>1, RecordedPids DEF Record, OwnFiles
    <3>3. e \in Entries /\ e[1] = Job[2] /\ e[2] = pid
      BY <2>4, <3>2 DEF Entries
    <3>4. queue \in Seq(Entries)
      BY <1>0 DEF TypeOK
    <3> HIDE DEF e
    <3>5. \A k \in 1..Len(queue') : queue'[k] = e \/ \E i \in 1..Len(queue) : queue'[k] = queue[i]
      BY <3>1, <3>3, <3>4, ConsEntries
    <3>6. \A k \in 1..Len(queue') : proc[queue'[k][2]] = queue'[k][1]
      BY <2>1, <2>2, <3>2, <3>3, <3>5 DEF OwnQueue
    <3> QED
      BY <2>2, <2>3, <3>6 DEF OwnQueue
  <2> QED
    BY <2>6, <2>7
<1>j. CASE AllRead
  <2>1. OwnTarget' /\ UNCHANGED half
    BY <1>j, <1>0 DEF AllRead, OwnTarget, TypeOK, Control
  <2> QED
    BY <1>j, <1>0, <1>1, <1>3, <2>1, KeptCalm DEF AllRead, disk
<1>4. ASSUME "died" \notin past, "stale" \notin past, pc = "terminate"
      PROVE  OwnQueue /\ OwnTarget /\ "termed" \notin past /\ ("shot" \in past => "reused" \in past)
  BY <1>4 DEF CalmInv
<1>k. CASE SendTerm
  <2> SUFFICES ASSUME "died" \notin past, "stale" \notin past
               PROVE  OwnQueue' /\ OwnTarget' /\ UNCHANGED past
    BY <1>k, <1>4 DEF SendTerm, Signal, CalmInv
  <2>1. pc = "terminate" /\ half = FALSE /\ queue # <<>> /\ OwnQueue /\ queue \in Seq(Entries) /\ Once(queue)
    BY <1>k, <1>0, <1>4 DEF SendTerm, EInv, QueueInv, TypeOK
  <2>2. 1 \in 1..Len(queue) /\ Head(queue) = queue[1]
    BY <2>1, TailOnce
  <2>3. proc[Target] = Head(queue)[1] /\ Head(queue)[1] \in N \X D
    BY <1>0, <2>1, <2>2, RecordedPids DEF OwnQueue, Target
  <2>4. proc[Target] \notin {Free, Stranger}
    BY <2>3, Kinds
  <2>5. half' = TRUE /\ UNCHANGED <<queue, proc, past>>
    BY <1>k, <2>4 DEF SendTerm, Signal
  <2>6. OwnQueue'
    BY <2>1, <2>5 DEF OwnQueue
  <2>7. OwnTarget'
    BY <2>3, <2>5 DEF OwnTarget, Target
  <2> QED
    BY <2>5, <2>6, <2>7
<1>y. CASE Gone
  <2> SUFFICES ASSUME "died" \notin past, "stale" \notin past PROVE OwnQueue' /\ OwnTarget'
    BY <1>y, <1>4 DEF Gone, CalmInv
  <2>1. OwnTarget'
    BY <1>y DEF Gone, OwnTarget
  <2> QED
    BY <1>y, <1>4, <2>1, QueueAdvances DEF Gone
<1>z. CASE SendKill
  <2> SUFFICES ASSUME "died" \notin past, "stale" \notin past
               PROVE  OwnQueue' /\ OwnTarget' /\ "termed" \notin past' /\ ("shot" \in past' => "reused" \in past')
    BY <1>z DEF SendKill, Signal, CalmInv
  <2>1. pc = "terminate" /\ half = TRUE /\ OwnQueue /\ OwnTarget
    BY <1>z, <1>4 DEF SendKill
  <2>2. OwnTarget'
    BY <1>z DEF SendKill, OwnTarget
  <2>3. "termed" \notin past' /\ ("shot" \in past' => "reused" \in past')
    <3>1. proc[Target] = Stranger => "reused" \in past
      <4>1. 1 \in 1..Len(queue) /\ Head(queue) = queue[1]
        BY <1>0, <2>1, TailOnce DEF TypeOK, Control, EInv, QueueInv
      <4>2. Head(queue)[1] # Stranger
        BY <1>0, <4>1, RecordedPids, Kinds
      <4> QED
        BY <2>1, <4>2, Kinds DEF OwnTarget
    <3>2. past' = past \cup (IF proc[Target] = Stranger THEN {"shot"} ELSE {})
      BY <1>z DEF SendKill, Signal
    <3> QED
      BY <1>4, <2>1, <3>1, <3>2
  <2>4. \A pid \in Pids : pid # Target => proc'[pid] = proc[pid]
    BY <1>z, <1>0 DEF SendKill, Killed, TypeOK
  <2>5. OwnQueue'
    BY <1>z, <2>1, <2>4, QueueAdvances DEF SendKill
  <2> QED
    BY <2>2, <2>3, <2>5
<1>l. CASE Terminated
  BY <1>l, <1>0, <1>1, <1>3, KeptCalm DEF Terminated, disk
<1>m. CASE ValidateAll
  BY <1>m DEF ValidateAll, Note, CalmInv
<1>n. CASE RemoveNext
  <2>1. CASE pc' = "remove" /\ UNCHANGED past
    BY <2>1, <1>n DEF CalmInv, RemoveNext
  <2>2. CASE past' = past \cup CutShort
    BY <2>2, <1>n DEF CalmInv, CutShort, RemoveNext
  <2> QED
    BY <1>n, <2>1, <2>2 DEF RemoveNext
<1>o. CASE Removed
  <2>1. pc = "remove" /\ todo = <<>> /\ UNCHANGED <<disk, past>> /\ pc' \in {"jobs", "idle"}
    BY <1>o DEF Removed, End
  <2>2. dirs[Run] \in {"absent", "other"}
    BY <2>1, AllRemoved, PathNames
  <2> QED
    BY <1>3, <2>1, <2>2, NoArtifactsNoRecords, NoFilesCalm DEF disk
<1>p. CASE Interrupt
  <2>1. /\ NoShot
        /\ pc \in {"terminate", "validate", "remove"} => "stale" \in past'
    BY <1>p DEF Interrupt, CutShort, NoShot
  <2> QED
    BY <1>p, <1>0, <2>1, RaisedCalm DEF Interrupt
<1>q. CASE WritePidFile
  <2>1. PICK pid \in Pids, n \in N, d \in D :
          /\ proc[pid] = <<n, d>>
          /\ \A m \in N, c \in D : pidfile'[m][c] = IF <<m, c>> = <<n, d>> THEN pid ELSE pidfile[m][c]
    BY <1>q, <1>0, WrittenPidFile
  <2>2. UNCHANGED <<meta, proc, queue, half, past, pc>>
    BY <1>q DEF WritePidFile
  <2>3. ASSUME OwnFiles PROVE OwnFiles'
    <3> SUFFICES ASSUME NEW m \in N, NEW c \in D, pidfile'[m][c] # NoPid PROVE proc[pidfile'[m][c]] = <<m, c>>
      BY <2>2, <2>3 DEF OwnFiles
    <3>1. CASE <<m, c>> = <<n, d>>
      BY <2>1, <3>1
    <3>2. CASE <<m, c>> # <<n, d>>
      <4>1. pidfile'[m][c] = pidfile[m][c]
        BY <2>1, <3>2
      <4> QED
        BY <2>3, <4>1 DEF OwnFiles
    <3> QED
      BY <3>1, <3>2
  <2> QED
    BY <2>2, <2>3 DEF CalmInv, OwnQueue, OwnTarget, Target
<1>r. CASE Die
  BY <1>r DEF Die, Note, CalmInv
<1>rr. CASE Obey
  <2> SUFFICES ASSUME "died" \notin past, "stale" \notin past PROVE OwnQueue' /\ OwnTarget'
    BY <1>rr, <1>4 DEF Obey, Signalled, CalmInv
  <2>1. pc = "terminate" /\ half = TRUE /\ proc[Target] \notin {Free, Zombie}
        /\ proc' = Killed(Target) /\ UNCHANGED <<queue, half>>
    BY <1>rr DEF Obey, Signalled
  <2>2. /\ Target \in Pids
        /\ \A j \in 1..Len(queue) : j # 1 =>
             proc[queue[j][2]] = queue[j][1] /\ queue[j][2] # Target /\ queue[j][2] \in Pids
    BY <1>4, <2>1, QueueApart
  <2>3. proc'[Target] \in {Free, Zombie} /\ \A pid \in Pids : pid # Target => proc'[pid] = proc[pid]
    BY <1>0, <2>1, <2>2 DEF Killed, TypeOK
  <2>4. OwnQueue'
    BY <2>1, <2>2, <2>3 DEF OwnQueue
  <2>5. OwnTarget'
    BY <2>1, <2>3 DEF OwnTarget, Target
  <2> QED
    BY <2>4, <2>5
<1>s. CASE Claim
  <2>1. NoShot /\ UNCHANGED <<pc, half, queue, proc>>
    BY <1>s DEF Claim, NoShot
  <2>2. "died" \notin past /\ "stale" \notin past /\ pc = "terminate" => OwnTarget'
    BY <1>4, <2>1, SameTarget DEF NoShot
  <2> QED
    BY <1>s, <1>0, <1>1, <2>1, <2>2, KeptCalm DEF Claim
<1>t. CASE Reuse
  <2>1. PICK pid \in Pids : /\ proc[pid] = Free /\ proc' = [proc EXCEPT ![pid] = Stranger]
                            /\ past' = past \cup (IF Signalled(pid) THEN {"reused"} ELSE {})
    BY <1>t DEF Reuse
  <2>2. UNCHANGED <<pc, half, queue, disk>>
    BY <1>t DEF Reuse
  <2>3. DaemonsKept /\ NoShot
    BY <2>1, <1>0 DEF TypeOK, DaemonsKept, NoShot
  <2>4. ASSUME "died" \notin past, "stale" \notin past, pc = "terminate" PROVE OwnTarget'
    <3> SUFFICES ASSUME half = TRUE PROVE OwnTarget'
      BY <2>2 DEF OwnTarget
    <3>1. CASE pid = Target
      <4>1. "reused" \in past' /\ proc'[Target] = Stranger
        BY <1>0, <2>1, <2>4, <3>1 DEF Signalled, TypeOK
      <4> QED
        BY <2>2, <4>1 DEF OwnTarget, Target
    <3>2. CASE pid # Target
      <4>1. proc'[Target] = proc[Target] /\ past \subseteq past'
        BY <1>0, <2>1, <3>2 DEF TypeOK
      <4> QED
        BY <1>4, <2>2, <2>4, <4>1 DEF OwnTarget, Target
    <3> QED
      BY <3>1, <3>2
  <2> QED
    BY <1>0, <2>2, <2>3, <2>4, KeptCalm DEF disk
<1>u. CASE Kill
  <2>1. /\ NoShot
        /\ pc \in {"terminate", "validate", "remove"} => "stale" \in past'
    BY <1>u DEF Kill, CutShort, NoShot
  <2> QED
    BY <1>u, <1>0, <2>1, EndedCalm DEF Kill, disk
<1>v. CASE Reboot
  <2>1. NoShot
    BY <1>v DEF Reboot, CutShort, NoShot
  <2> QED
    BY <1>v, <2>1, NoFilesCalm DEF Reboot, End
<1>w. CASE UNCHANGED vars
  <2>1. "died" \notin past /\ "stale" \notin past /\ pc = "terminate" => OwnTarget'
    BY <1>w, <1>4, SameTarget DEF vars
  <2> QED
    BY <1>w, <1>0, <1>1, <1>3, <2>1, KeptCalm DEF vars, disk
<1> QED
  BY <1>a, <1>b, <1>x, <1>c, <1>d, <1>e, <1>f, <1>g, <1>h, <1>i, <1>j, <1>k, <1>y, <1>z,
     <1>l, <1>m, <1>n, <1>o, <1>p, <1>q, <1>r, <1>rr, <1>s, <1>t, <1>u, <1>v, <1>w
  DEF Next, Command

-----------------------------------------------------------------------------
(***************************************************************************)
(* Stop: every daemon that lives is remembered somewhere.                  *)
(***************************************************************************)
Listed(s, x, pid) == \E i \in 1..Len(s) : s[i][1] = x /\ s[i][2] = pid

(* By the records, by start(), by the queue, or by what is left to read.    *)
Recorded == \A pid \in Pids : Daemon(pid) => Record(proc[pid][1], proc[pid][2]) = pid
AllStarted == \A pid \in Pids : Daemon(pid) => Listed(started, proc[pid], pid)
AllQueued == \A pid \in Pids : Daemon(pid) => Listed(queue, proc[pid], pid)
AllRemembered == \A pid \in Pids : Daemon(pid) => Chore(proc[pid]) \in Left \/ Listed(queue, proc[pid], pid)
NoneLives == \A pid \in Pids : ~Daemon(pid)

(* Unless a daemon was lost or a start killed before it was on record.      *)
LivingInv == "early" \notin past /\ "lost" \notin past =>
  /\ pc \in {"idle", "read"} => Recorded
  /\ pc = "read" => AllRemembered
  /\ pc \in Starting => AllStarted
  /\ pc = "terminate" => AllQueued /\ IF cmd = "start" THEN AllStarted ELSE Recorded
  /\ pc \in {"validate", "remove"} => NoneLives

(* No daemon is new.                                                        *)
Fewer == \A pid \in Pids : proc'[pid] \in N \X D => proc'[pid] = proc[pid]

LEMMA FewerLive ==
  ASSUME Fewer
  PROVE  /\ UNCHANGED <<meta, pidfile>> /\ Recorded => Recorded'
         /\ UNCHANGED started /\ AllStarted => AllStarted'
         /\ UNCHANGED queue /\ AllQueued => AllQueued'
         /\ NoneLives => NoneLives'
<1>1. UNCHANGED <<meta, pidfile>> /\ Recorded => Recorded'
  BY DEF Fewer, Recorded, Daemon, Record
<1>2. UNCHANGED started /\ AllStarted => AllStarted'
  BY DEF Fewer, AllStarted, Daemon, Listed
<1>3. UNCHANGED queue /\ AllQueued => AllQueued'
  BY DEF Fewer, AllQueued, Daemon, Listed
<1>4. NoneLives => NoneLives'
  BY DEF Fewer, NoneLives, Daemon
<1> QED
  BY <1>1, <1>2, <1>3, <1>4

LEMMA SameFewer == UNCHANGED proc \/ proc' = Reaped(proc) => Fewer
  BY Kinds DEF Fewer, Reaped

LEMMA KeptLiving ==
  ASSUME CInv, LivingInv, Fewer, past \subseteq past',
         UNCHANGED <<pc, todo, cmd, started, queue, meta, pidfile>>
  PROVE  LivingInv'
<1>1. AllRemembered => AllRemembered'
  BY SameLoop DEF Fewer, AllRemembered, Daemon, Listed
<1> QED
  BY <1>1, FewerLive DEF LivingInv

LEMMA StartingLiving ==
  ASSUME LivingInv, Fewer, past \subseteq past', pc \in Starting, pc' \in Starting, UNCHANGED started
  PROVE  LivingInv'
  BY FewerLive DEF LivingInv, Starting

LEMMA UnwoundLiving ==
  ASSUME CInv, LivingInv, Fewer, past \subseteq past', pc \in Starting, pc' = "terminate",
         queue' = Reverse(started), UNCHANGED <<cmd, started>>
  PROVE  LivingInv'
<1>1. ASSUME AllStarted PROVE AllQueued'
  <2> SUFFICES ASSUME NEW pid \in Pids, proc'[pid] \in N \X D
               PROVE  \E k \in 1..Len(Reverse(started)) :
                        Reverse(started)[k][1] = proc'[pid] /\ Reverse(started)[k][2] = pid
    BY DEF AllQueued, Daemon, Listed
  <2>1. PICK i \in 1..Len(started) : started[i][1] = proc[pid] /\ started[i][2] = pid
    BY <1>1 DEF AllStarted, Daemon, Listed, Fewer
  <2>2. started \in Seq(Entries) /\ Len(started) \in Nat
    BY DEF CInv, TypeOK
  <2> DEFINE k == (Len(started) - i) + 1
  <2>3. k \in 1..Len(started) /\ (Len(started) - k) + 1 = i
    BY <2>2
  <2> HIDE DEF k
  <2>4. k \in 1..Len(Reverse(started)) /\ Reverse(started)[k] = started[i]
    BY <2>2, <2>3, ReverseProperties
  <2> QED
    BY <2>1, <2>4 DEF Fewer
<1>2. cmd' = "start"
  BY DEF CInv, Control
<1> QED
  BY <1>1, <1>2, FewerLive DEF LivingInv, Starting

LEMMA StartedOnRecord ==
  ASSUME CInv, EInv, AllStarted, pc \in Starting \cup {"terminate"}, NEW pid \in Pids, Daemon(pid)
  PROVE  /\ meta[proc[pid][1]][proc[pid][2]] \in {NoPid, pid}
         /\ pc = "jobs" => meta[proc[pid][1]][proc[pid][2]] = pid
<1>1. PICK i \in 1..Len(started) : started[i][1] = proc[pid] /\ started[i][2] = pid
  BY DEF AllStarted, Listed
<1>2. CASE pc = "terminate"
  BY <1>1, <1>2 DEF EInv, StartedInv
<1>3. CASE pc \in Starting /\ Saved(i)
  BY <1>1, <1>3 DEF EInv, StartInv
<1>4. CASE pc \in Starting /\ ~Saved(i)
  <2>1. pc \in {"wait", "save"} /\ Last(started) = started[i]
    BY <1>4 DEF Saved, Last
  <2>2. Job = Chore(proc[pid]) /\ Job \in Left
    BY <1>1, <2>1, JobIsLeft DEF CInv, Control, Loops, Chore
  <2>3. PICK n \in N, d \in D : proc[pid] = <<n, d>>
    BY DEF Daemon
  <2> QED
    BY <1>4, <2>1, <2>2, <2>3 DEF EInv, StartInv
<1> QED
  BY <1>2, <1>3, <1>4

(* Each daemon lives once.                                                  *)
LEMMA LivesOnce ==
  ASSUME CInv, EInv, LivingInv, "early" \notin past, "lost" \notin past,
         NEW p \in Pids, NEW q \in Pids, Daemon(p), proc[p] = proc[q]
  PROVE  p = q
<1>1. CASE Recorded
  BY <1>1 DEF Recorded, Daemon
<1>2. CASE AllStarted
  <2>1. PICK i \in 1..Len(started) : started[i][1] = proc[p] /\ started[i][2] = p
    BY <1>2 DEF AllStarted, Listed, Daemon
  <2>2. PICK j \in 1..Len(started) : started[j][1] = proc[p] /\ started[j][2] = q
    BY <1>2 DEF AllStarted, Listed, Daemon
  <2>3. i = j
    BY <2>1, <2>2 DEF EInv, StartedInv, Once
  <2> QED
    BY <2>1, <2>2, <2>3
<1>3. CASE NoneLives
  BY <1>3 DEF NoneLives
<1> QED
  BY <1>1, <1>2, <1>3 DEF LivingInv, CInv, TypeOK, Labels, Starting

LEMMA NoRecordsNoDaemons ==
  ASSUME Recorded, TreeInv, dirs[Run] \in {"absent", "other"}
  PROVE  NoneLives
<1> SUFFICES ASSUME NEW pid \in Pids, Daemon(pid) PROVE FALSE
  BY DEF NoneLives
<1>1. PICK n \in N, d \in D : proc[pid] = <<n, d>>
  BY DEF Daemon
<1>2. Record(n, d) = pid
  BY <1>1 DEF Recorded
<1>3. Record(n, d) = NoPid
  BY NoArtifactsNoRecords DEF Record, NoRecords
<1> QED
  BY <1>2, <1>3, NamesAssumption

LEMMA NoneLiving ==
  ASSUME NoneLives'
  PROVE  LivingInv'
<1>1. Recorded' /\ AllRemembered' /\ AllStarted' /\ AllQueued'
  BY DEF NoneLives, Recorded, AllRemembered, AllStarted, AllQueued
<1> QED
  BY <1>1 DEF LivingInv

(* A command that ends, unless a start does so with a daemon off record.    *)
LEMMA EndedLiving ==
  ASSUME CInv, EInv, LivingInv, NEW how, End(how), proc' = Reaped(proc), UNCHANGED <<meta, pidfile>>,
         past \subseteq past', pc # "idle",
         pc \in Starting \/ (pc = "terminate" /\ cmd = "start") =>
           \/ ~Unrecorded \/ "early" \in past' \/ "lost" \in past'
           \/ pc = "jobs"
  PROVE  LivingInv'
<1> SUFFICES ASSUME "early" \notin past, "lost" \notin past, "early" \notin past', "lost" \notin past'
             PROVE  Recorded'
  BY DEF LivingInv, End, Starting
<1>0. Fewer
  BY SameFewer
<1> SUFFICES Recorded
  BY <1>0, FewerLive
<1>1. CASE pc = "read" \/ (pc = "terminate" /\ cmd # "start")
  BY <1>1 DEF LivingInv
<1>2. CASE pc \in {"validate", "remove"}
  BY <1>2 DEF LivingInv, NoneLives, Recorded
<1>3. CASE pc \in Starting \/ (pc = "terminate" /\ cmd = "start")
  <2> SUFFICES ASSUME NEW pid \in Pids, Daemon(pid)
               PROVE  Record(proc[pid][1], proc[pid][2]) = pid
    BY DEF Recorded
  <2>1. AllStarted
    BY <1>3 DEF LivingInv
  <2>2. meta[proc[pid][1]][proc[pid][2]] \in {NoPid, pid}
        /\ (pc = "jobs" => meta[proc[pid][1]][proc[pid][2]] = pid)
    BY <1>3, <2>1, StartedOnRecord
  <2>3. pc # "jobs" => pid \in {meta[proc[pid][1]][proc[pid][2]], pidfile[proc[pid][1]][proc[pid][2]]}
    BY <1>3 DEF Unrecorded
  <2> QED
    BY <2>2, <2>3, NamesAssumption DEF Record
<1> QED
  BY <1>1, <1>2, <1>3 DEF CInv, TypeOK, Labels, Starting

LEMMA RaisedLiving ==
  ASSUME CInv, EInv, LivingInv, Raise, UNCHANGED disk, past \subseteq past',
         pc = "terminate" => "lost" \in past'
  PROVE  LivingInv'
<1>1. CASE pc \in Starting /\ pc' = "terminate" /\ queue' = Reverse(started) /\ UNCHANGED <<cmd, started, proc>>
  BY <1>1, SameFewer, UnwoundLiving
<1>2. CASE pc \in {"read", "validate", "remove"} /\ End(Failed) /\ proc' = Reaped(proc)
  BY <1>2, EndedLiving DEF disk, Starting
<1>3. CASE pc = "terminate"
  BY <1>3 DEF LivingInv
<1> QED
  BY <1>1, <1>2, <1>3 DEF Raise, Starting

LEMMA TargetIsPid ==
  ASSUME TypeOK, queue # <<>>
  PROVE  Target \in Pids /\ Head(queue) = queue[1]
<1>1. queue \in Seq(Entries) /\ Head(queue) = queue[1] /\ 1 \in 1..Len(queue)
  BY HeadTailProperties, EmptySeq DEF TypeOK
<1> QED
  BY <1>1, RecordedPids DEF Target

(* The process at the head of the queue lives no longer.                    *)
LEMMA DroppedLiving ==
  ASSUME CInv, EInv, LivingInv, Fewer, past \subseteq past', pc = "terminate",
         queue # <<>>, queue' = Tail(queue), proc'[Target] \notin N \X D,
         UNCHANGED <<pc, cmd, started, disk>>
  PROVE  LivingInv'
<1>1. queue \in Seq(Entries) /\ Once(queue)
  BY DEF CInv, TypeOK, EInv, QueueInv
<1>2. ASSUME AllQueued PROVE AllQueued'
  <2> SUFFICES ASSUME NEW q \in Pids, proc'[q] \in N \X D PROVE Listed(queue', proc'[q], q)
    BY DEF AllQueued, Daemon
  <2>1. PICK i \in 1..Len(queue) : queue[i][1] = proc[q] /\ queue[i][2] = q
    BY <1>2 DEF AllQueued, Daemon, Listed, Fewer
  <2>2. i # 1
    BY <2>1, TargetIsPid DEF CInv, Target
  <2> DEFINE j == i - 1
  <2>3. j \in 1..Len(Tail(queue)) /\ Tail(queue)[j] = queue[i]
    <3>1. Len(Tail(queue)) = Len(queue) - 1 /\ \A k \in 1..Len(Tail(queue)) : Tail(queue)[k] = queue[k + 1]
      BY <1>1, HeadTailProperties
    <3>2. Len(queue) \in Nat
      BY <1>1
    <3>3. j \in 1..Len(Tail(queue)) /\ j + 1 = i
      BY <2>2, <3>1, <3>2
    <3> HIDE DEF j
    <3> QED
      BY <3>1, <3>3
  <2> HIDE DEF j
  <2> QED
    BY <2>1, <2>3 DEF Listed, Fewer
<1> QED
  BY <1>2, FewerLive DEF LivingInv, Starting, disk

LEMMA StepLiving == CInv /\ TreeInv /\ EInv /\ LivingInv /\ [Next]_vars => LivingInv'
<1> SUFFICES ASSUME CInv, TreeInv, EInv, LivingInv, [Next]_vars PROVE LivingInv'
  OBVIOUS
<1> USE DEF Starting
<1>0. TypeOK /\ Control
  BY DEF CInv
<1>1. UNCHANGED proc => Fewer
  BY SameFewer
<1>2. ASSUME pc = "idle", pc' = "read", todo' = InOrder, UNCHANGED <<disk, proc, past>> PROVE LivingInv'
  <2>1. AllRemembered'
    <3>1. ASSUME NEW pid \in Pids, Daemon(pid)' PROVE (Chore(proc[pid]) \in Left)'
      BY <1>2, <3>1, ReadLoop DEF Daemon, Chore, Chores
    <3> QED
      BY <3>1 DEF AllRemembered
  <2>2. Recorded => Recorded'
    BY <1>1, <1>2, FewerLive DEF disk
  <2> QED
    BY <1>2, <2>1, <2>2 DEF LivingInv
<1>a. CASE Start
  <2>1. CASE pc = "idle" /\ ~HasArtifacts /\ pc' = "jobs" /\ UNCHANGED <<proc, past>>
    <3> SUFFICES ASSUME "early" \notin past, "lost" \notin past PROVE AllStarted'
      BY <2>1 DEF LivingInv
    <3>1. dirs[Run] = "absent"
      BY <2>1 DEF HasArtifacts
    <3>2. NoneLives
      BY <2>1, <3>1, NoRecordsNoDaemons DEF LivingInv
    <3> QED
      BY <2>1, <3>2 DEF NoneLives, AllStarted, Daemon
  <2>2. CASE pc = "idle" /\ UNCHANGED <<pc, todo, cmd>>
    BY <1>a, <1>1, <2>2, KeptLiving DEF Start, disk
  <2> QED
    BY <1>a, <1>2, <2>1, <2>2 DEF Start
<1>b. CASE FindDirectory
  <2>1. CASE Raise /\ UNCHANGED disk
    BY <1>b, <2>1, RaisedLiving DEF FindDirectory
  <2>2. CASE UNCHANGED <<pc, started, proc>>
    BY <1>b, <1>1, <2>2, StartingLiving DEF FindDirectory
  <2> QED
    BY <1>b, <2>1, <2>2 DEF FindDirectory
<1>x. CASE MakeDirectory
  <2>1. CASE Raise /\ UNCHANGED dirs
    BY <1>x, <2>1, RaisedLiving DEF MakeDirectory, disk
  <2>2. CASE pc' = "marker" /\ UNCHANGED <<started, proc>>
    BY <1>x, <1>1, <2>2, StartingLiving DEF MakeDirectory
  <2> QED
    BY <1>x, <2>1, <2>2 DEF MakeDirectory
<1>c. CASE WriteMarker
  BY <1>c, <1>1, StartingLiving DEF WriteMarker
<1>d. CASE Spawn
  <2>1. CASE Raise /\ UNCHANGED <<disk, past>>
    BY <1>d, <2>1, RaisedLiving DEF Spawn
  <2>2. CASE Note("lost")
    BY <2>2 DEF LivingInv, Note
  <2>3. ASSUME NEW pid \in Pids, proc[pid] = Free, proc' = [proc EXCEPT ![pid] = Job[2]],
               pc = "jobs", pc' = "wait", todo # <<>>, Job \notin Paths,
               started' = Append(started, <<Job[2], pid>>), UNCHANGED past
        PROVE  LivingInv'
    <3> SUFFICES ASSUME "early" \notin past, "lost" \notin past PROVE AllStarted'
      BY <2>3 DEF LivingInv
    <3> DEFINE e == <<Job[2], pid>>
    <3>1. e \in Entries /\ e[1] = Job[2] /\ e[2] = pid
      <4>1. Job[2] \in N \X D
        BY <2>3, JobIsLeft, ChoreSteps DEF CInv, Loops
      <4> QED
        BY <4>1 DEF Entries
    <3>2. started' = Append(started, e) /\ started \in Seq(Entries) /\ Len(started) \in Nat
      BY <1>0, <2>3 DEF TypeOK
    <3> HIDE DEF e
    <3>3. /\ Len(started') = Len(started) + 1 /\ started'[Len(started) + 1] = e
          /\ \A i \in 1..Len(started) : started'[i] = started[i]
      BY <3>1, <3>2, AppendProperties
    <3>4. Len(started) + 1 \in 1..Len(started') /\ \A i \in 1..Len(started) : i \in 1..Len(started')
      BY <3>2, <3>3
    <3>5. ASSUME NEW q \in Pids, proc'[q] \in N \X D PROVE Listed(started', proc'[q], q)
      <4>1. CASE q = pid
        <5>1. proc'[q] = e[1] /\ q = e[2]
          BY <1>0, <2>3, <3>1, <4>1 DEF TypeOK
        <5> QED
          BY <3>3, <3>4, <5>1 DEF Listed
      <4>2. CASE q # pid
        <5>1. proc'[q] = proc[q]
          BY <1>0, <2>3, <4>2 DEF TypeOK
        <5>2. PICK i \in 1..Len(started) : started[i][1] = proc[q] /\ started[i][2] = q
          BY <2>3, <3>5, <5>1 DEF LivingInv, AllStarted, Daemon, Listed
        <5> QED
          BY <3>3, <3>4, <5>1, <5>2 DEF Listed
      <4> QED
        BY <4>1, <4>2
    <3> QED
      BY <3>5 DEF AllStarted, Daemon
  <2> QED
    BY <1>d, <2>1, <2>2, <2>3 DEF Spawn
<1>e. CASE WaitStarted
  <2>1. Fewer
    BY <1>e, <1>0, <1>1, Kinds DEF WaitStarted, Fewer, TypeOK
  <2>2. CASE pc = "wait" /\ pc' = "save" /\ UNCHANGED <<started, past>>
    BY <2>1, <2>2, StartingLiving
  <2>3. CASE pc = "wait" /\ pc' = "terminate" /\ queue' = Reverse(started) /\ UNCHANGED <<cmd, started, past>>
    BY <2>1, <2>3, UnwoundLiving
  <2> QED
    BY <1>e, <2>2, <2>3 DEF WaitStarted
<1>f. CASE SaveMetadata
  BY <1>f, <1>1, StartingLiving DEF SaveMetadata
<1>g. CASE Started
  BY <1>g, EndedLiving DEF Started, disk
<1>h. CASE Stop
  <2>1. CASE pc = "idle" /\ UNCHANGED <<pc, todo, cmd>>
    BY <1>h, <1>1, <2>1, KeptLiving DEF Stop, disk
  <2> QED
    BY <1>h, <1>2, <2>1 DEF Stop
<1>i. CASE ReadRecord
  <2>1. pc = "read" /\ pc' = "read" /\ UNCHANGED <<disk, proc, past>> /\ todo # <<>> /\ todo' = Rest
    BY <1>i DEF ReadRecord
  <2> SUFFICES ASSUME "early" \notin past, "lost" \notin past, Recorded, AllRemembered PROVE AllRemembered'
    BY <1>1, <2>1, FewerLive DEF LivingInv, disk
  <2>2. Left' = Left \ {Job} /\ Job \in Chores
    BY <2>1, RestLeft, JobIsLeft DEF CInv, Loops
  <2>3. PICK pid : /\ pid = Record(Job[2][1], Job[2][2])
                   /\ queue' = IF dirs[NodeDir(Job[2][1])] # "absent" /\ Exists(pid)
                                 THEN <<<<Job[2], pid>>>> \o queue ELSE queue
    BY <1>i DEF ReadRecord
  <2>4. queue \in Seq(Entries)
    BY <1>0 DEF TypeOK
  <2>5. Job[2] \in N \X D /\ Job = Chore(Job[2])
    BY <2>2 DEF Chores, Chore
  <2>6. ASSUME NEW q \in Pids, Daemon(q), Chore(proc[q]) = Job
        PROVE  Listed(queue', proc[q], q)
    <3> DEFINE e == <<Job[2], pid>>
    <3>1. PICK n \in N, d \in D : proc[q] = <<n, d>>
      BY <2>6 DEF Daemon
    <3>2. Job[2] = <<n, d>>
      BY <2>6, <3>1 DEF Chore
    <3>3. pid = q /\ Record(n, d) = q
      BY <2>3, <2>6, <3>1, <3>2 DEF Recorded
    <3>4. Exists(pid)
      BY <3>1, <3>3, Kinds, NamesAssumption DEF Exists
    <3>5. dirs[NodeDir(n)] # "absent"
      <4>1. Record(n, d) # NoPid
        BY <3>3, NamesAssumption
      <4> QED
        BY <4>1 DEF TreeInv, Record, NoRecords
    <3>6. queue' = <<e>> \o queue
      BY <2>3, <3>2, <3>4, <3>5
    <3>7. e \in Entries /\ e[1] = proc[q] /\ e[2] = q
      BY <3>1, <3>2, <3>3 DEF Entries
    <3> HIDE DEF e
    <3>8. queue'[1] = e /\ 1 \in 1..Len(queue')
      BY <2>4, <3>6, <3>7, ConsProperties
    <3> QED
      BY <3>7, <3>8 DEF Listed
  <2>7. ASSUME NEW q \in Pids, Listed(queue, proc[q], q) PROVE Listed(queue', proc[q], q)
    <3>1. CASE queue' = queue
      BY <2>7, <3>1
    <3>2. CASE queue' # queue
      <4> DEFINE e == <<Job[2], pid>>
      <4>1. pid \in Pids
        BY <1>0, <2>3, <2>5, <3>2, RecordedPids DEF Exists, Record
      <4>2. queue' = <<e>> \o queue /\ e \in Entries
        BY <2>3, <2>5, <3>2, <4>1 DEF Entries
      <4> HIDE DEF e
      <4>3. Len(queue') = Len(queue) + 1 /\ \A i \in 1..Len(queue) : queue'[i + 1] = queue[i]
        BY <2>4, <4>2, ConsProperties
      <4>4. PICK i \in 1..Len(queue) : queue[i][1] = proc[q] /\ queue[i][2] = q
        BY <2>7 DEF Listed
      <4> DEFINE j == i + 1
      <4>5. j \in 1..Len(queue') /\ queue'[j] = queue[i]
        BY <2>4, <4>3
      <4> HIDE DEF j
      <4> QED
        BY <4>4, <4>5 DEF Listed
    <3> QED
      BY <3>1, <3>2
  <2> QED
    BY <2>1, <2>2, <2>6, <2>7 DEF AllRemembered, Daemon
<1>j. CASE AllRead
  <2>1. Left = {} /\ cmd # "start" /\ pc = "read"
    BY <1>j, <1>0, EmptySeq DEF AllRead, Left, Control
  <2>2. AllRemembered => AllQueued
    BY <2>1 DEF AllRemembered, AllQueued
  <2> QED
    BY <1>j, <1>1, <2>1, <2>2, FewerLive DEF AllRead, LivingInv, disk
<1>k. CASE SendTerm
  <2>1. CASE UNCHANGED <<queue, proc>>
    BY <1>k, <1>1, <2>1, KeptLiving DEF SendTerm, Signal, disk
  <2>2. CASE proc[Target] \in {Free, Stranger} /\ queue' = Tail(queue)
    BY <1>k, <1>1, <2>2, Kinds, DroppedLiving DEF SendTerm
  <2> QED
    BY <1>k, <2>1, <2>2 DEF SendTerm
<1>y. CASE Gone
  BY <1>y, <1>0, <1>1, Kinds, DroppedLiving DEF Gone, Control
<1>z. CASE SendKill
  <2>1. Target \in Pids
    BY <1>z, <1>0, TargetIsPid DEF SendKill, Control
  <2>2. Fewer /\ proc'[Target] \notin N \X D
    BY <1>z, <1>0, <2>1, Kinds DEF SendKill, Killed, Fewer, TypeOK
  <2>3. past \subseteq past'
    BY <1>z DEF SendKill, Signal
  <2> QED
    BY <1>z, <1>0, <2>2, <2>3, DroppedLiving DEF SendKill, Control
<1>l. CASE Terminated
  <2>1. AllQueued => NoneLives
    BY <1>l, EmptyOnce DEF Terminated, AllQueued, NoneLives, Listed
  <2> QED
    BY <1>l, <1>1, <2>1, FewerLive DEF Terminated, LivingInv
<1>m. CASE ValidateAll
  <2>1. UNCHANGED proc \/ proc' = Reaped(proc)
    BY <1>m DEF ValidateAll
  <2> SUFFICES ASSUME "early" \notin past, "lost" \notin past PROVE NoneLives'
    BY <1>m, NoneLiving DEF ValidateAll, Note, LivingInv
  <2> QED
    BY <1>m, <2>1, SameFewer, FewerLive DEF ValidateAll, LivingInv
<1>n. CASE RemoveNext
  <2>1. (UNCHANGED proc \/ proc' = Reaped(proc)) /\ past \subseteq past' /\ pc = "remove"
    BY <1>n DEF RemoveNext
  <2> SUFFICES ASSUME "early" \notin past, "lost" \notin past PROVE NoneLives'
    BY <2>1, NoneLiving DEF LivingInv
  <2> QED
    BY <2>1, SameFewer, FewerLive DEF LivingInv
<1>o. CASE Removed
  <2>1. (UNCHANGED proc \/ proc' = Reaped(proc)) /\ past \subseteq past' /\ pc = "remove"
    BY <1>o DEF Removed
  <2> SUFFICES ASSUME "early" \notin past, "lost" \notin past PROVE NoneLives'
    BY <2>1, NoneLiving DEF LivingInv
  <2> QED
    BY <2>1, SameFewer, FewerLive DEF LivingInv
<1>p. CASE Interrupt
  BY <1>p, RaisedLiving DEF Interrupt
<1>q. CASE WritePidFile
  <2>1. UNCHANGED <<pc, todo, cmd, started, queue, meta, proc, past>>
    BY <1>q DEF WritePidFile
  <2> SUFFICES ASSUME "early" \notin past, "lost" \notin past PROVE LivingInv'
    BY <2>1 DEF LivingInv
  <2>2. PICK pid \in Pids, n \in N, d \in D :
          /\ proc[pid] = <<n, d>>
          /\ \A m \in N, c \in D : pidfile'[m][c] = IF <<m, c>> = <<n, d>> THEN pid ELSE pidfile[m][c]
    BY <1>q, <1>0, WrittenPidFile
  <2>3. ASSUME Recorded PROVE Recorded'
    <3> SUFFICES ASSUME NEW q \in Pids, NEW m \in N, NEW c \in D, proc[q] = <<m, c>>
                 PROVE  Record(m, c)' = q
      BY <2>1 DEF Recorded, Daemon
    <3>1. Record(m, c) = q
      BY <2>3 DEF Recorded, Daemon
    <3>2. CASE <<m, c>> = <<n, d>>
      <4>1. q = pid
        <5>1. proc[q] = proc[pid] /\ Daemon(q)
          BY <2>2, <3>2 DEF Daemon
        <5> QED
          BY <5>1, LivesOnce
      <4> QED
        BY <2>1, <2>2, <3>1, <3>2, <4>1 DEF Record
    <3>3. CASE <<m, c>> # <<n, d>>
      <4>1. pidfile'[m][c] = pidfile[m][c]
        BY <2>2, <3>3
      <4> QED
        BY <2>1, <3>1, <4>1 DEF Record
    <3> QED
      BY <3>2, <3>3
  <2>4. AllRemembered => AllRemembered'
    BY <2>1, SameLoop DEF AllRemembered, Daemon, Listed
  <2> QED
    BY <1>1, <2>1, <2>3, <2>4, FewerLive DEF LivingInv
<1>r. CASE Die
  <2>1. Fewer
    BY <1>r, <1>0, Kinds DEF Die, Fewer, TypeOK
  <2> QED
    BY <1>r, <2>1, KeptLiving DEF Die, Note, disk
<1>rr. CASE Obey
  <2>1. Fewer
    BY <1>rr, <1>0, Kinds DEF Obey, Killed, Fewer, TypeOK
  <2> QED
    BY <1>rr, <2>1, KeptLiving DEF Obey, disk
<1>s. CASE Claim
  <2>1. past \subseteq past'
    BY <1>s DEF Claim
  <2> QED
    BY <1>s, <1>1, <2>1, KeptLiving DEF Claim
<1>t. CASE Reuse
  <2>1. Fewer
    BY <1>t, <1>0, Kinds DEF Reuse, Fewer, TypeOK
  <2>2. past \subseteq past'
    BY <1>t DEF Reuse
  <2> QED
    BY <1>t, <2>1, <2>2, KeptLiving DEF Reuse, disk
<1>u. CASE Kill
  <2>1. past \subseteq past' /\ (Unrecorded => "early" \in past')
    BY <1>u DEF Kill
  <2> QED
    BY <1>u, <2>1, EndedLiving DEF Kill, disk
<1>v. CASE Reboot
  <2>1. NoneLives'
    BY <1>v, Kinds DEF Reboot, NoneLives, Daemon
  <2> QED
    BY <2>1, NoneLiving
<1>w. CASE UNCHANGED vars
  BY <1>w, <1>1, KeptLiving DEF vars, disk
<1> QED
  BY <1>a, <1>b, <1>x, <1>c, <1>d, <1>e, <1>f, <1>g, <1>h, <1>i, <1>j, <1>k, <1>y, <1>z,
     <1>l, <1>m, <1>n, <1>o, <1>p, <1>q, <1>r, <1>rr, <1>s, <1>t, <1>u, <1>v, <1>w
  DEF Next, Command

-----------------------------------------------------------------------------
(* A stop() that returned, a start() that was rolled back, and one whose    *)
(* rollback came to the daemons at least.                                   *)
StoppedInv == pc = "idle" =>
  /\ outcome \in {"stopped", "not started"} => \A p \in Paths : dirs[p] \in {"absent", "other"}
  /\ outcome \in {"stopped", "not started", "rollback failed"} =>
       ("early" \notin past /\ "lost" \notin past => NoneLives)

LEMMA NotStopped ==
  ASSUME pc' # "idle" \/ outcome' \notin {"stopped", "not started", "rollback failed"}
  PROVE  StoppedInv'
  BY DEF StoppedInv

LEMMA StillStopped ==
  ASSUME StoppedInv, Fewer, past \subseteq past', UNCHANGED outcome,
         pc' = "idle" => pc = "idle",
         \A p \in Paths : dirs[p] \in {"absent", "other"} => dirs'[p] \in {"absent", "other"}
  PROVE  StoppedInv'
  BY FewerLive DEF StoppedInv

(* A rollback that fails after it has signalled every daemon.               *)
LEMMA FailedStopped ==
  ASSUME CInv, LivingInv, pc \in {"validate", "remove"}, End(Failed), proc' = Reaped(proc),
         past \subseteq past'
  PROVE  StoppedInv'
<1>1. outcome' \in {"rollback failed", "not stopped"}
  BY DEF End, Failed
<1>2. "early" \notin past /\ "lost" \notin past => NoneLives'
  BY SameFewer, FewerLive DEF LivingInv
<1> QED
  BY <1>1, <1>2 DEF StoppedInv

LEMMA RaisedStopped ==
  ASSUME CInv, LivingInv, Raise, past \subseteq past'
  PROVE  StoppedInv'
<1>1. CASE pc' \in {"terminate", "validate"}
  BY <1>1, NotStopped
<1>2. CASE pc \in {"validate", "remove"} /\ End(Failed) /\ proc' = Reaped(proc)
  BY <1>2, FailedStopped
<1>3. CASE pc \in {"read", "terminate"} /\ cmd # "start" /\ End(Failed)
  BY <1>3, NotStopped DEF End, Failed
<1> QED
  BY <1>1, <1>2, <1>3 DEF Raise, CInv, Control

LEMMA StepStopped == CInv /\ TreeInv /\ LivingInv /\ StoppedInv /\ [Next]_vars => StoppedInv'
<1> SUFFICES ASSUME CInv, TreeInv, LivingInv, StoppedInv, [Next]_vars PROVE StoppedInv'
  OBVIOUS
<1>0. TypeOK
  BY DEF CInv
<1>1. UNCHANGED proc => Fewer
  BY SameFewer
<1>a. CASE Start \/ Stop
  BY <1>a, NotStopped DEF Start, Stop
<1>b. CASE Removed
  <2>1. pc = "remove" /\ todo = <<>> /\ UNCHANGED <<disk, past>>
    BY <1>b DEF Removed
  <2>2. \A p \in FrrPaths : dirs[p] \in {"absent", "other"}
    BY <2>1, AllRemoved
  <2>3. \A p \in Paths : dirs[p] \in {"absent", "other"}
    <3>1. \A n \in N : dirs[NodeDir(n)] = "absent"
      BY <2>2, PathNames, NoArtifactsNoRecords
    <3>2. \A p \in Paths : p \in FrrPaths \/ \E n \in N : p = NodeDir(n)
      BY DEF Paths, FrrPaths, NodeDir
    <3> QED
      BY <2>2, <3>1, <3>2
  <2>4. "early" \notin past /\ "lost" \notin past => NoneLives'
    BY <1>b, <2>1, SameFewer, FewerLive DEF Removed, LivingInv
  <2> QED
    BY <2>1, <2>3, <2>4 DEF StoppedInv, disk
<1>c. CASE Die
  <2>1. Fewer
    BY <1>c, <1>0, Kinds DEF Die, Fewer, TypeOK
  <2> QED
    BY <1>c, <2>1, StillStopped DEF Die, Note, disk
<1>d. CASE Claim
  <2>1. \A p \in Paths : dirs'[p] \in {dirs[p], "other"}
    BY <1>d, <1>0 DEF Claim, TypeOK
  <2>2. past \subseteq past'
    BY <1>d DEF Claim
  <2> QED
    BY <1>d, <1>1, <2>1, <2>2, StillStopped DEF Claim
<1>e. CASE Reuse
  <2>1. Fewer
    BY <1>e, <1>0, Kinds DEF Reuse, Fewer, TypeOK
  <2>2. past \subseteq past'
    BY <1>e DEF Reuse
  <2> QED
    BY <1>e, <2>1, <2>2, StillStopped DEF Reuse, disk
<1>f. CASE WritePidFile \/ UNCHANGED vars
  BY <1>f, <1>1, StillStopped DEF WritePidFile, vars, disk
<1>g. CASE FindDirectory \/ MakeDirectory \/ Spawn \/ Interrupt
  <2>1. CASE Raise /\ past \subseteq past'
    BY <2>1, RaisedStopped
  <2>2. CASE pc' \in {"jobs", "marker", "wait", "terminate"}
    BY <2>2, NotStopped
  <2> QED
    BY <1>g, <2>1, <2>2 DEF FindDirectory, MakeDirectory, Spawn, Interrupt
<1>h. CASE WriteMarker \/ WaitStarted \/ SaveMetadata \/ ReadRecord \/ AllRead
           \/ SendTerm \/ Gone \/ SendKill \/ Obey \/ Terminated
  BY <1>h, NotStopped
  DEF WriteMarker, WaitStarted, SaveMetadata, ReadRecord, AllRead, SendTerm, Gone, SendKill, Obey,
      Signalled, Terminated
<1>i. CASE Started \/ Kill \/ Reboot
  BY <1>i, NotStopped DEF Started, Kill, Reboot, End
<1>j. CASE ValidateAll \/ RemoveNext
  <2>1. CASE End(Failed) /\ proc' = Reaped(proc)
    <3>1. pc \in {"validate", "remove"} /\ past \subseteq past'
      BY <1>j, <2>1 DEF ValidateAll, RemoveNext, Note, End
    <3> QED
      BY <2>1, <3>1, FailedStopped
  <2>2. CASE pc' = "remove"
    BY <2>2, NotStopped
  <2> QED
    BY <1>j, <2>1, <2>2 DEF ValidateAll, RemoveNext
<1> QED
  BY <1>a, <1>b, <1>c, <1>d, <1>e, <1>f, <1>g, <1>h, <1>i, <1>j DEF Next, Command

(* The whole invariant.                                                     *)
IInv == /\ CInv /\ DInv /\ TreeInv /\ EInv /\ OwnRecords /\ StartedIsReady
        /\ CalmInv /\ LivingInv /\ StoppedInv

LEMMA InitInv == Init => IInv
<1> SUFFICES ASSUME Init PROVE IInv
  OBVIOUS
<1>1. CInv /\ DInv
  BY InitDirs
<1>2. \A n \in N : meta[n] = NoRecords[n] /\ pidfile[n] = NoRecords[n]
  BY DEF Init
<1>3. TreeInv
  BY <1>2 DEF Init, TreeInv, Starting
<1>4. StartInv /\ StartedInv /\ QueueInv
  BY EmptyOnce DEF Init, StartInv, StartedInv, QueueInv, Starting
<1>5. Zombies
  BY Kinds DEF Init, Zombies
<1>6. OwnRecords /\ StartedIsReady /\ CalmInv
  BY <1>2 DEF Init, OwnRecords, StartedIsReady, CalmInv, OwnFiles, NoRecords, Starting
<1>7. NoneLives
  BY Kinds DEF Init, NoneLives, Daemon
<1>8. LivingInv /\ StoppedInv
  BY <1>7 DEF Init, LivingInv, StoppedInv, NoneLives, Recorded, AllStarted, AllQueued, AllRemembered, Starting
<1> QED
  BY <1>1, <1>3, <1>4, <1>5, <1>6, <1>8 DEF IInv, EInv

(* The invariant holds for any nodes, daemons, pids and number of faults:   *)
(* every step of start() and stop(), of the daemons and of the faults       *)
(* keeps it.                                                                *)
THEOREM Invariance == Spec => []IInv
<1>1. IInv /\ [Next]_vars => IInv'
  <2>1. CInv /\ [Next]_vars => CInv'
    BY StepTyped, StepControl DEF CInv
  <2> QED
    BY <2>1, StepDirs, StepTree, StepStart, StepZombies, StepOwn, StepReady, StepCalm,
       StepLiving, StepStopped DEF IInv, EInv
<1> QED
  BY InitInv, <1>1, PTL DEF Spec

(* When start() returns, every daemon of every node is on record under a    *)
(* pid that is the daemon's own, or was given to another program since.     *)
THEOREM StartsAreReady == Spec => []StartedIsReady
<1>1. IInv => StartedIsReady
  BY DEF IInv
<1> QED
  BY Invariance, <1>1, PTL

(* _terminate_processes sends a SIGTERM to somebody else's process only     *)
(* after a daemon died by itself or a command was cut short before it       *)
(* removed the records of the daemons it had terminated, and a SIGKILL only *)
(* then or when a daemon obeyed, and its pid was given to that process,     *)
(* while nslab was polling it.                                              *)
THEOREM StrangersAreSpared == Spec => []StrangersSpared
<1>1. IInv => StrangersSpared
  BY DEF IInv, CalmInv, StrangersSpared
<1> QED
  BY Invariance, <1>1, PTL

(* A stop() that returned, and a start() that failed and rolled back, leave *)
(* no daemon and nothing on disk; a start() whose rollback failed as well   *)
(* leaves no daemon; and a stop() that failed but left nothing on disk      *)
(* leaves no daemon either, unless a start() lost the daemon that it had    *)
(* just spawned.                                                            *)
THEOREM StopsAreComplete == Spec => []StopIsComplete
<1>1. IInv => StopIsComplete
  <2> SUFFICES ASSUME IInv, pc = "idle", "early" \notin past, "lost" \notin past
               PROVE  /\ outcome \in {"stopped", "not started"} => Orphans = {} /\ Now = "none"
                      /\ outcome = "rollback failed" => Orphans = {}
                      /\ outcome = "not stopped" /\ Now = "none" => Orphans = {}
    BY DEF StopIsComplete
  <2>1. outcome \in {"stopped", "not started"} => NoneLives /\ Now = "none"
    BY DEF IInv, StoppedInv, Now
  <2>2. outcome = "rollback failed" => NoneLives
    BY DEF IInv, StoppedInv
  <2>3. ASSUME Now = "none" PROVE NoneLives
    <3>1. \A p \in Paths : dirs[p] \in {"absent", "other"}
      BY <2>3 DEF Now
    <3>2. dirs[Run] \in {"absent", "other"}
      BY <3>1, PathNames
    <3> QED
      BY <3>2, NoRecordsNoDaemons DEF IInv, LivingInv
  <2>4. NoneLives => Orphans = {}
    BY DEF NoneLives, Orphans
  <2> QED
    BY <2>1, <2>2, <2>3, <2>4
<1> QED
  BY Invariance, <1>1, PTL
=============================================================================
