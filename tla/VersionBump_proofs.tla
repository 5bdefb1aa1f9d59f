-------------------------- MODULE VersionBump_proofs --------------------------
(***************************************************************************)
(* Theorems about VersionBump, for any files, marks and versions.          *)
(***************************************************************************)
EXTENDS VersionBump, TLAPS

-----------------------------------------------------------------------------
(* What a file holds.                                                      *)

LEMMA OrderFacts ==
  /\ DOMAIN Order = 1..Len(Order) /\ Len(Order) \in Nat /\ Len(Order) > 0
  /\ \A f \in Files : \E i \in DOMAIN Order : Order[i] = f
  /\ \A i \in DOMAIN Order : Order[i] \in Files
  <1>1. Order \in Seq(Files) /\ Order # <<>>
    BY BumpAssumption
  <1>2. DOMAIN Order = 1..Len(Order) /\ Len(Order) \in Nat /\ Len(Order) > 0
    BY <1>1
  <1> QED BY <1>2 DEF Files

LEMMA TreeFiles ==
  ASSUME NEW t \in Trees, NEW f \in Files
  PROVE  /\ t[f] \in Contents(f) \cup {Empty}
         /\ t[f] # Empty => /\ t[f] \in [Marks[f] -> Versions \cup {Odd, Missing}]
                            /\ DOMAIN t[f] = Marks[f]
                            /\ \A m \in Marks[f] : t[f][m] \in ValuesOf(m)
  BY DEF Trees, Contents

LEMMA ChangedFile ==
  ASSUME NEW t \in Trees, NEW f \in Files, NEW c \in Contents(f) \cup {Empty}
  PROVE  [t EXCEPT ![f] = c] \in Trees
  <1> DEFINE A == {Empty} \cup UNION {Contents(g) : g \in Files}
  <1>1. c \in A
    <2>1. CASE c = Empty
      BY <2>1
    <2>2. CASE c \in Contents(f)
      <3>1. Contents(f) \in {Contents(g) : g \in Files}
        OBVIOUS
      <3> QED BY <2>2, <3>1
    <2> QED BY <2>1, <2>2
  <1>2. t \in [Files -> A] /\ \A g \in Files : t[g] \in Contents(g) \cup {Empty}
    BY DEF Trees
  <1>3. [t EXCEPT ![f] = c] \in [Files -> A]
    <2> HIDE DEF A
    <2> QED BY <1>1, <1>2
  <1>4. \A g \in Files : [t EXCEPT ![f] = c][g] \in Contents(g) \cup {Empty}
    <2> HIDE DEF A
    <2> QED BY <1>2
  <1> QED BY <1>3, <1>4 DEF Trees

LEMMA TreeIsFunction ==
  ASSUME NEW t \in Trees
  PROVE  DOMAIN t = Files /\ t = [f \in Files |-> t[f]]
  BY DEF Trees

\* Writing the file at one place leaves those at other places.
LEMMA OneFileWritten ==
  ASSUME NEW t \in Trees, NEW i \in DOMAIN Order, NEW c, NEW u, u = [t EXCEPT ![Order[i]] = c]
  PROVE  /\ u[Order[i]] = c
         /\ \A j \in DOMAIN Order : j # i => u[Order[j]] = t[Order[j]]
  <1>1. DOMAIN t = Files /\ \A j \in DOMAIN Order : Order[j] \in Files
    BY TreeIsFunction, OrderFacts
  <1>2. \A j \in DOMAIN Order : j # i => Order[j] # Order[i]
    BY BumpAssumption
  <1> QED BY <1>1, <1>2

\* An update of a file gives a file that a person could have written.
LEMMA UpdatedIsContent ==
  ASSUME NEW f \in Files, NEW c \in Contents(f), NEW v \in Versions
  PROVE  Updated(c, v) \in Contents(f)
  BY DEF Updated, Contents, ValuesOf

LEMMA UpdatedTree ==
  ASSUME NEW t \in Trees, NEW v \in Versions, \A f \in Files : Updatable(t[f])
  PROVE  [f \in Files |-> Updated(t[f], v)] \in Trees
  <1>1. \A f \in Files : t[f] \in Contents(f)
    BY TreeFiles DEF Updatable
  <1>2. \A f \in Files : Updated(t[f], v) \in Contents(f)
    BY <1>1, UpdatedIsContent
  <1> QED BY <1>2 DEF Trees

\* A check passes only on a tree whose marks all state one version.
LEMMA ConsistentIsUniform ==
  ASSUME NEW t \in Trees, NEW d, NEW e \in Versions \cup {None}, NEW s,
         Consistent(t, d, e, s)
  PROVE  \E v \in Versions : /\ e \in {v, None}
                             /\ \A f \in Files : t[f] = [m \in Marks[f] |-> v]
  <1> DEFINE v == IF e = None THEN t[Order[1]][First] ELSE e
  <1>1. /\ v \in Versions /\ Observed(t) \cup Listed(t) = {v} /\ Triplets(t)
        /\ \A f \in Files : t[f] # Empty
    BY DEF Consistent
  <1>2. e \in {v, None}
    OBVIOUS
  <1> HIDE DEF v
  <1>3. ASSUME NEW f \in Files, NEW m \in Marks[f] \ Parts PROVE t[f][m] = v
    <2>1. CASE m \in Optional
      <3>1. t[f][m] \in Listed(t)
        BY <1>3, <2>1 DEF Listed
      <3> QED BY <1>1, <3>1
    <2>2. CASE m \notin Optional
      <3>1. t[f][m] \in Observed(t)
        BY <1>3, <2>2 DEF Observed
      <3> QED BY <1>1, <3>1
    <2> QED BY <2>1, <2>2
  <1>4. ASSUME NEW f \in Files, NEW m \in Marks[f] PROVE t[f][m] = v
    BY <1>1, <1>3, <1>4 DEF Triplets
  <1>5. \A f \in Files : t[f] = [m \in Marks[f] |-> v]
    BY <1>1, <1>4, TreeFiles
  <1> QED BY <1>1, <1>2, <1>5

\* An updated tree passes the check unless a mark is missing.
LEMMA UpdatedIsConsistent ==
  ASSUME NEW t \in Trees, NEW v \in Versions, NEW d, NEW s, s => ~d,
         \A f \in Files : Updatable(t[f]),
         \A f \in Files : \A m \in Marks[f] : t[f][m] # Missing,
         NEW u, u = [f \in Files |-> Updated(t[f], v)]
  PROVE  Consistent(u, d, v, s)
  <1>1. ASSUME NEW f \in Files PROVE u[f] = [m \in Marks[f] |-> v] /\ u[f] # Empty
    <2>1. t[f] \in Contents(f)
      BY TreeFiles DEF Updatable
    <2>2. u[f] = Updated(t[f], v) /\ u[f] \in Contents(f)
      BY <2>1, UpdatedIsContent
    <2>3. u[f] # Empty
      BY <2>2, EmptyAssumption
    <2> QED BY <2>1, <2>2, <2>3, TreeFiles DEF Updated, Updatable
  <1>2. \A f \in Files : \A m \in Marks[f] : u[f][m] = v
    BY <1>1
  <1>3. Observed(u) \cup Listed(u) = {v}
    <2>1. Observed(u) \cup Listed(u) \subseteq {v}
      BY <1>2 DEF Observed, Listed
    <2>2. Order[1] \in Files /\ First \in Marks[Order[1]] \ (Parts \cup Optional)
      BY OrderFacts, BumpAssumption
    <2>3. v \in Observed(u)
      BY <1>2, <2>2 DEF Observed
    <2> QED BY <2>1, <2>3
  <1>4. Triplets(u)
    <2> SUFFICES ASSUME NEW f \in Files, NEW m \in Parts, m \in Marks[f]
                 PROVE  \E own \in Marks[f] \ Parts : u[f][m] = u[f][own]
      BY DEF Triplets
    <2>1. PICK own : own \in Marks[f] \ Parts
      BY BumpAssumption
    <2> QED BY <1>2, <2>1
  <1>5. v # None
    BY BumpAssumption
  <1> QED BY <1>1, <1>3, <1>4, <1>5 DEF Consistent

-----------------------------------------------------------------------------
(* While the script runs: the files that are not on its list hold what it  *)
(* computed, the others what it found, but for one it may have emptied;    *)
(* and whatever it has changed comes before everything on its list.        *)

Written ==
  \A i \in DOMAIN Order : i \notin todo => tree[Order[i]] = new[Order[i]]

Unwritten ==
  \A i \in todo : \/ tree[Order[i]] = start[Order[i]]
                  \/ pc = "filling" /\ i \in Least(todo)

InOrder ==
  \A i \in DOMAIN Order, j \in todo :
    i \notin todo /\ new[Order[i]] # start[Order[i]] => i < j

Computed ==
  /\ rc = None /\ args.command = "bump" /\ args.version \in Versions
  /\ \A f \in Files : Updatable(start[f])
  /\ new = [f \in Files |-> Updated(start[f], args.version)]

Running == pc # "idle" => Computed /\ Written /\ Unwritten /\ InOrder

BInv == TypeOK /\ Running

LEMMA BInvInit == Init => BInv
  <1> SUFFICES ASSUME Init PROVE BInv
    OBVIOUS
  <1>1. tree \in Trees
    <2>1. PICK v \in Versions : tree = [f \in Files |-> [m \in Marks[f] |-> v]]
      BY DEF Init
    <2>2. \A f \in Files : [m \in Marks[f] |-> v] \in Contents(f)
      BY DEF Contents, ValuesOf
    <2> QED BY <2>1, <2>2 DEF Trees
  <1>2. TypeOK
    BY <1>1 DEF Init, TypeOK, NoArgs
  <1> QED BY <1>2 DEF BInv, Running, Init

LEMMA BumpStep ==
  ASSUME BInv, NEW v \in Versions, NEW s \in BOOLEAN, NEW r \in BOOLEAN, Bump(v, s, r)
  PROVE  BInv'
  <1> USE DEF BInv
  <1>1. /\ tree' = tree /\ start' = tree /\ drift' = drift /\ pc = "idle"
        /\ args' = [command |-> IF r THEN "rehearsal" ELSE "bump", version |-> v,
                    strictLockfile |-> s]
    BY DEF Bump
  <1>2. tree \in Trees /\ todo = {}
    BY <1>1 DEF TypeOK
  <1>3. CASE rc' \in {0, 1} /\ UNCHANGED <<pc, todo, new>>
    BY <1>1, <1>2, <1>3 DEF TypeOK, Running
  <1> DEFINE changed == [f \in Files |-> Updated(tree[f], v)]
             pending == {i \in DOMAIN Order : changed[Order[i]] # tree[Order[i]]}
  <1>4. CASE /\ \A f \in Files : Updatable(tree[f])
             /\ pc' = "writing" /\ todo' = pending /\ new' = changed
             /\ rc' = None /\ ~r
    <2>1. changed \in Trees
      BY <1>2, <1>4, UpdatedTree
    <2>2. TypeOK'
      BY <1>1, <1>2, <1>4, <2>1 DEF TypeOK
    <2>3. Computed'
      BY <1>1, <1>4 DEF Computed
    <2>4. Written' /\ Unwritten' /\ InOrder'
      BY <1>1, <1>4 DEF Written, Unwritten, InOrder
    <2> QED BY <2>2, <2>3, <2>4 DEF Running
  <1>5. \/ rc' \in {0, 1} /\ UNCHANGED <<pc, todo, new>>
        \/ /\ \A f \in Files : Updatable(tree[f])
           /\ pc' = "writing" /\ todo' = pending /\ new' = changed
           /\ rc' = None /\ ~r
    BY DEF Bump, Code
  <1> QED BY <1>3, <1>4, <1>5

LEMMA OpenStep ==
  ASSUME BInv, Open
  PROVE  BInv'
  <1> USE DEF BInv
  <1>1. PICK i \in Least(todo) : tree' = [tree EXCEPT ![Order[i]] = Empty]
    BY DEF Open
  <1>2. /\ pc = "writing" /\ pc' = "filling"
        /\ UNCHANGED <<drift, todo, new, args, rc, start>>
    BY DEF Open
  <1>3. i \in todo /\ i \in DOMAIN Order /\ Order[i] \in Files /\ tree \in Trees
    BY OrderFacts DEF TypeOK, Least
  <1>4. tree' \in Trees /\ tree'[Order[i]] = Empty
        /\ \A j \in DOMAIN Order : j # i => tree'[Order[j]] = tree[Order[j]]
    <2>1. tree' \in Trees
      BY <1>1, <1>3, ChangedFile
    <2>2. /\ tree'[Order[i]] = Empty
          /\ \A j \in DOMAIN Order : j # i => tree'[Order[j]] = tree[Order[j]]
      BY <1>1, <1>3, OneFileWritten
    <2> QED BY <2>1, <2>2
  <1>5. TypeOK'
    BY <1>2, <1>4 DEF TypeOK, Least
  <1>6. Written' /\ Unwritten'
    BY <1>2, <1>3, <1>4 DEF Running, Written, Unwritten, TypeOK, Least
  <1>7. Computed' /\ InOrder'
    BY <1>2 DEF Running, Computed, InOrder
  <1> QED BY <1>5, <1>6, <1>7 DEF Running

LEMMA FillStep ==
  ASSUME BInv, Fill
  PROVE  BInv'
  <1> USE DEF BInv
  <1>1. PICK i \in Least(todo) : /\ tree' = [tree EXCEPT ![Order[i]] = new[Order[i]]]
                                 /\ todo' = todo \ {i}
    BY DEF Fill
  <1>2. /\ pc = "filling" /\ pc' = "writing"
        /\ UNCHANGED <<drift, new, args, rc, start>>
    BY DEF Fill
  <1>3. /\ i \in todo /\ i \in DOMAIN Order /\ Order[i] \in Files
        /\ tree \in Trees /\ new \in Trees
    BY OrderFacts DEF TypeOK, Least
  <1>4. tree' \in Trees /\ tree'[Order[i]] = new[Order[i]]
        /\ \A j \in DOMAIN Order : j # i => tree'[Order[j]] = tree[Order[j]]
    <2>1. tree' \in Trees
      BY <1>1, <1>3, ChangedFile, TreeFiles
    <2>2. /\ tree'[Order[i]] = new[Order[i]]
          /\ \A j \in DOMAIN Order : j # i => tree'[Order[j]] = tree[Order[j]]
      BY <1>1, <1>3, OneFileWritten
    <2> QED BY <2>1, <2>2
  <1>5. TypeOK'
    BY <1>1, <1>2, <1>4 DEF TypeOK
  <1>6. Written'
    BY <1>1, <1>2, <1>4 DEF Running, Written
  <1>7. \A j \in Least(todo) : j = i
    BY <1>3, OrderFacts DEF Least, TypeOK
  <1>8. Unwritten'
    BY <1>1, <1>2, <1>4, <1>7 DEF Running, Unwritten, TypeOK
  <1>9. InOrder'
    BY <1>1, <1>2, <1>3, OrderFacts DEF Running, InOrder, TypeOK, Least
  <1>10. Computed'
    BY <1>2 DEF Running, Computed
  <1> QED BY <1>2, <1>5, <1>6, <1>8, <1>9, <1>10 DEF Running

LEMMA BInvNext == BInv /\ [Next]_vars => BInv'
  <1> SUFFICES ASSUME BInv, [Next]_vars PROVE BInv'
    OBVIOUS
  <1>1. ASSUME NEW e \in Versions \cup {None}, NEW s \in BOOLEAN, Check(e, s) PROVE BInv'
    BY <1>1 DEF Check, BInv, TypeOK, Running, Code
  <1>2. CASE Verify
    BY <1>2 DEF Verify, BInv, TypeOK, Running, Code
  <1>3. CASE Kill
    BY <1>3 DEF Kill, BInv, TypeOK, Running
  <1>4. ASSUME NEW f \in Files, Edit(f) PROVE BInv'
    <2>1. tree' \in Trees
      <3>1. PICK c \in Contents(f) : tree' = [tree EXCEPT ![f] = c]
        BY <1>4 DEF Edit
      <3>2. tree \in Trees
        BY DEF BInv, TypeOK
      <3> QED BY <3>1, <3>2, ChangedFile
    <2> QED BY <1>4, <2>1 DEF Edit, BInv, TypeOK, Running, NoArgs
  <1>5. CASE UNCHANGED vars
    BY <1>5 DEF vars, BInv, TypeOK, Running, Computed, Written, Unwritten, InOrder
  <1>6. CASE Next
    BY <1>1, <1>2, <1>3, <1>4, <1>6, BumpStep, OpenStep, FillStep DEF Next
  <1> QED BY <1>5, <1>6

LEMMA BInvCorrect == Spec => []BInv
  BY BInvInit, BInvNext, PTL DEF Spec

\* Whatever is edited and wherever the script is killed, files hold marks of
\* the kinds they have, at most the file being written is empty, and a script
\* that is not running has nothing left to write.
THEOREM TypeCorrect == Spec => []TypeOK
  BY BInvCorrect, PTL DEF BInv

-----------------------------------------------------------------------------
LEMMA SuccessNext ==
  ASSUME BInv, SuccessMeansConsistent, [Next]_vars
  PROVE  SuccessMeansConsistent'
  <1>1. tree \in Trees
    BY DEF BInv, TypeOK
  <1>2. ASSUME NEW e \in Versions \cup {None}, NEW s \in BOOLEAN, rc' = Code(tree, e, s),
               tree' = tree, args'.version = e
        PROVE  SuccessMeansConsistent'
    <2>1. CASE rc' = 0
      <3>1. Consistent(tree, drift, e, s)
        BY <1>2, <2>1 DEF Code
      <3>2. \E v \in Versions : e \in {v, None} /\ \A f \in Files : tree[f] = [m \in Marks[f] |-> v]
        BY <1>1, <3>1, ConsistentIsUniform
      <3> QED BY <1>2, <3>2 DEF SuccessMeansConsistent
    <2>2. CASE rc' # 0
      BY <2>2 DEF SuccessMeansConsistent
    <2> QED BY <2>1, <2>2
  <1>3. ASSUME NEW e \in Versions \cup {None}, NEW s \in BOOLEAN, Check(e, s)
        PROVE  SuccessMeansConsistent'
    BY <1>2, <1>3 DEF Check
  <1>4. ASSUME NEW v \in Versions, NEW s \in BOOLEAN, NEW r \in BOOLEAN, Bump(v, s, r)
        PROVE  SuccessMeansConsistent'
    <2>1. /\ tree' = tree
          /\ args' = [command |-> IF r THEN "rehearsal" ELSE "bump", version |-> v,
                      strictLockfile |-> s]
      BY <1>4 DEF Bump
    <2>2. rc' \in {None, 1} \/ (r /\ rc' = 0) \/ rc' = Code(tree, v, s)
      BY <1>4 DEF Bump
    <2> QED BY <1>2, <2>1, <2>2, BumpAssumption DEF SuccessMeansConsistent
  <1>5. CASE Open \/ Fill \/ Kill
    <2>1. rc = None /\ rc' = rc
      BY <1>5 DEF Open, Fill, Kill, BInv, Running, Computed
    <2> QED BY <2>1, BumpAssumption DEF SuccessMeansConsistent
  <1>6. CASE Verify
    <2>1. /\ tree' = tree /\ args' = args /\ args.version \in Versions
          /\ args.strictLockfile \in BOOLEAN
          /\ rc' = Code(tree, args.version, args.strictLockfile)
      BY <1>6 DEF Verify, BInv, Running, Computed, TypeOK
    <2> QED BY <1>2, <2>1
  <1>7. ASSUME NEW f \in Files, Edit(f) PROVE SuccessMeansConsistent'
    BY <1>7, BumpAssumption DEF Edit, SuccessMeansConsistent
  <1>8. CASE UNCHANGED vars
    BY <1>8 DEF vars, SuccessMeansConsistent
  <1>9. CASE Next
    BY <1>3, <1>4, <1>5, <1>6, <1>7, <1>9 DEF Next
  <1> QED BY <1>8, <1>9

\* A check or bump that exits with 0 leaves all marks of all files at one
\* version, the requested one.
THEOREM SuccessIsConsistent == Spec => []SuccessMeansConsistent
  <1>1. Init => SuccessMeansConsistent
    BY BumpAssumption DEF Init, SuccessMeansConsistent
  <1> QED BY <1>1, SuccessNext, BInvCorrect, PTL DEF Spec

-----------------------------------------------------------------------------
\* The files before the n-th of Order are updated, those after it as found.
Prefix(n) ==
  \A i \in DOMAIN Order :
    LET f == Order[i] IN
      CASE i < n -> tree[f] = Updated(start[f], args.version)
        [] i = n -> tree[f] \in {Empty, Updated(start[f], args.version)}
        [] i > n -> tree[f] = start[f]

\* Writing the least file on the list, or emptying it, extends the prefix.
LEMMA WritesNext ==
  ASSUME BInv, pc # "idle", NEW i \in Least(todo), UNCHANGED <<args, start>>,
         NEW c \in {Empty, new[Order[i]]}, tree' = [tree EXCEPT ![Order[i]] = c]
  PROVE  WritesAPrefix'
  <1>1. /\ Computed /\ Written /\ Unwritten /\ InOrder
        /\ i \in todo /\ todo \subseteq DOMAIN Order /\ tree \in Trees
    BY DEF BInv, Running, TypeOK, Least
  <1>2. /\ tree'[Order[i]] = c
        /\ \A j \in DOMAIN Order : j # i => tree'[Order[j]] = tree[Order[j]]
    BY <1>1, OrderFacts, BumpAssumption DEF Trees
  <1>3. \A j \in DOMAIN Order : new[Order[j]] = Updated(start[Order[j]], args.version)
    BY <1>1, OrderFacts DEF Computed
  <1>4. \A j \in Least(todo) : j = i
    BY <1>1, OrderFacts DEF Least
  <1>5. Prefix(i)'
    <2> SUFFICES ASSUME NEW j \in DOMAIN Order
                 PROVE  /\ j < i => tree'[Order[j]] = Updated(start[Order[j]], args.version)
                        /\ j = i => tree'[Order[j]] \in {Empty, Updated(start[Order[j]], args.version)}
                        /\ j > i => tree'[Order[j]] = start[Order[j]]
      <3>1. i \in Nat /\ \A j \in DOMAIN Order : j \in Nat
        BY <1>1, OrderFacts
      <3> SUFFICES ASSUME NEW j \in DOMAIN Order
                   PROVE  CASE j < i -> tree'[Order[j]] = Updated(start'[Order[j]], args'.version)
                            [] j = i -> tree'[Order[j]] \in {Empty, Updated(start'[Order[j]], args'.version)}
                            [] j > i -> tree'[Order[j]] = start'[Order[j]]
        BY DEF Prefix
      <3>2. j < i \/ j = i \/ j > i
        BY <3>1
      <3>3. start' = start /\ args' = args
        OBVIOUS
      <3> QED BY <3>1, <3>2, <3>3
    <2>1. i \in Nat /\ j \in Nat
      BY <1>1, OrderFacts
    <2>2. CASE j < i
      <3>1. j \notin todo
        BY <2>1, <2>2 DEF Least
      <3> QED BY <1>1, <1>2, <1>3, <2>1, <2>2, <3>1 DEF Written
    <2>3. CASE j = i
      BY <1>2, <1>3, <2>1, <2>3
    <2>4. CASE j > i
      <3>1. CASE j \in todo
        BY <1>1, <1>2, <1>4, <2>1, <2>4, <3>1 DEF Unwritten
      <3>2. CASE j \notin todo
        <4>1. new[Order[j]] = start[Order[j]]
          BY <1>1, <2>1, <2>4, <3>2 DEF InOrder
        <4> QED BY <1>1, <1>2, <2>1, <2>4, <3>2, <4>1 DEF Written
      <3> QED BY <3>1, <3>2
    <2> QED BY <2>1, <2>2, <2>3, <2>4
  <1>6. i \in 0..Len(Order)
    BY <1>1, OrderFacts
  <1> QED BY <1>1, <1>5, <1>6 DEF WritesAPrefix, Prefix, Computed

\* A bump changes nothing unless it could transform every file, and has changed
\* the files of a prefix of its order wherever it ends or is killed.
THEOREM BumpsWriteAPrefix == Spec => []WritesAPrefix
  <1>1. Init => WritesAPrefix
    BY DEF Init, WritesAPrefix
  <1>2. BInv /\ WritesAPrefix /\ [Next]_vars => WritesAPrefix'
    <2> SUFFICES ASSUME BInv, WritesAPrefix, [Next]_vars PROVE WritesAPrefix'
      OBVIOUS
    <2>1. CASE UNCHANGED <<tree, start, args>>
      BY <2>1 DEF WritesAPrefix
    <2>2. CASE tree' = start'
      BY <2>2 DEF WritesAPrefix
    <2>3. CASE Open \/ Fill
      BY <2>3, WritesNext DEF Open, Fill
    <2>4. CASE Next /\ ~Open /\ ~Fill
      BY <2>1, <2>2, <2>4 DEF Next, Check, Bump, Verify, Kill, Edit
    <2> QED BY <2>1, <2>3, <2>4 DEF vars
  <1> QED BY <1>1, <1>2, BInvCorrect, PTL DEF Spec

-----------------------------------------------------------------------------
LEMMA FailsNext ==
  ASSUME BInv, FailsForCause, [Next]_vars
  PROVE  FailsForCause'
  <1> USE BumpAssumption DEF FailsForCause
  <1>1. tree \in Trees /\ start \in Trees
    BY DEF BInv, TypeOK
  <1>2. ASSUME NEW e \in Versions \cup {None}, NEW s \in BOOLEAN, Check(e, s)
        PROVE  FailsForCause'
    BY <1>2 DEF Check
  <1>3. ASSUME NEW t \in Trees, NEW v \in Versions, NEW s \in BOOLEAN, NEW u,
               \A f \in Files : Updatable(t[f]), u = [f \in Files |-> Updated(t[f], v)],
               Code(u, v, s) = 1
        PROVE  (\E f \in Files : \E m \in Marks[f] : t[f][m] = Missing) \/ (s /\ drift)
    <2> SUFFICES ASSUME \A f \in Files : \A m \in Marks[f] : t[f][m] # Missing, s => ~drift
                 PROVE  FALSE
      OBVIOUS
    <2>1. Consistent(u, drift, v, s)
      BY <1>3, UpdatedIsConsistent
    <2> QED BY <1>3, <2>1 DEF Code
  <1>4. ASSUME NEW v \in Versions, NEW s \in BOOLEAN, NEW r \in BOOLEAN, Bump(v, s, r)
        PROVE  FailsForCause'
    <2>1. /\ start' = tree /\ drift' = drift
          /\ args' = [command |-> IF r THEN "rehearsal" ELSE "bump", version |-> v,
                      strictLockfile |-> s]
      BY <1>4 DEF Bump
    <2>2. CASE ~\A f \in Files : Updatable(tree[f])
      BY <2>1, <2>2
    <2>3. CASE \A f \in Files : Updatable(tree[f])
      <3> DEFINE changed == [f \in Files |-> Updated(tree[f], v)]
      <3>1. CASE \A i \in DOMAIN Order : changed[Order[i]] = tree[Order[i]]
        <4>1. rc' = Code(tree, v, s)
          <5>1. {i \in DOMAIN Order : changed[Order[i]] # tree[Order[i]]} = {}
            <6> HIDE DEF changed
            <6> QED BY <3>1
          <5> QED BY <1>4, <2>3, <5>1 DEF Bump
        <4>2. \A f \in Files : changed[f] = tree[f]
          <5> HIDE DEF changed
          <5> QED BY <3>1, OrderFacts
        <4>3. tree = changed
          BY <1>1, <4>2, TreeIsFunction
        <4> HIDE DEF changed
        <4>4. changed = [f \in Files |-> Updated(tree[f], v)]
          BY DEF changed
        <4>5. rc' = 1 => (\E f \in Files : \E m \in Marks[f] : tree[f][m] = Missing) \/ (s /\ drift)
          <5> SUFFICES ASSUME rc' = 1
                       PROVE  (\E f \in Files : \E m \in Marks[f] : tree[f][m] = Missing) \/ (s /\ drift)
            OBVIOUS
          <5>1. Code(tree, v, s) = 1
            BY <4>1
          <5>2. tree = [f \in Files |-> Updated(tree[f], v)]
            BY <4>3, <4>4
          <5> QED BY <1>1, <1>3, <2>3, <5>1, <5>2
        <4> QED BY <2>1, <4>5
      <3>2. CASE ~\A i \in DOMAIN Order : changed[Order[i]] = tree[Order[i]]
        <4>1. rc' \in {0, None}
          BY <1>4, <2>3, <3>2 DEF Bump
        <4> QED BY <4>1
      <3> QED BY <3>1, <3>2
    <2> QED BY <2>2, <2>3
  <1>5. CASE Open \/ Fill \/ Kill
    <2>1. rc = None /\ rc' = rc
      BY <1>5 DEF Open, Fill, Kill, BInv, Running, Computed
    <2> QED BY <2>1
  <1>6. CASE Verify
    <2>1. /\ UNCHANGED <<start, args, drift>> /\ Computed
          /\ \A i \in DOMAIN Order : tree[Order[i]] = new[Order[i]]
          /\ args.strictLockfile \in BOOLEAN
          /\ rc' = Code(tree, args.version, args.strictLockfile)
      BY <1>6 DEF Verify, BInv, Running, Written, TypeOK
    <2>2. \A f \in Files : tree[f] = new[f]
      BY <2>1, OrderFacts
    <2>3. tree = [f \in Files |-> Updated(start[f], args.version)]
      BY <1>1, <2>1, <2>2, TreeIsFunction DEF Computed
    <2>4. rc' = 1 => (\E f \in Files : \E m \in Marks[f] : start[f][m] = Missing)
                     \/ (args.strictLockfile /\ drift)
      BY <1>1, <1>3, <2>1, <2>3 DEF Computed
    <2> QED BY <2>1, <2>4
  <1>7. ASSUME NEW f \in Files, Edit(f) PROVE FailsForCause'
    BY <1>7 DEF Edit
  <1>8. CASE UNCHANGED vars
    BY <1>8 DEF vars
  <1>9. CASE Next
    BY <1>2, <1>4, <1>5, <1>6, <1>7, <1>9 DEF Next
  <1> QED BY <1>8, <1>9

\* A bump that was not killed fails only for a reason in the tree it was
\* started on; a kill in between is none.
THEOREM BumpsFailForCause == Spec => []FailsForCause
  <1>1. Init => FailsForCause
    BY BumpAssumption DEF Init, FailsForCause
  <1> QED BY <1>1, FailsNext, BInvCorrect, PTL DEF Spec
===============================================================================
