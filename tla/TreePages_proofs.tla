--------------------------- MODULE TreePages_proofs ---------------------------
(***************************************************************************)
(* Theorems about TreePages: if the process is not killed in one of the    *)
(* windows, an open tree is a search tree of the committed keys, whatever  *)
(* pages were written back before a kill and however often a recovery was  *)
(* killed itself.  The keys may be any set, and the leaves of any size.    *)
(* The types are right even if the process is killed in the windows.       *)
(***************************************************************************)
EXTENDS TreePages, FiniteSetTheorems, SequenceTheorems, TLAPS

-----------------------------------------------------------------------------
(* Sound trees.  The entries of a tree are the separators of its root with *)
(* the leaves under them, or one entry for a root that is a leaf.          *)

Page == [kind : {"leaf", "inner", "free"}, keys : SUBSET Keys, kids : SUBSET (Nat \X Nat)]

Entries(P, r) == IF P[r].kind = "inner" THEN P[r].kids ELSE {<<0, r>>}
Leaves(E) == {e[2] : e \in E}

\* x belongs below the entry e of E.
Below(E, e, x) == e[1] <= x /\ \A f \in E : f[1] <= x => f[1] <= e[1]

\* The page p is a leaf with keys that belong below e.
LeafFor(P, E, e) ==
  /\ P[e[2]].kind = "leaf" /\ P[e[2]].kids = {}
  /\ P[e[2]].keys \subseteq Keys /\ IsFiniteSet(P[e[2]].keys)
  /\ \A x \in P[e[2]].keys : Below(E, e, x)

Good(P, E) ==
  /\ IsFiniteSet(E) /\ E \subseteq Nat \X DOMAIN P
  /\ \A e, f \in E : e[1] = f[1] \/ e[2] = f[2] => e = f
  /\ \E e \in E : e[1] = 0
  /\ \A e \in E : LeafFor(P, E, e)

Sound(P, r) ==
  /\ r \in DOMAIN P /\ P[r].kind \in {"leaf", "inner"}
  /\ Good(P, Entries(P, r))
  /\ P[r].kind = "inner" => P[r].keys = {}

Hold(P, E) == UNION {P[p].keys : p \in Leaves(E)}

\* The tree in memory.
EntriesOf(t) == Entries(t.pages, t.root)
HeldBy(t) == Hold(t.pages, EntriesOf(t))

-----------------------------------------------------------------------------
(* The inductive invariants.                                               *)

Tree == [root : Nat, pages : Seq(Page), disk : Seq(Page), free : Seq(Nat)]

\* The pages in memory and in the file, and the free list.
Stored(t) ==
  /\ t \in Tree /\ Len(t.pages) = Len(t.disk)
  /\ IsInjective(t.free)
  /\ \A p \in Range(t.free) : p \in DOMAIN t.pages /\ t.pages[p] = Free /\ t.disk[p] = Free

\* What holds of a tree in memory at any time.
Kept(t) == Stored(t) /\ Sound(t.pages, t.root)

Op == [op : {"insert", "delete"}, key : Keys]

TInv ==
  /\ status \in {"closed", "recovering", "open"} /\ saving \in BOOLEAN
  /\ exposed \subseteq {"young", "saved", "merge", "evict", "roots"}
  /\ log \in Seq(Op) /\ redone \in 0..Len(log) /\ committed \subseteq Keys
  /\ status # "recovering" => redone = 0
  /\ Kept(tree) /\ header \in DOMAIN tree.pages
  /\ saving => status = "open" /\ header = tree.root

\* The tree that the header and the pages in the file make up.
File == Entries(tree.disk, header)

\* It is sound unless a window is open, and the tree in memory has its leaves.
FInv ==
  exposed = {} => Sound(tree.disk, header) /\ Leaves(File) \subseteq Leaves(EntriesOf(tree))

\* No operation on k is in the log s after its first n.
Untouched(s, k, n) == \A j \in n + 1..Len(s) : s[j].key # k

\* The last operation on a key says whether it is there; a key without one is
\* there if the file, or the recovery so far, has it.
CInv ==
  /\ \A i \in 1..Len(log) :
       Untouched(log, log[i].key, i) => (log[i].op = "insert" <=> log[i].key \in committed)
  /\ exposed = {} =>
       \A k \in Keys : Untouched(log, k, 0) => (k \in committed <=> k \in Hold(tree.disk, File))
  /\ status # "open" =>
       \A k \in Keys : Untouched(log, k, redone) => (k \in committed <=> k \in HeldBy(tree))
  /\ status = "open" => HeldBy(tree) = committed

Inv == TInv /\ FInv /\ CInv

-----------------------------------------------------------------------------
(* Numbers and halves.                                                     *)

LEMMA LeastExists ==
  ASSUME NEW S, S \subseteq Nat, S # {}
  PROVE  \E x \in S : \A y \in S : x <= y
  <1>1. PICK x \in S : \A y \in S : <<y, x>> \notin OpToRel(<, Nat)
    BY NatLessThanWellFounded, WFMin
  <1>2. ASSUME NEW y \in S PROVE x <= y
    <2>1. x \in Nat /\ y \in Nat
      OBVIOUS
    <2>2. ~(y < x)
      BY <1>1, <2>1 DEF OpToRel
    <2> QED BY <2>1, <2>2
  <1> QED BY <1>2

LEMMA GreatestExists ==
  ASSUME NEW S, S \subseteq Nat, S # {}, NEW b \in Nat, \A x \in S : x <= b
  PROVE  \E x \in S : \A y \in S : y <= x
  <1> DEFINE D == {b - x : x \in S}
  <1>1. \A x \in S : b - x \in Nat
    OBVIOUS
  <1>2. D \subseteq Nat /\ D # {}
    BY <1>1
  <1>3. PICK d \in D : \A y \in D : d <= y
    BY <1>2, LeastExists
  <1>4. PICK x \in S : d = b - x
    OBVIOUS
  <1>5. ASSUME NEW y \in S PROVE y <= x
    <2>1. b - y \in D
      OBVIOUS
    <2>2. b - x <= b - y
      BY <1>3, <1>4, <2>1
    <2>3. x \in Nat /\ y \in Nat
      OBVIOUS
    <2> QED BY <2>2, <2>3
  <1> QED BY <1>5

LEMMA MinIs ==
  ASSUME NEW S, S \subseteq Nat, S # {}
  PROVE  Min(S) \in S /\ \A y \in S : Min(S) <= y
  BY LeastExists DEF Min

\* How many of S are below k.
Rank(S, k) == Cardinality({j \in S : j < k})

LEMMA RankGrows ==
  ASSUME NEW S, S \subseteq Nat, IsFiniteSet(S)
  PROVE  /\ \A x \in S : Rank(S, x) \in Nat
         /\ \A x, y \in S : x < y => Rank(S, x) < Rank(S, y)
  <1> DEFINE B(k) == {j \in S : j < k}
  <1>1. ASSUME NEW k \in S PROVE IsFiniteSet(B(k)) /\ Cardinality(B(k)) \in Nat
    BY FS_Subset, FS_CardinalityType
  <1>2. ASSUME NEW x \in S, NEW y \in S, x < y PROVE Cardinality(B(x)) < Cardinality(B(y))
    <2>0. \A j \in S : j \in Int
      OBVIOUS
    <2>1. B(x) \subseteq B(y)
      <3>1. ASSUME NEW j \in S, j < x PROVE j < y
        BY <1>2, <2>0, <3>1
      <3> QED BY <3>1
    <2>2. x \in B(y) /\ x \notin B(x)
      BY <1>2
    <2>3. Cardinality(B(x)) <= Cardinality(B(y)) /\ Cardinality(B(x)) # Cardinality(B(y))
      BY <1>1, <2>1, <2>2, FS_Subset
    <2> QED BY <1>1, <2>3
  <1> QED BY <1>1, <1>2 DEF Rank

\* Both halves have keys, and those of the lower are below those of the other.
LEMMA LowerSplits ==
  ASSUME NEW S, S \subseteq Nat, IsFiniteSet(S), Cardinality(S) >= 2
  PROVE  /\ Lower(S) \subseteq S /\ Lower(S) # {} /\ S \ Lower(S) # {}
         /\ \A x \in Lower(S), y \in S \ Lower(S) : x < y
  <1> DEFINE h == Cardinality(S) \div 2
  <1>0. \A x \in S : x \in Int
    OBVIOUS
  <1>1. Cardinality(S) \in Nat /\ h \in Nat /\ h >= 1 /\ h < Cardinality(S)
    BY FS_CardinalityType
  <1>2. Lower(S) = {k \in S : Rank(S, k) < h}
    BY DEF Lower, Rank
  <1> HIDE DEF h
  <1>3. Lower(S) # {}
    <2>1. S # {}
      BY <1>1, FS_EmptySet
    <2>2. PICK m \in S : \A y \in S : m <= y
      BY <2>1, LeastExists
    <2>3. {j \in S : j < m} = {}
      <3>1. \A j \in S : ~(j < m)
        BY <1>0, <2>2
      <3> QED BY <3>1
    <2>4. Rank(S, m) = 0
      BY <2>3, FS_EmptySet DEF Rank
    <2> QED BY <1>1, <1>2, <2>4
  <1>4. S \ Lower(S) # {}
    <2>1. SUFFICES ASSUME \A k \in S : Rank(S, k) < h PROVE FALSE
      BY <1>1, <1>2, RankGrows
    <2> DEFINE f == [k \in S |-> Rank(S, k)]
    <2>2. f \in [S -> 0..(h - 1)]
      <3>1. ASSUME NEW k \in S PROVE Rank(S, k) \in 0..(h - 1)
        <4>1. Rank(S, k) \in Nat /\ Rank(S, k) < h
          BY <2>1, RankGrows
        <4> QED BY <1>1, <4>1
      <3> QED BY <3>1
    <2>3. \A x, y \in S : f[x] = f[y] => x = y
      <3>1. SUFFICES ASSUME NEW x \in S, NEW y \in S, x # y PROVE Rank(S, x) # Rank(S, y)
        OBVIOUS
      <3>2. x < y \/ y < x
        BY <1>0, <3>1
      <3>3. /\ Rank(S, x) \in Nat /\ Rank(S, y) \in Nat
            /\ x < y => Rank(S, x) < Rank(S, y)
            /\ y < x => Rank(S, y) < Rank(S, x)
        BY RankGrows
      <3> HIDE DEF f
      <3> QED BY <3>2, <3>3
    <2>4. f \in Injection(S, 0..(h - 1))
      BY <2>2, <2>3 DEF Injection, IsInjective
    <2>5. IsFiniteSet(0..(h - 1)) /\ Cardinality(0..(h - 1)) = h
      <3>1. 0 \in Int /\ h - 1 \in Int /\ ~(0 > h - 1) /\ h - 1 - 0 + 1 = h
        BY <1>1
      <3> QED BY <3>1, FS_Interval
    <2>6. Cardinality(S) <= h
      BY <2>4, <2>5, FS_Injection
    <2> QED BY <1>1, <2>6
  <1>5. \A x \in Lower(S), y \in S \ Lower(S) : x < y
    <2>1. SUFFICES ASSUME NEW x \in Lower(S), NEW y \in S \ Lower(S), ~(x < y) PROVE FALSE
      OBVIOUS
    <2>2. x \in S /\ y \in S /\ Rank(S, x) < h /\ ~(Rank(S, y) < h)
      BY <1>2
    <2>3. x = y \/ y < x
      BY <1>0, <2>1, <2>2
    <2>4. Rank(S, x) \in Nat /\ Rank(S, y) \in Nat /\ (y < x => Rank(S, y) < Rank(S, x))
      BY <2>2, RankGrows
    <2> QED BY <1>1, <2>2, <2>3, <2>4
  <1> QED BY <1>2, <1>3, <1>4, <1>5

-----------------------------------------------------------------------------
(* The descent in a sound tree.                                            *)

\* Every key belongs below one entry.
LEMMA OneBelow ==
  ASSUME NEW P, NEW E, Good(P, E), NEW k \in Nat
  PROVE  /\ \E e \in E : Below(E, e, k)
         /\ \A e, f \in E : Below(E, e, k) /\ Below(E, f, k) => e = f
  <1> DEFINE L == {n \in 0..k : \E e \in E : e[1] = n}
  <1>1. \A e \in E : e[1] \in Nat
    BY DEF Good
  <1>2. L \subseteq Nat /\ 0 \in L /\ \A n \in L : n <= k
    BY DEF Good
  <1>3. PICK n \in L : \A m \in L : m <= n
    <2> HIDE DEF L
    <2> QED BY <1>2, GreatestExists
  <1>4. PICK e \in E : e[1] = n
    BY <1>3
  <1>5. Below(E, e, k)
    <2>1. ASSUME NEW f \in E, f[1] <= k PROVE f[1] <= e[1]
      <3>1. f[1] \in L
        BY <1>1, <2>1
      <3> HIDE DEF L
      <3> QED BY <1>3, <1>4, <3>1
    <2>2. n \in Nat /\ n <= k
      BY <1>2, <1>3
    <2> QED BY <1>4, <2>1, <2>2 DEF Below
  <1>6. ASSUME NEW a \in E, NEW b \in E, Below(E, a, k), Below(E, b, k) PROVE a = b
    <2>1. a[1] <= b[1] /\ b[1] <= a[1] /\ a[1] \in Nat /\ b[1] \in Nat
      BY <1>1, <1>6 DEF Below
    <2> QED BY <2>1 DEF Good
  <1> QED BY <1>5, <1>6

LEMMA FindsChild ==
  ASSUME NEW P, NEW page, Good(P, page.kids), NEW k \in Nat, NEW e \in page.kids, Below(page.kids, e, k)
  PROVE  findChild(page, k) = e[2]
  <1> DEFINE below == {f \in page.kids : f[1] <= k}
             Most(f) == \A g \in below : g[1] <= f[1]
  <1>1. e \in below /\ Most(e)
    BY DEF Below
  <1>2. ASSUME NEW f \in below, Most(f) PROVE f = e
    <2>1. f \in page.kids /\ f[1] <= k
      OBVIOUS
    <2>2. \A g \in page.kids : g[1] <= k => g[1] <= f[1]
      BY <1>2
    <2>3. Below(page.kids, f, k)
      BY <2>1, <2>2 DEF Below
    <2> QED BY <2>1, <2>3, OneBelow
  <1> HIDE DEF Most
  <1>3. (CHOOSE f \in below : Most(f)) = e
    BY <1>1, <1>2
  <1> QED BY <1>3 DEF findChild, Most

\* The leaf is the root's child, or the root.
LEMMA Descends ==
  ASSUME NEW t, Sound(t.pages, t.root), NEW k \in Nat,
         NEW e \in Entries(t.pages, t.root), Below(Entries(t.pages, t.root), e, k)
  PROVE  /\ Descent(t, k)[0] = t.root
         /\ \A n \in 1..Height : Descent(t, k)[n] = e[2]
         /\ t.pages[e[2]].kind = "leaf"
  <1> DEFINE P == t.pages
             r == t.root
             Down(p) == IF P[p].kind = "inner" THEN findChild(P[p], k) ELSE p
             F(d) == [n \in 0..Height |-> IF n = 0 THEN r ELSE Down(d[n - 1])]
             g == [n \in 0..Height |-> IF n = 0 THEN r ELSE e[2]]
             D == Descent(t, k)
  <1>1. Height = 4
    BY DEF Height
  <1>2. P[e[2]].kind = "leaf"
    BY DEF Sound, Good, LeafFor
  <1>3. Down(r) = e[2]
    <2>1. CASE P[r].kind = "inner"
      <3>1. Entries(P, r) = P[r].kids
        BY <2>1 DEF Entries
      <3> QED BY <2>1, <3>1, FindsChild DEF Sound
    <2>2. CASE P[r].kind # "inner"
      BY <2>2 DEF Entries
    <2> QED BY <2>1, <2>2
  <1>4. Down(e[2]) = e[2]
    BY <1>2
  <1> HIDE DEF Down, P, r
  <1>5. g = F(g)
    <2>1. ASSUME NEW n \in 0..Height PROVE g[n] = F(g)[n]
      <3>1. CASE n = 0
        BY <3>1
      <3>2. CASE n = 1
        BY <1>1, <1>3, <3>2
      <3>3. CASE n > 1
        BY <1>1, <1>4, <3>3
      <3> QED BY <1>1, <3>1, <3>2, <3>3
    <2> QED BY <2>1
  <1>6. D = CHOOSE d : d = F(d)
    BY DEF Descent, Down, P, r
  <1>7. D = F(D)
    <2> HIDE DEF F, D, g
    <2> QED BY <1>5, <1>6
  <1>8. D[0] = r /\ \A n \in 1..Height : D[n] = Down(D[n - 1])
    <2> HIDE DEF D
    <2>1. \A n \in 0..Height : D[n] = IF n = 0 THEN r ELSE Down(D[n - 1])
      BY <1>7
    <2> QED BY <1>1, <2>1
  <1> HIDE DEF D, F, g
  <1>9. D[1] = e[2] /\ D[2] = e[2] /\ D[3] = e[2] /\ D[4] = e[2]
    <2>1. D[1] = Down(D[0]) /\ D[2] = Down(D[1]) /\ D[3] = Down(D[2]) /\ D[4] = Down(D[3])
      BY <1>1, <1>8
    <2> QED BY <1>3, <1>4, <1>8, <2>1
  <1>10. \A n \in 1..Height : D[n] = e[2]
    BY <1>1, <1>9
  <1> QED BY <1>2, <1>8, <1>10 DEF D, P, r

LEMMA LeafIs ==
  ASSUME NEW t, Sound(t.pages, t.root), NEW k \in Nat,
         NEW e \in Entries(t.pages, t.root), Below(Entries(t.pages, t.root), e, k)
  PROVE  LeafOf(t, k) = e[2] /\ Found(t, k)
  <1>1. LeafOf(t, k) = e[2]
    BY Descends DEF LeafOf, Height
  <1> QED BY <1>1, Descends DEF Found

\* The parent of a leaf under an inner root is the root.
LEMMA ParentIs ==
  ASSUME NEW t, Sound(t.pages, t.root), t.pages[t.root].kind = "inner", NEW k \in Nat
  PROVE  ParentOf(t, k) = t.root
  <1> DEFINE D == Descent(t, k)
             E == Entries(t.pages, t.root)
             above == {n \in 0..Height : D[n] # D[Height]}
  <1>1. PICK e \in E : Below(E, e, k)
    BY OneBelow DEF Sound
  <1>2. D[0] = t.root /\ (\A n \in 1..Height : D[n] = e[2]) /\ t.pages[e[2]].kind = "leaf"
    BY <1>1, Descends
  <1> HIDE DEF D, E
  <1>3. D[0] # D[Height]
    BY <1>2 DEF Height
  <1>4. above = {0}
    <2>1. \A n \in 0..Height : n \in above <=> n = 0
      BY <1>2, <1>3 DEF Height
    <2> QED BY <2>1 DEF Height
  <1>5. Max({0}) = 0
    BY DEF Max
  <1> HIDE DEF above
  <1>6. above # {} /\ D[Max(above)] = t.root
    BY <1>2, <1>4, <1>5
  <1> QED BY <1>6 DEF ParentOf, above, D

LEMMA InHold ==
  ASSUME NEW P, NEW E, NEW x
  PROVE  x \in Hold(P, E) <=> \E e \in E : x \in P[e[2]].keys
  BY DEF Hold, Leaves

\* A key is in one leaf at most, the one it belongs to.
LEMMA KeyIsBelow ==
  ASSUME NEW P, NEW E, Good(P, E), NEW e \in E, NEW x \in P[e[2]].keys
  PROVE  x \in Keys /\ x \in Nat /\ Below(E, e, x)
  BY TreePagesAssumption DEF Good, LeafFor

LEMMA KeyIsOnce ==
  ASSUME NEW P, NEW E, Good(P, E), NEW e \in E, NEW f \in E,
         NEW x \in P[e[2]].keys, x \in P[f[2]].keys
  PROVE  e = f
  BY KeyIsBelow, OneBelow

LEMMA HoldIsKeys ==
  ASSUME NEW P, NEW E, Good(P, E)
  PROVE  Hold(P, E) \subseteq Keys
  BY InHold, KeyIsBelow

\* A lookup finds the keys of the leaves.
LEMMA ContentsIs ==
  ASSUME NEW t, Sound(t.pages, t.root)
  PROVE  Contents(t) = Hold(t.pages, Entries(t.pages, t.root))
  <1> DEFINE E == Entries(t.pages, t.root)
  <1>0. Good(t.pages, E)
    BY DEF Sound
  <1>1. ASSUME NEW k \in Keys PROVE k \in Contents(t) <=> k \in Hold(t.pages, E)
    <2>1. k \in Nat
      BY TreePagesAssumption
    <2>2. PICK e \in E : Below(E, e, k)
      BY <1>0, <2>1, OneBelow
    <2>3. LeafOf(t, k) = e[2] /\ Found(t, k)
      BY <2>1, <2>2, LeafIs
    <2>4. k \in Contents(t) <=> k \in t.pages[e[2]].keys
      BY <2>3 DEF Contents
    <2>5. \A f \in E : k \in t.pages[f[2]].keys => f = e
      BY <1>0, <2>1, <2>2, KeyIsBelow, OneBelow
    <2> HIDE DEF E
    <2> QED BY <2>2, <2>4, <2>5, InHold
  <1>2. Contents(t) \subseteq Keys
    BY DEF Contents
  <1>3. Hold(t.pages, E) \subseteq Keys
    BY <1>0, HoldIsKeys
  <1> HIDE DEF E
  <1>4. Contents(t) = Hold(t.pages, E)
    BY <1>1, <1>2, <1>3
  <1> QED BY <1>4 DEF E

-----------------------------------------------------------------------------
(* What the operations do to the pages and the entries.                    *)

\* The keys of one leaf change.
LEMMA LeafChanges ==
  ASSUME NEW P, NEW Q, NEW E, Good(P, E), NEW e \in E, E \subseteq Nat \X DOMAIN Q,
         \A f \in E : f # e => Q[f[2]] = P[f[2]], LeafFor(Q, E, e)
  PROVE  /\ Good(Q, E)
         /\ Hold(Q, E) = (Hold(P, E) \ P[e[2]].keys) \cup Q[e[2]].keys
  <1>1. ASSUME NEW f \in E PROVE LeafFor(Q, E, f)
    BY DEF Good, LeafFor
  <1>2. Good(Q, E)
    BY <1>1 DEF Good
  <1>3. ASSUME NEW x
        PROVE  x \in Hold(Q, E) <=> x \in (Hold(P, E) \ P[e[2]].keys) \cup Q[e[2]].keys
    <2>1. \A f \in E : x \in P[f[2]].keys /\ x \in P[e[2]].keys => f = e
      BY KeyIsOnce
    <2> QED BY <2>1, InHold
  <1> QED BY <1>2, <1>3

\* The leaf below e is split: its keys from low on go to the new page r.
IsSplit(P, Q, E, e, r, low, A, B) ==
  /\ Good(P, E) /\ e \in E /\ E \subseteq Nat \X DOMAIN Q
  /\ r \in DOMAIN Q /\ r \notin Leaves(E)
  /\ \A f \in E : f # e => Q[f[2]] = P[f[2]]
  /\ Q[e[2]] = Leaf(A) /\ Q[r] = Leaf(B)
  /\ A \subseteq Keys /\ B \subseteq Keys /\ IsFiniteSet(A) /\ IsFiniteSet(B)
  /\ A # {} /\ low \in B
  /\ \A x \in A \cup B : Below(E, e, x)
  /\ \A x \in A : x < low
  /\ \A y \in B : low <= y

IsSplitWell(P, Q, E, e, r, low, A, B) ==
  /\ Good(Q, E \cup {<<low, r>>})
  /\ Hold(Q, E \cup {<<low, r>>}) = (Hold(P, E) \ P[e[2]].keys) \cup A \cup B

LEMMA LeafSplits ==
  ASSUME NEW P, NEW Q, NEW E, NEW e, NEW r, NEW low, NEW A, NEW B,
         IsSplit(P, Q, E, e, r, low, A, B)
  PROVE  IsSplitWell(P, Q, E, e, r, low, A, B)
  <1> USE DEF IsSplit
  <1> DEFINE n == <<low, r>>
             F == E \cup {n}
  <1>0. /\ n[1] = low /\ n[2] = r /\ low \in Nat /\ n \in Nat \X DOMAIN Q
        /\ \A f \in E : f[1] \in Nat /\ f[2] # r
        /\ \A x \in A : x \in Nat /\ x \in Keys
        /\ \A y \in B : y \in Nat /\ y \in Keys
    BY TreePagesAssumption DEF Good, Leaves
  <1>1. e[1] < low
    <2>1. PICK a \in A : TRUE
      OBVIOUS
    <2>2. e[1] <= a /\ a < low
      BY <2>1 DEF Below
    <2> QED BY <1>0, <2>1, <2>2
  <1>2. \A f \in E : f[1] < low => f[1] <= e[1]
    <2>1. \A f \in E : f[1] <= low => f[1] <= e[1]
      BY DEF Below
    <2> QED BY <1>0, <2>1
  <1>3. \A f \in E : f[1] # low
    <2>1. \A f \in E : f[1] <= low => f[1] <= e[1]
      BY DEF Below
    <2> QED BY <1>0, <1>1, <2>1
  <1> HIDE DEF n
  <1>4. IsFiniteSet(F) /\ F \subseteq Nat \X DOMAIN Q
    BY <1>0, FS_AddElement DEF Good
  <1>5. \A f, g \in F : f[1] = g[1] \/ f[2] = g[2] => f = g
    BY <1>0, <1>3 DEF Good
  <1>6. \E f \in F : f[1] = 0
    BY DEF Good
  <1>7. ASSUME NEW f \in E, f # e PROVE LeafFor(Q, F, f)
    <2>1. LeafFor(P, E, f) /\ Q[f[2]] = P[f[2]]
      BY <1>7 DEF Good
    <2>2. ASSUME NEW x \in P[f[2]].keys PROVE Below(F, f, x)
      <3>1. Below(E, f, x) /\ x \in Nat
        BY <2>1, KeyIsBelow
      <3>2. low <= x => low <= f[1]
        <4>1. SUFFICES ASSUME low <= x, f[1] < low PROVE FALSE
          BY <1>0
        <4>2. f[1] <= e[1]
          BY <1>2, <4>1
        <4>3. e[1] <= x
          BY <1>0, <1>1, <3>1, <4>1
        <4>4. e[1] <= f[1]
          BY <3>1, <4>3 DEF Below
        <4> QED BY <1>0, <1>7, <4>2, <4>4 DEF Good
      <3> QED BY <1>0, <3>1, <3>2 DEF Below
    <2> QED BY <2>1, <2>2 DEF LeafFor
  <1>8. LeafFor(Q, F, e)
    <2>1. ASSUME NEW x \in A PROVE Below(F, e, x)
      <3>1. Below(E, e, x) /\ x < low /\ x \in Nat
        BY <1>0
      <3>2. ~(low <= x)
        BY <1>0, <3>1
      <3> QED BY <1>0, <3>1, <3>2 DEF Below
    <2> QED BY <2>1 DEF LeafFor, Leaf
  <1>9. LeafFor(Q, F, n)
    <2>1. ASSUME NEW y \in B PROVE Below(F, n, y)
      <3>1. Below(E, e, y) /\ low <= y /\ y \in Nat
        BY <1>0
      <3>2. \A f \in E : f[1] <= y => f[1] <= low
        BY <1>0, <1>1, <3>1 DEF Below
      <3> QED BY <1>0, <3>1, <3>2 DEF Below
    <2>2. Q[n[2]].kind = "leaf" /\ Q[n[2]].kids = {} /\ Q[n[2]].keys = B
      BY <1>0 DEF Leaf
    <2> HIDE DEF F
    <2> QED BY <2>1, <2>2 DEF LeafFor
  <1>10. Good(Q, F)
    BY <1>4, <1>5, <1>6, <1>7, <1>8, <1>9 DEF Good
  <1>11. ASSUME NEW x
         PROVE  x \in Hold(Q, F) <=> x \in (Hold(P, E) \ P[e[2]].keys) \cup A \cup B
    <2>1. \A f \in E : x \in P[f[2]].keys /\ x \in P[e[2]].keys => f = e
      BY KeyIsOnce
    <2>2. Q[e[2]].keys = A /\ Q[n[2]].keys = B
      BY <1>0 DEF Leaf
    <2>3. x \in Hold(Q, F) <=> \E f \in F : x \in Q[f[2]].keys
      BY InHold
    <2>4. x \in Hold(P, E) <=> \E f \in E : x \in P[f[2]].keys
      BY InHold
    <2> QED BY <2>1, <2>2, <2>3, <2>4
  <1> QED BY <1>10, <1>11 DEF n, IsSplitWell

\* Two neighbours become one leaf.
LEMMA LeavesMerge ==
  ASSUME NEW P, NEW Q, NEW E, Good(P, E), NEW a \in E, NEW b \in E, a[1] < b[1],
         \A f \in E : f[1] <= a[1] \/ b[1] <= f[1],
         E \ {b} \subseteq Nat \X DOMAIN Q,
         \A f \in E : f # a /\ f # b => Q[f[2]] = P[f[2]],
         Q[a[2]] = Leaf(P[a[2]].keys \cup P[b[2]].keys)
  PROVE  Good(Q, E \ {b}) /\ Hold(Q, E \ {b}) = Hold(P, E)
  <1> DEFINE F == E \ {b}
             S == P[a[2]].keys
             T == P[b[2]].keys
  <1>0. a # b /\ \A f \in E : f[1] \in Nat
    BY DEF Good
  <1>1. IsFiniteSet(F)
    BY FS_RemoveElement DEF Good
  <1>2. \A f, g \in F : f[1] = g[1] \/ f[2] = g[2] => f = g
    BY DEF Good
  <1>3. \E f \in F : f[1] = 0
    <2>1. PICK f \in E : f[1] = 0
      BY DEF Good
    <2>2. f # b
      BY <1>0, <2>1
    <2> QED BY <2>1, <2>2
  <1>4. ASSUME NEW f \in F, f # a PROVE LeafFor(Q, F, f)
    <2>1. LeafFor(P, E, f) /\ Q[f[2]] = P[f[2]]
      BY <1>4 DEF Good
    <2> QED BY <2>1 DEF LeafFor, Below
  <1>5. LeafFor(Q, F, a)
    <2>1. IsFiniteSet(S \cup T) /\ S \cup T \subseteq Keys
      BY FS_Union DEF Good, LeafFor
    <2>2. ASSUME NEW x \in S PROVE Below(F, a, x)
      BY KeyIsBelow DEF Below
    <2>3. ASSUME NEW x \in T PROVE Below(F, a, x)
      <3>1. Below(E, b, x) /\ x \in Nat
        BY KeyIsBelow
      <3>2. a[1] <= x
        BY <1>0, <3>1 DEF Below
      <3>3. ASSUME NEW f \in F, f[1] <= x PROVE f[1] <= a[1]
        <4>1. f[1] <= b[1] /\ f[1] # b[1]
          BY <3>1, <3>3 DEF Below, Good
        <4> QED BY <1>0, <4>1
      <3> QED BY <3>2, <3>3 DEF Below
    <2>4. Q[a[2]].kind = "leaf" /\ Q[a[2]].kids = {} /\ Q[a[2]].keys = S \cup T
      BY DEF Leaf
    <2> HIDE DEF F, S, T
    <2> QED BY <2>1, <2>2, <2>3, <2>4 DEF LeafFor
  <1>6. Good(Q, F)
    <2>1. \A f \in F : LeafFor(Q, F, f)
      BY <1>4, <1>5
    <2> QED BY <1>1, <1>2, <1>3, <2>1 DEF Good
  <1>7. ASSUME NEW x PROVE x \in Hold(Q, F) <=> x \in Hold(P, E)
    <2>1. Q[a[2]].keys = S \cup T
      BY DEF Leaf
    <2>2. x \in Hold(Q, F) <=> \E f \in F : x \in Q[f[2]].keys
      BY InHold
    <2>3. x \in Hold(P, E) <=> \E f \in E : x \in P[f[2]].keys
      BY InHold
    <2> QED BY <1>0, <2>1, <2>2, <2>3
  <1> QED BY <1>6, <1>7

\* The keys of two neighbours are shared out again.
IsShare(P, Q, E, a, b, low, A, B) ==
  /\ Good(P, E) /\ a \in E /\ b \in E /\ a[1] < b[1] /\ E \subseteq Nat \X DOMAIN Q
  /\ \A f \in E : f[1] <= a[1] \/ b[1] <= f[1]
  /\ \A f \in E : f # a /\ f # b => Q[f[2]] = P[f[2]]
  /\ Q[a[2]] = Leaf(A) /\ Q[b[2]] = Leaf(B)
  /\ A # {} /\ low \in B /\ IsFiniteSet(A) /\ IsFiniteSet(B)
  /\ A \cup B = P[a[2]].keys \cup P[b[2]].keys
  /\ \A x \in A : x < low
  /\ \A y \in B : low <= y

IsSharedWell(P, Q, E, b, low) ==
  /\ Good(Q, (E \ {b}) \cup {<<low, b[2]>>})
  /\ Hold(Q, (E \ {b}) \cup {<<low, b[2]>>}) = Hold(P, E)

LEMMA LeavesShare ==
  ASSUME NEW P, NEW Q, NEW E, NEW a, NEW b, NEW low, NEW A, NEW B,
         IsShare(P, Q, E, a, b, low, A, B)
  PROVE  IsSharedWell(P, Q, E, b, low)
  <1> USE DEF IsShare
  <1> DEFINE S == P[a[2]].keys \cup P[b[2]].keys
             M == [P EXCEPT ![a[2]] = Leaf(S)]
             D == E \ {b}
  <1>0. /\ a # b /\ a[2] # b[2] /\ a[2] \in DOMAIN P /\ DOMAIN M = DOMAIN P
        /\ a[2] \in DOMAIN Q /\ b[2] \in DOMAIN Q
    BY DEF Good
  <1>1. M[a[2]] = Leaf(S)
    BY <1>0
  <1>2. \A f \in E : f # a => M[f[2]] = P[f[2]]
    BY DEF Good
  <1>3. D \subseteq Nat \X DOMAIN M /\ E \subseteq Nat \X DOMAIN M
    BY <1>0 DEF Good
  <1> HIDE DEF M
  <1>4. Good(M, D) /\ Hold(M, D) = Hold(P, E)
    BY <1>1, <1>2, <1>3, LeavesMerge
  <1>5. a \in D /\ b[2] \notin Leaves(D)
    BY <1>0 DEF Leaves, Good
  <1>6. M[a[2]].keys = S
    BY <1>1 DEF Leaf
  <1>7. \A x \in A \cup B : Below(D, a, x)
    BY <1>4, <1>5, <1>6 DEF Good, LeafFor
  <1>8. A \subseteq Keys /\ B \subseteq Keys
    BY <1>4, <1>5, <1>6 DEF Good, LeafFor
  <1>9. \A f \in D : f # a => Q[f[2]] = M[f[2]]
    BY <1>2
  <1>10. D \subseteq Nat \X DOMAIN Q
    OBVIOUS
  <1>11. S \subseteq Hold(M, D)
    BY <1>5, <1>6, InHold
  <1> HIDE DEF D, S
  <1>12. /\ Good(Q, D \cup {<<low, b[2]>>})
         /\ Hold(Q, D \cup {<<low, b[2]>>}) = (Hold(M, D) \ M[a[2]].keys) \cup A \cup B
    <2> DEFINE c == b[2]
    <2>1. IsSplit(M, Q, D, a, c, low, A, B)
      BY <1>0, <1>4, <1>5, <1>7, <1>8, <1>9, <1>10 DEF IsSplit
    <2> HIDE DEF c
    <2>2. IsSplitWell(M, Q, D, a, c, low, A, B)
      BY <2>1, LeafSplits
    <2> QED BY <2>2 DEF c, IsSplitWell
  <1>13. Hold(Q, D \cup {<<low, b[2]>>}) = Hold(P, E)
    BY <1>4, <1>6, <1>11, <1>12 DEF S
  <1> QED BY <1>12, <1>13 DEF D, IsSharedWell

\* A leaf and its sibling are neighbours.
LEMMA Neighbours ==
  ASSUME NEW P, NEW E, Good(P, E), NEW e \in E, E # {e}
  PROVE  /\ Siblings(E, e[2])[1] \in E /\ Siblings(E, e[2])[2] \in E
         /\ Siblings(E, e[2])[1][1] < Siblings(E, e[2])[2][1]
         /\ \A f \in E : f[1] <= Siblings(E, e[2])[1][1] \/ Siblings(E, e[2])[2][1] <= f[1]
         /\ e \in {Siblings(E, e[2])[1], Siblings(E, e[2])[2]}
  <1> DEFINE after == {f \in E : f[1] > e[1]}
             before == {f \in E : f[1] < e[1]}
             next == CHOOSE f \in after : \A g \in after : f[1] <= g[1]
             prev == CHOOSE f \in before : \A g \in before : g[1] <= f[1]
  <1>0. \A f \in E : f[1] \in Nat
    BY DEF Good
  <1>1. (CHOOSE f \in E : f[2] = e[2]) = e
    BY DEF Good
  <1>2. CASE after # {}
    <2>1. \E f \in after : \A g \in after : f[1] <= g[1]
      <3> DEFINE S == {f[1] : f \in after}
      <3>1. S \subseteq Nat /\ S # {}
        BY <1>0, <1>2
      <3>2. \E x \in S : \A y \in S : x <= y
        <4> HIDE DEF S
        <4> QED BY <3>1, LeastExists
      <3> QED BY <3>2
    <2>2. next \in after /\ \A g \in after : next[1] <= g[1]
      BY <2>1
    <2>3. Siblings(E, e[2]) = <<e, next>>
      BY <1>1, <1>2 DEF Siblings
    <2> HIDE DEF next
    <2>4. \A f \in E : f[1] <= e[1] \/ next[1] <= f[1]
      BY <1>0, <2>2
    <2>5. next \in E /\ e[1] < next[1]
      BY <1>0, <2>2
    <2> QED BY <2>3, <2>4, <2>5
  <1>3. CASE after = {}
    <2>1. before # {}
      <3>1. PICK f \in E : f # e
        OBVIOUS
      <3>2. f[1] # e[1]
        BY <3>1 DEF Good
      <3>3. f[1] < e[1]
        BY <1>0, <1>3, <3>2
      <3> QED BY <3>3
    <2>2. \E f \in before : \A g \in before : g[1] <= f[1]
      <3> DEFINE S == {f[1] : f \in before}
      <3>1. S \subseteq Nat /\ S # {} /\ \A x \in S : x <= e[1]
        BY <1>0, <2>1
      <3>2. \E x \in S : \A y \in S : y <= x
        <4> HIDE DEF S
        <4> QED BY <1>0, <3>1, GreatestExists
      <3> QED BY <3>2
    <2>3. prev \in before /\ \A g \in before : g[1] <= prev[1]
      BY <2>2
    <2>4. Siblings(E, e[2]) = <<prev, e>>
      BY <1>1, <1>3 DEF Siblings
    <2> HIDE DEF prev
    <2>5. \A f \in E : f[1] <= prev[1] \/ e[1] <= f[1]
      BY <1>0, <2>3
    <2>6. prev \in E /\ prev[1] < e[1]
      BY <1>0, <2>3
    <2> QED BY <2>4, <2>5, <2>6
  <1> QED BY <1>2, <1>3

-----------------------------------------------------------------------------
(* Pages.                                                                  *)

LEMMA PagePut ==
  ASSUME NEW S \in Seq(Page), NEW p \in DOMAIN S, NEW X \in Page
  PROVE  /\ [S EXCEPT ![p] = X] \in Seq(Page) /\ Len([S EXCEPT ![p] = X]) = Len(S)
         /\ DOMAIN [S EXCEPT ![p] = X] = DOMAIN S /\ [S EXCEPT ![p] = X][p] = X
         /\ \A q \in DOMAIN S : q # p => [S EXCEPT ![p] = X][q] = S[q]
  OBVIOUS

LEMMA Pushed ==
  ASSUME NEW s \in Seq(Nat), NEW p \in Nat
  PROVE  /\ <<p>> \o s \in Seq(Nat) /\ Len(<<p>> \o s) = Len(s) + 1 /\ (<<p>> \o s)[1] = p
         /\ \A i \in DOMAIN (<<p>> \o s) :
              i \in Nat /\ (i = 1 \/ (i - 1 \in DOMAIN s /\ (<<p>> \o s)[i] = s[i - 1]))
  <1> DEFINE o == <<p>>
  <1>1. o \in Seq(Nat) /\ Len(o) = 1 /\ o[1] = p
    OBVIOUS
  <1> HIDE DEF o
  <1>2. /\ o \o s \in Seq(Nat) /\ Len(o \o s) = Len(o) + Len(s)
        /\ \A i \in 1..Len(o) + Len(s) : (o \o s)[i] = IF i <= Len(o) THEN o[i] ELSE s[i - Len(o)]
    BY <1>1, ConcatProperties
  <1>3. Len(s) \in Nat /\ DOMAIN s = 1..Len(s) /\ DOMAIN (o \o s) = 1..Len(s) + 1
    BY <1>1, <1>2, LenProperties
  <1>4. (o \o s)[1] = p
    BY <1>1, <1>2, <1>3
  <1>5. ASSUME NEW i \in DOMAIN (o \o s), i # 1
        PROVE  i - 1 \in DOMAIN s /\ (o \o s)[i] = s[i - 1]
    BY <1>1, <1>2, <1>3, <1>5
  <1>6. \A i \in DOMAIN (o \o s) : i \in Nat
    BY <1>3
  <1>7. Len(o \o s) = Len(s) + 1
    BY <1>1, <1>2, <1>3
  <1> QED BY <1>2, <1>4, <1>5, <1>6, <1>7 DEF o

\* Whether a tree is sound depends on its own pages only.
LEMMA SoundAgrees ==
  ASSUME NEW P, NEW Q, NEW r, Sound(P, r),
         \A p \in {r} \cup Leaves(Entries(P, r)) : p \in DOMAIN Q /\ Q[p] = P[p]
  PROVE  /\ Sound(Q, r) /\ Entries(Q, r) = Entries(P, r)
         /\ Hold(Q, Entries(Q, r)) = Hold(P, Entries(P, r))
  <1> DEFINE E == Entries(P, r)
  <1>0. r \in DOMAIN Q /\ Q[r] = P[r] /\ \A e \in E : e[2] \in DOMAIN Q /\ Q[e[2]] = P[e[2]]
    BY DEF Leaves
  <1>1. Entries(Q, r) = E
    BY <1>0 DEF Entries
  <1>2. Good(P, E)
    BY DEF Sound
  <1> HIDE DEF E
  <1>3. \A e \in E : LeafFor(Q, E, e) /\ Q[e[2]] = P[e[2]]
    BY <1>0, <1>2 DEF Good, LeafFor
  <1>4. Good(Q, E)
    BY <1>0, <1>2, <1>3 DEF Good
  <1>5. Hold(Q, E) = Hold(P, E)
    <2>1. \A x : x \in Hold(Q, E) <=> x \in Hold(P, E)
      BY <1>3, InHold
    <2> QED BY <2>1
  <1>6. Sound(Q, r)
    BY <1>0, <1>1, <1>4 DEF Sound, E
  <1> QED BY <1>1, <1>5, <1>6 DEF E

\* The root of a sound tree and its leaves are pages in use.
LEMMA InUse ==
  ASSUME NEW P, NEW r, Sound(P, r)
  PROVE  /\ P[r].kind # "free"
         /\ \A e \in Entries(P, r) : e[2] \in DOMAIN P /\ P[e[2]].kind = "leaf"
  BY DEF Sound, Good, LeafFor

\* The pages and the root of t are replaced.
With(t, Q, r) == [t EXCEPT !.pages = Q, !.root = r]

LEMMA StaysStored ==
  ASSUME NEW t, Stored(t), NEW Q \in Seq(Page), Len(Q) = Len(t.pages), NEW r \in Nat,
         \A p \in Range(t.free) : Q[p] = Free
  PROVE  /\ Stored(With(t, Q, r))
         /\ With(t, Q, r).pages = Q /\ With(t, Q, r).root = r
         /\ With(t, Q, r).disk = t.disk /\ With(t, Q, r).free = t.free
  <1> DEFINE u == With(t, Q, r)
  <1>1. t \in Tree
    BY DEF Stored
  <1>2. u \in Tree /\ u.pages = Q /\ u.root = r /\ u.disk = t.disk /\ u.free = t.free
    BY <1>1 DEF With, Tree
  <1>3. DOMAIN Q = DOMAIN t.pages
    BY <1>1 DEF Tree
  <1> HIDE DEF u
  <1>4. Stored(u)
    BY <1>2, <1>3 DEF Stored
  <1> QED BY <1>2, <1>4 DEF u

\* A page that no tree and no list has.
Spare(t, n) == n \in DOMAIN t.pages /\ t.pages[n] = Free /\ n \notin Range(t.free)

\* An allocation gives a spare page and leaves the others alone.
LEMMA StoredAllocates ==
  ASSUME NEW t, Stored(t)
  PROVE  LET u == allocatePage(t)
             n == NewPage(t)
         IN  /\ Stored(u) /\ Spare(u, n) /\ n # 0
             /\ u.root = t.root /\ Len(t.pages) <= Len(u.pages)
             /\ n \in DOMAIN t.pages => t.pages[n] = Free
             /\ \A p \in DOMAIN t.pages : u.pages[p] = t.pages[p] /\ u.disk[p] = t.disk[p]
             /\ \A p \in DOMAIN u.pages \ DOMAIN t.pages : u.pages[p] = Free /\ u.disk[p] = Free
  <1> DEFINE u == allocatePage(t)
             n == NewPage(t)
             Same == \A p \in DOMAIN t.pages : u.pages[p] = t.pages[p] /\ u.disk[p] = t.disk[p]
  <1>0. t \in Tree /\ Len(t.pages) = Len(t.disk) /\ Len(t.pages) \in Nat
    BY DEF Stored, Tree
  <1>1. CASE t.free = <<>>
    <2>1. /\ u = [t EXCEPT !.pages = Append(t.pages, Free), !.disk = Append(t.disk, Free)]
          /\ n = Len(t.pages) + 1
      BY <1>1 DEF allocatePage, NewPage
    <2>2. Free \in Page
      BY DEF Free, Page
    <2>3. /\ u.pages = Append(t.pages, Free) /\ u.disk = Append(t.disk, Free)
          /\ u.root = t.root /\ u.free = t.free
      BY <1>0, <2>1 DEF Tree
    <2>4. u \in Tree
      <3>1. Append(t.pages, Free) \in Seq(Page) /\ Append(t.disk, Free) \in Seq(Page)
        BY <1>0, <2>2 DEF Tree
      <3> DEFINE P == Append(t.pages, Free)
                 D == Append(t.disk, Free)
      <3>2. u = [t EXCEPT !.pages = P, !.disk = D]
        BY <2>1
      <3> HIDE DEF P, D, u
      <3>3. P \in Seq(Page) /\ D \in Seq(Page)
        BY <3>1 DEF P, D
      <3> QED BY <1>0, <3>2, <3>3 DEF Tree
    <2> HIDE DEF u, n
    <2>5. /\ Len(u.pages) = Len(u.disk) /\ Len(u.pages) = n /\ n \in Nat \ {0}
          /\ u.pages[n] = Free /\ Same
      BY <1>0, <2>1, <2>3 DEF Tree
    <2>6. Range(t.free) = {}
      BY <1>1 DEF Range
    <2>7. Stored(u)
      BY <2>3, <2>4, <2>5, <2>6 DEF Stored
    <2>8. n \in DOMAIN u.pages /\ DOMAIN t.pages \subseteq DOMAIN u.pages /\ n \notin DOMAIN t.pages
      BY <1>0, <2>1, <2>4, <2>5 DEF Tree
    <2>9. \A p \in DOMAIN u.pages \ DOMAIN t.pages : u.pages[p] = Free /\ u.disk[p] = Free
      BY <1>0, <2>3, <2>5 DEF Tree
    <2>10. Spare(u, n) /\ n # 0
      BY <2>3, <2>5, <2>6, <2>8 DEF Spare
    <2>11. Len(t.pages) <= Len(u.pages)
      BY <1>0, <2>1, <2>5
    <2> QED BY <2>3, <2>5, <2>7, <2>8, <2>9, <2>10, <2>11 DEF u, n
  <1>2. CASE t.free # <<>>
    <2>1. u = [t EXCEPT !.free = Tail(t.free)] /\ n = Head(t.free)
      BY <1>2 DEF allocatePage, NewPage
    <2>2. t.free \in Seq(Nat) /\ IsInjective(t.free)
      BY <1>0 DEF Tree, Stored
    <2>3. /\ u.pages = t.pages /\ u.disk = t.disk /\ u.root = t.root /\ u.free = Tail(t.free)
          /\ u \in Tree
      <3> DEFINE f == Tail(t.free)
      <3>1. f \in Seq(Nat)
        BY <1>2, <2>2
      <3>2. u = [t EXCEPT !.free = f]
        BY <2>1
      <3> HIDE DEF f, u
      <3>3. /\ u.pages = t.pages /\ u.disk = t.disk /\ u.root = t.root /\ u.free = f
            /\ u \in Tree
        BY <1>0, <3>1, <3>2 DEF Tree
      <3> QED BY <3>3 DEF f
    <2>4. n \in Range(t.free) /\ n = t.free[1] /\ 1 \in DOMAIN t.free
      BY <1>2, <2>1, <2>2 DEF Range
    <2> HIDE DEF u, n
    <2>5. \A i \in DOMAIN u.free : i \in Nat /\ i + 1 \in DOMAIN t.free /\ i + 1 # 1 /\ u.free[i] = t.free[i + 1]
      BY <1>2, <2>2, <2>3
    <2>6. Range(u.free) \subseteq Range(t.free) /\ n \notin Range(u.free)
      <3>1. ASSUME NEW p \in Range(u.free) PROVE p \in Range(t.free) /\ p # n
        <4>1. PICK i \in DOMAIN u.free : p = u.free[i]
          BY DEF Range
        <4>2. p = t.free[i + 1] /\ i + 1 \in DOMAIN t.free /\ i + 1 # 1
          BY <2>5, <4>1
        <4> QED BY <2>2, <2>4, <4>2 DEF Range, IsInjective
      <3> QED BY <3>1
    <2>7. IsInjective(u.free)
      <3>1. ASSUME NEW i \in DOMAIN u.free, NEW j \in DOMAIN u.free, u.free[i] = u.free[j] PROVE i = j
        <4>1. /\ i + 1 \in DOMAIN t.free /\ j + 1 \in DOMAIN t.free
              /\ t.free[i + 1] = t.free[j + 1] /\ i \in Nat /\ j \in Nat
          BY <2>5, <3>1
        <4>2. i + 1 = j + 1
          BY <2>2, <4>1 DEF IsInjective
        <4> QED BY <4>1, <4>2
      <3> QED BY <3>1 DEF IsInjective
    <2>8. Stored(u)
      BY <2>3, <2>6, <2>7 DEF Stored
    <2>9. t.pages[n] = Free /\ n \in DOMAIN t.pages
      BY <2>4 DEF Stored
    <2>10. n # 0
      BY <1>0, <2>9 DEF Tree
    <2> QED BY <1>0, <2>3, <2>6, <2>8, <2>9, <2>10 DEF u, n, Spare
  <1> QED BY <1>1, <1>2

LEMMA Allocates ==
  ASSUME NEW t, Kept(t)
  PROVE  LET u == allocatePage(t)
             n == NewPage(t)
         IN  /\ Kept(u) /\ Spare(u, n) /\ n # 0
             /\ u.root = t.root /\ Len(t.pages) <= Len(u.pages)
             /\ n \in DOMAIN t.pages => t.pages[n] = Free
             /\ \A p \in DOMAIN t.pages : u.pages[p] = t.pages[p] /\ u.disk[p] = t.disk[p]
             /\ Entries(u.pages, u.root) = Entries(t.pages, t.root)
  <1> DEFINE u == allocatePage(t)
             n == NewPage(t)
  <1>1. Stored(t) /\ Sound(t.pages, t.root)
    BY DEF Kept
  <1>2. /\ Stored(u) /\ Spare(u, n) /\ n # 0
        /\ u.root = t.root /\ Len(t.pages) <= Len(u.pages)
        /\ n \in DOMAIN t.pages => t.pages[n] = Free
        /\ \A p \in DOMAIN t.pages : u.pages[p] = t.pages[p] /\ u.disk[p] = t.disk[p]
    BY <1>1, StoredAllocates
  <1> HIDE DEF u, n
  <1>3. DOMAIN t.pages \subseteq DOMAIN u.pages
    BY <1>1, <1>2 DEF Stored, Tree
  <1>4. {t.root} \cup Leaves(Entries(t.pages, t.root)) \subseteq DOMAIN t.pages
    BY <1>1, InUse DEF Leaves, Sound
  <1>5. Sound(u.pages, t.root) /\ Entries(u.pages, t.root) = Entries(t.pages, t.root)
    <2>1. \A p \in {t.root} \cup Leaves(Entries(t.pages, t.root)) :
            p \in DOMAIN u.pages /\ u.pages[p] = t.pages[p]
      BY <1>2, <1>3, <1>4
    <2> DEFINE P == t.pages
               Q == u.pages
               r == t.root
    <2>2. Sound(P, r) /\ \A p \in {r} \cup Leaves(Entries(P, r)) : p \in DOMAIN Q /\ Q[p] = P[p]
      BY <1>1, <2>1
    <2> HIDE DEF P, Q, r
    <2>3. Sound(Q, r) /\ Entries(Q, r) = Entries(P, r)
      BY <2>2, SoundAgrees
    <2> QED BY <2>3 DEF P, Q, r
  <1> QED BY <1>2, <1>5 DEF Kept, u, n

-----------------------------------------------------------------------------
(* Operations on a tree.                                                   *)

LEMMA KeptTree ==
  ASSUME NEW t, Kept(t)
  PROVE  /\ t \in Tree /\ t.root \in DOMAIN t.pages /\ Good(t.pages, EntriesOf(t))
         /\ DOMAIN t.pages = DOMAIN t.disk
         /\ \A p \in DOMAIN t.pages : t.pages[p] \in Page /\ p \in Nat /\ p # 0
         /\ \A e \in EntriesOf(t) : e[2] \in DOMAIN t.pages /\ t.pages[e[2]].kind = "leaf"
         /\ t.pages[t.root].kind = "inner" => EntriesOf(t) = t.pages[t.root].kids
         /\ t.pages[t.root].kind # "inner" =>
              t.pages[t.root].kind = "leaf" /\ EntriesOf(t) = {<<0, t.root>>}
         /\ HeldBy(t) = Contents(t) /\ HeldBy(t) \subseteq Keys
  <1>1. t \in Tree /\ t.root \in DOMAIN t.pages /\ Good(t.pages, EntriesOf(t))
    BY DEF Kept, Stored, Sound, EntriesOf
  <1>2. DOMAIN t.pages = DOMAIN t.disk
    BY DEF Kept, Stored, Tree
  <1>3. \A p \in DOMAIN t.pages : t.pages[p] \in Page /\ p \in Nat /\ p # 0
    BY <1>1 DEF Tree
  <1>4. \A e \in EntriesOf(t) : e[2] \in DOMAIN t.pages /\ t.pages[e[2]].kind = "leaf"
    BY InUse DEF Kept, EntriesOf
  <1>5. /\ t.pages[t.root].kind = "inner" => EntriesOf(t) = t.pages[t.root].kids
        /\ t.pages[t.root].kind # "inner" =>
              t.pages[t.root].kind = "leaf" /\ EntriesOf(t) = {<<0, t.root>>}
    BY DEF EntriesOf, Entries, Kept, Sound
  <1>6. HeldBy(t) = Contents(t) /\ HeldBy(t) \subseteq Keys
    BY <1>1, ContentsIs, HoldIsKeys DEF HeldBy, EntriesOf, Kept
  <1> QED BY <1>1, <1>2, <1>3, <1>4, <1>5, <1>6

LEMMA LeafIsPage ==
  ASSUME NEW S, S \subseteq Keys
  PROVE  /\ Leaf(S) \in Page /\ Leaf(S) # Free
         /\ Leaf(S).kind = "leaf" /\ Leaf(S).kids = {} /\ Leaf(S).keys = S
  BY DEF Leaf, Free, Page

LEMMA LeafWithKeys ==
  ASSUME NEW page \in Page, page.kind = "leaf", page.kids = {}, NEW S
  PROVE  [page EXCEPT !.keys = S] = Leaf(S)
  BY DEF Leaf, Page

LEMMA KeysChange ==
  ASSUME NEW t, Kept(t), NEW e \in EntriesOf(t), NEW S, S \subseteq Keys, IsFiniteSet(S),
         \A x \in S : Below(EntriesOf(t), e, x)
  PROVE  LET u == [t EXCEPT !.pages[e[2]].keys = S]
         IN  /\ Kept(u) /\ u.root = t.root /\ u.disk = t.disk /\ u.free = t.free
             /\ Len(u.pages) = Len(t.pages) /\ EntriesOf(u) = EntriesOf(t)
             /\ HeldBy(u) = (HeldBy(t) \ t.pages[e[2]].keys) \cup S
             /\ u.pages[e[2]] = Leaf(S)
             /\ \A p \in DOMAIN t.pages : p # e[2] => u.pages[p] = t.pages[p]
  <1> DEFINE E == EntriesOf(t)
             l == e[2]
             P == t.pages
             Q == [P EXCEPT ![l] = Leaf(S)]
             u == [t EXCEPT !.pages[e[2]].keys = S]
  <1>1. /\ t \in Tree /\ t.root \in DOMAIN P /\ Good(P, E) /\ l \in DOMAIN P /\ P[l].kind = "leaf"
        /\ P \in Seq(Page) /\ P[l] \in Page /\ t.root \in Nat
    <2>1. /\ t \in Tree /\ t.root \in DOMAIN P /\ Good(P, E) /\ l \in DOMAIN P /\ P[l].kind = "leaf"
          /\ P[l] \in Page
      <3>1. /\ t \in Tree /\ t.root \in DOMAIN t.pages /\ Good(t.pages, EntriesOf(t))
            /\ \A p \in DOMAIN t.pages : t.pages[p] \in Page
            /\ \A f \in EntriesOf(t) : f[2] \in DOMAIN t.pages /\ t.pages[f[2]].kind = "leaf"
        BY KeptTree
      <3> QED BY <3>1
    <2> QED BY <2>1 DEF Tree
  <1>2. P[l].kids = {}
    BY <1>1 DEF Good, LeafFor
  <1>3. [P[l] EXCEPT !.keys = S] = Leaf(S) /\ Leaf(S) \in Page /\ Leaf(S) # Free
        /\ Leaf(S).kind = "leaf" /\ Leaf(S).kids = {} /\ Leaf(S).keys = S
    BY <1>1, <1>2, LeafIsPage, LeafWithKeys
  <1>4. u = [t EXCEPT !.pages = Q]
    BY <1>3
  <1>5. /\ Q \in Seq(Page) /\ Len(Q) = Len(P) /\ DOMAIN Q = DOMAIN P /\ Q[l] = Leaf(S)
        /\ \A p \in DOMAIN P : p # l => Q[p] = P[p]
    BY <1>1, <1>3, PagePut
  <1>6. u = With(t, Q, t.root)
    <2> HIDE DEF Q, u
    <2>1. [t EXCEPT !.pages = Q] = [t EXCEPT !.pages = Q, !.root = t.root]
      BY <1>1 DEF Tree
    <2> QED BY <1>4, <2>1 DEF With
  <1> HIDE DEF Q, u
  <1>7. \A p \in Range(t.free) : Q[p] = Free
    BY <1>1, <1>5 DEF Free, Kept, Stored
  <1>8. /\ Stored(u) /\ u.pages = Q /\ u.root = t.root /\ u.disk = t.disk /\ u.free = t.free
    <2>1. Stored(t)
      BY DEF Kept
    <2> QED BY <1>1, <1>5, <1>6, <1>7, <2>1, StaysStored
  <1>9. Q[t.root] = P[t.root] \/ (t.root = l /\ P[t.root].kind = "leaf" /\ Q[t.root].kind = "leaf")
    BY <1>1, <1>3, <1>5
  <1>10. Entries(Q, t.root) = E
    BY <1>9 DEF EntriesOf, Entries
  <1>11. LeafFor(Q, E, e)
    BY <1>3, <1>5 DEF LeafFor
  <1>12. Good(Q, E) /\ Hold(Q, E) = (Hold(P, E) \ P[l].keys) \cup S
    <2>1. \A f \in E : f # e => Q[f[2]] = P[f[2]]
      BY <1>1, <1>5 DEF Good
    <2>2. E \subseteq Nat \X DOMAIN Q
      BY <1>1, <1>5 DEF Good
    <2>3. Q[e[2]].keys = S
      BY <1>3, <1>5
    <2>4. Good(P, E) /\ e \in E
      BY <1>1
    <2> HIDE DEF E, P
    <2>5. Good(Q, E) /\ Hold(Q, E) = (Hold(P, E) \ P[e[2]].keys) \cup Q[e[2]].keys
      BY <1>11, <2>1, <2>2, <2>4, LeafChanges
    <2> QED BY <2>3, <2>5
  <1>13. Sound(Q, t.root)
    <2>1. Sound(P, t.root)
      BY DEF Kept
    <2> QED BY <1>1, <1>5, <1>9, <1>10, <1>12, <2>1 DEF Sound
  <1>14. EntriesOf(u) = E /\ HeldBy(u) = (HeldBy(t) \ P[l].keys) \cup S
    <2>1. EntriesOf(u) = E
      BY <1>8, <1>10 DEF EntriesOf
    <2>2. HeldBy(u) = Hold(Q, E) /\ HeldBy(t) = Hold(P, E)
      BY <1>8, <2>1 DEF HeldBy
    <2> QED BY <1>12, <2>1, <2>2
  <1>15. Kept(u)
    BY <1>8, <1>13 DEF Kept
  <1> QED BY <1>5, <1>8, <1>14, <1>15 DEF u

\* The entries of an inner root change with the leaves.
LEMMA EntriesChange ==
  ASSUME NEW t, Kept(t), NEW Q \in Seq(Page), Len(Q) = Len(t.pages), NEW r \in DOMAIN Q,
         NEW F, Q[r] = Inner(F), Good(Q, F), \A p \in Range(t.free) : Q[p] = Free
  PROVE  LET u == With(t, Q, r)
         IN  /\ Kept(u) /\ u.pages = Q /\ u.root = r /\ u.disk = t.disk /\ u.free = t.free
             /\ EntriesOf(u) = F /\ HeldBy(u) = Hold(Q, F)
  <1> DEFINE u == With(t, Q, r)
  <1>1. r \in Nat
    OBVIOUS
  <1>2. Stored(u) /\ u.pages = Q /\ u.root = r /\ u.disk = t.disk /\ u.free = t.free
    <2>1. Stored(t)
      BY DEF Kept
    <2> QED BY <1>1, <2>1, StaysStored
  <1> HIDE DEF u
  <1>3. Q[r].kind = "inner" /\ Q[r].kids = F /\ Q[r].keys = {}
    BY DEF Inner
  <1>4. Entries(Q, r) = F
    BY <1>3 DEF Entries
  <1>5. Sound(Q, r)
    BY <1>3, <1>4 DEF Sound
  <1>6. Kept(u)
    BY <1>2, <1>5 DEF Kept
  <1>7. EntriesOf(u) = F
    BY <1>2, <1>4 DEF EntriesOf
  <1>8. HeldBy(u) = Hold(Q, F)
    BY <1>2, <1>7 DEF HeldBy
  <1> QED BY <1>2, <1>6, <1>7, <1>8 DEF u

\* A page that is not free is freed.
LEMMA StoredFrees ==
  ASSUME NEW t, Stored(t), NEW p \in DOMAIN t.pages, p \notin Range(t.free)
  PROVE  LET u == markPageFreeInPlace(t, p)
         IN  /\ Stored(u) /\ u.root = t.root /\ Len(u.pages) = Len(t.pages)
             /\ u.pages[p] = Free /\ u.disk[p] = Free
             /\ \A q \in DOMAIN t.pages : q # p => u.pages[q] = t.pages[q] /\ u.disk[q] = t.disk[q]
  <1> DEFINE u == markPageFreeInPlace(t, p)
             Q == [t.pages EXCEPT ![p] = Free]
             D == [t.disk EXCEPT ![p] = Free]
             f == <<p>> \o t.free
  <1>1. /\ t \in Tree /\ DOMAIN t.pages = DOMAIN t.disk /\ p \in Nat
        /\ Len(t.pages) = Len(t.disk)
    BY DEF Stored, Tree
  <1>2. t.pages \in Seq(Page) /\ t.disk \in Seq(Page) /\ t.free \in Seq(Nat) /\ Free \in Page
    BY <1>1 DEF Tree, Free, Page
  <1>3. Q \in Seq(Page) /\ Len(Q) = Len(t.pages) /\ D \in Seq(Page) /\ Len(D) = Len(t.disk)
    BY <1>1, <1>2, PagePut
  <1>4. Q[p] = Free /\ D[p] = Free /\ DOMAIN Q = DOMAIN t.pages
        /\ \A q \in DOMAIN t.pages : q # p => Q[q] = t.pages[q] /\ D[q] = t.disk[q]
    BY <1>1
  <1>5. f \in Seq(Nat) /\ Len(f) = Len(t.free) + 1 /\ f[1] = p
        /\ \A i \in DOMAIN f : i \in Nat /\ (i = 1 \/ (i - 1 \in DOMAIN t.free /\ f[i] = t.free[i - 1]))
    BY <1>1, <1>2, Pushed
  <1>6. u = [t EXCEPT !.pages = Q, !.disk = D, !.free = f]
    BY <1>1 DEF markPageFreeInPlace, Tree
  <1> HIDE DEF Q, D, f, u
  <1>7. u \in Tree /\ u.pages = Q /\ u.disk = D /\ u.free = f /\ u.root = t.root
    BY <1>1, <1>3, <1>5, <1>6 DEF Tree
  <1>8. \A q \in Range(f) : q = p \/ q \in Range(t.free)
    BY <1>5 DEF Range
  <1>9. IsInjective(f)
    <2>1. ASSUME NEW i \in DOMAIN f, NEW j \in DOMAIN f, f[i] = f[j] PROVE i = j
      <3>1. \A n \in DOMAIN t.free : t.free[n] # p
        BY DEF Range
      <3>2. i \in Nat /\ j \in Nat
        BY <1>5
      <3>3. CASE i = 1 \/ j = 1
        BY <1>5, <2>1, <3>1, <3>3
      <3>4. CASE i # 1 /\ j # 1
        <4>1. /\ i - 1 \in DOMAIN t.free /\ j - 1 \in DOMAIN t.free
              /\ t.free[i - 1] = t.free[j - 1]
          BY <1>5, <2>1, <3>4
        <4>2. i - 1 = j - 1
          BY <1>1, <4>1 DEF Stored, IsInjective
        <4> QED BY <3>2, <4>2
      <3> QED BY <3>3, <3>4
    <2> QED BY <2>1 DEF IsInjective
  <1>10. Stored(u)
    <2>1. \A q \in Range(f) : q \in DOMAIN Q /\ Q[q] = Free /\ D[q] = Free
      BY <1>1, <1>4, <1>8 DEF Stored
    <2> QED BY <1>1, <1>3, <1>7, <1>9, <2>1 DEF Stored
  <1> QED BY <1>3, <1>4, <1>7, <1>10 DEF u

\* A page that the tree does not use is freed.
LEMMA FreesPage ==
  ASSUME NEW t, Kept(t), NEW p \in DOMAIN t.pages, p \notin Range(t.free),
         p # t.root, p \notin Leaves(EntriesOf(t))
  PROVE  LET u == markPageFreeInPlace(t, p)
         IN  /\ Kept(u) /\ u.root = t.root /\ Len(u.pages) = Len(t.pages)
             /\ EntriesOf(u) = EntriesOf(t) /\ HeldBy(u) = HeldBy(t)
             /\ u.disk[p] = Free
             /\ \A q \in DOMAIN t.pages : q # p => u.disk[q] = t.disk[q]
  <1> DEFINE u == markPageFreeInPlace(t, p)
  <1>1. Stored(t) /\ Sound(t.pages, t.root) /\ t \in Tree
    BY DEF Kept, Stored
  <1>2. /\ Stored(u) /\ u.root = t.root /\ Len(u.pages) = Len(t.pages)
        /\ u.pages[p] = Free /\ u.disk[p] = Free
        /\ \A q \in DOMAIN t.pages : q # p => u.pages[q] = t.pages[q] /\ u.disk[q] = t.disk[q]
    BY <1>1, StoredFrees
  <1> HIDE DEF u
  <1>3. DOMAIN u.pages = DOMAIN t.pages
    BY <1>1, <1>2 DEF Stored, Tree
  <1>4. \A q \in {t.root} \cup Leaves(Entries(t.pages, t.root)) :
          q \in DOMAIN u.pages /\ u.pages[q] = t.pages[q]
    <2>1. t.root \in DOMAIN t.pages /\ Leaves(EntriesOf(t)) \subseteq DOMAIN t.pages
      BY KeptTree DEF Leaves
    <2> QED BY <1>2, <1>3, <2>1 DEF EntriesOf
  <1>5. /\ Sound(u.pages, t.root) /\ Entries(u.pages, t.root) = EntriesOf(t)
        /\ Hold(u.pages, Entries(u.pages, t.root)) = HeldBy(t)
    BY <1>1, <1>4, SoundAgrees DEF EntriesOf, HeldBy
  <1>6. EntriesOf(u) = EntriesOf(t) /\ HeldBy(u) = HeldBy(t)
    BY <1>2, <1>5 DEF EntriesOf, HeldBy
  <1> QED BY <1>2, <1>5, <1>6 DEF Kept, u

\* The only leaf under an inner root becomes the root.
LEMMA RootMoves ==
  ASSUME NEW t, Kept(t), NEW e, t.pages[t.root].kind = "inner", t.pages[t.root].kids = {e}
  PROVE  LET u == [t EXCEPT !.root = e[2]]
         IN  /\ Kept(u) /\ u.pages = t.pages /\ u.disk = t.disk /\ u.free = t.free /\ u.root = e[2]
             /\ EntriesOf(u) = EntriesOf(t) /\ HeldBy(u) = HeldBy(t)
             /\ t.root # e[2]
  <1> DEFINE u == [t EXCEPT !.root = e[2]]
  <1>1. /\ t \in Tree /\ EntriesOf(t) = {e} /\ Good(t.pages, EntriesOf(t))
        /\ e[2] \in DOMAIN t.pages /\ t.pages[e[2]].kind = "leaf" /\ e[2] \in Nat
    BY KeptTree
  <1>2. e = <<0, e[2]>>
    <2>1. e \in Nat \X DOMAIN t.pages /\ e[1] = 0
      BY <1>1 DEF Good
    <2> QED BY <2>1
  <1>3. /\ u \in Tree /\ u.pages = t.pages /\ u.disk = t.disk /\ u.free = t.free /\ u.root = e[2]
    BY <1>1 DEF Tree
  <1> HIDE DEF u
  <1>4. EntriesOf(u) = {e} /\ Entries(t.pages, e[2]) = {e}
    BY <1>1, <1>2, <1>3 DEF EntriesOf, Entries
  <1>5. Sound(t.pages, e[2])
    BY <1>1, <1>4 DEF Sound
  <1>6. Kept(u)
    BY <1>3, <1>5 DEF Kept, Stored
  <1>7. HeldBy(u) = HeldBy(t)
    BY <1>1, <1>3, <1>4 DEF HeldBy
  <1> QED BY <1>1, <1>3, <1>4, <1>6, <1>7 DEF u

\* From t to u the tree comes to hold H, and a leaf that is dropped is free in
\* the file at once.
Does(t, u, H) ==
  /\ Kept(u) /\ HeldBy(u) = H /\ Len(t.pages) <= Len(u.pages)
  /\ \A p \in Leaves(EntriesOf(t)) : p \in Leaves(EntriesOf(u)) \/ u.disk[p] = Free

LEMMA InnerIsPage ==
  ASSUME NEW F \in SUBSET (Nat \X Nat)
  PROVE  Inner(F) \in Page /\ Inner(F) # Free /\ Inner(F).kind = "inner" /\ Inner(F).keys = {}
         /\ Inner(F).kids = F
  BY DEF Inner, Page, Free

LEMMA InnerWithKids ==
  ASSUME NEW page \in Page, page.kind = "inner", page.keys = {}, NEW F
  PROVE  [page EXCEPT !.kids = F] = Inner(F)
  BY DEF Inner, Page

\* The leaf is split, and the new half is put next to it.
LEMMA SplitDoes ==
  ASSUME NEW t, Kept(t), NEW k \in Keys, NEW e \in EntriesOf(t), Below(EntriesOf(t), e, k),
         Cardinality(t.pages[e[2]].keys \cup {k}) >= 2
  PROVE  Does(t, splitLeafAndInsert(t, k), HeldBy(t) \cup {k})
  <1> DEFINE E == EntriesOf(t)
             l == e[2]
             S == t.pages[l].keys
             all == S \cup {k}
             A == Lower(all)
             B == all \ A
             low == Min(B)
             a == allocatePage(t)
             r == NewPage(t)
             n == <<low, r>>
             F == E \cup {n}
             h == [a EXCEPT !.pages[l] = Leaf(A), !.pages[r] = Leaf(B)]
             Q == [[a.pages EXCEPT ![l] = Leaf(A)] EXCEPT ![r] = Leaf(B)]
  <1>1. k \in Nat /\ Sound(t.pages, t.root) /\ Good(t.pages, E)
    BY KeptTree, TreePagesAssumption DEF Kept
  <1>2. LeafOf(t, k) = l
    BY <1>1, LeafIs DEF EntriesOf
  <1>3. /\ S \subseteq Keys /\ IsFiniteSet(S) /\ \A x \in S : Below(E, e, x)
    BY <1>1 DEF Good, LeafFor
  <1>4. /\ all \subseteq Keys /\ all \subseteq Nat /\ IsFiniteSet(all) /\ \A x \in all : Below(E, e, x)
    <2>1. IsFiniteSet(all)
      BY <1>3, FS_AddElement
    <2> QED BY <1>1, <1>3, <2>1, TreePagesAssumption
  <1>5. /\ A \subseteq all /\ A # {} /\ B # {} /\ \A x \in A, y \in B : x < y
    <2> HIDE DEF all
    <2>1. Cardinality(all) >= 2
      BY DEF all
    <2> QED BY <1>4, <2>1, LowerSplits
  <1>6. /\ A \subseteq Keys /\ B \subseteq Keys /\ IsFiniteSet(A) /\ IsFiniteSet(B) /\ A \cup B = all
    <2> HIDE DEF all, A
    <2>1. B \subseteq all
      OBVIOUS
    <2> HIDE DEF B
    <2>2. IsFiniteSet(A) /\ IsFiniteSet(B)
      BY <1>4, <1>5, <2>1, FS_Subset
    <2> QED BY <1>4, <1>5, <2>1, <2>2 DEF B
  <1>7. /\ low \in B /\ low \in Nat /\ (\A y \in B : low <= y) /\ \A x \in A : x < low
    <2>1. B \subseteq Nat
      BY <1>4, <1>6
    <2> HIDE DEF B, A
    <2>2. low \in B /\ \A y \in B : low <= y
      BY <1>5, <2>1, MinIs
    <2> QED BY <1>5, <2>1, <2>2
  <1> HIDE DEF A, B, low, all
  <1>8. /\ Kept(a) /\ Spare(a, r) /\ r # 0
        /\ a.root = t.root /\ Len(t.pages) <= Len(a.pages)
        /\ r \in DOMAIN t.pages => t.pages[r] = Free
        /\ \A p \in DOMAIN t.pages : a.pages[p] = t.pages[p] /\ a.disk[p] = t.disk[p]
        /\ EntriesOf(a) = E
    BY Allocates DEF EntriesOf
  <1> HIDE DEF a, r
  <1>9. /\ l \in DOMAIN t.pages /\ t.pages[l].kind = "leaf" /\ t.pages[t.root].kind \in {"leaf", "inner"}
        /\ t.root \in DOMAIN t.pages /\ r \notin Leaves(E) /\ r # t.root /\ r # l
    <2>1. /\ \A f \in E : f[2] \in DOMAIN t.pages /\ t.pages[f[2]].kind = "leaf"
          /\ t.pages[t.root].kind \in {"leaf", "inner"} /\ t.root \in DOMAIN t.pages
      BY <1>1, InUse DEF EntriesOf, Sound
    <2>2. r \in DOMAIN t.pages => t.pages[r].kind = "free"
      BY <1>8 DEF Free
    <2>3. \A f \in E : f[2] # r
      BY <2>1, <2>2
    <2> QED BY <2>1, <2>2, <2>3 DEF Leaves
  <1>10. /\ a \in Tree /\ a.pages \in Seq(Page) /\ DOMAIN t.pages \subseteq DOMAIN a.pages
         /\ r \in DOMAIN a.pages /\ r \in Nat
         /\ DOMAIN a.pages = 1..Len(a.pages)
    <2>1. a \in Tree /\ t \in Tree /\ \A p \in DOMAIN a.pages : p \in Nat
      BY <1>8, KeptTree
    <2>2. DOMAIN t.pages = 1..Len(t.pages) /\ DOMAIN a.pages = 1..Len(a.pages)
          /\ Len(a.pages) \in Nat /\ Len(t.pages) \in Nat
      BY <2>1 DEF Tree
    <2> QED BY <1>8, <2>1, <2>2 DEF Tree, Spare
  <1>11. Leaf(A) \in Page /\ Leaf(B) \in Page /\ Leaf(A).kind = "leaf" /\ Leaf(A).kids = {}
         /\ Leaf(A) # Free /\ Leaf(B) # Free
    BY <1>6, LeafIsPage
  <1>12. /\ Q \in Seq(Page) /\ Len(Q) = Len(a.pages) /\ DOMAIN Q = DOMAIN a.pages
         /\ Q[l] = Leaf(A) /\ Q[r] = Leaf(B)
         /\ \A p \in DOMAIN a.pages : p # l /\ p # r => Q[p] = a.pages[p]
    <2> DEFINE R == [a.pages EXCEPT ![l] = Leaf(A)]
    <2>1. /\ R \in Seq(Page) /\ Len(R) = Len(a.pages) /\ DOMAIN R = DOMAIN a.pages
          /\ R[l] = Leaf(A) /\ \A p \in DOMAIN a.pages : p # l => R[p] = a.pages[p]
      BY <1>9, <1>10, <1>11, PagePut
    <2> HIDE DEF R
    <2>2. /\ [R EXCEPT ![r] = Leaf(B)] \in Seq(Page)
          /\ Len([R EXCEPT ![r] = Leaf(B)]) = Len(R) /\ DOMAIN [R EXCEPT ![r] = Leaf(B)] = DOMAIN R
          /\ [R EXCEPT ![r] = Leaf(B)][r] = Leaf(B)
          /\ \A p \in DOMAIN R : p # r => [R EXCEPT ![r] = Leaf(B)][p] = R[p]
      BY <1>10, <1>11, <2>1, PagePut
    <2>3. Q = [R EXCEPT ![r] = Leaf(B)]
      BY DEF R
    <2> HIDE DEF Q
    <2> QED BY <1>9, <1>10, <2>1, <2>2, <2>3
  <1>13. h = [a EXCEPT !.pages = Q]
    BY <1>10 DEF Tree
  <1>14. /\ h \in Tree /\ h.pages = Q /\ h.root = t.root /\ h.disk = a.disk /\ h.free = a.free
    <2> HIDE DEF Q, h
    <2> QED BY <1>8, <1>10, <1>12, <1>13 DEF Tree
  <1>15. \A p \in Range(a.free) : Q[p] = Free /\ p \in DOMAIN a.pages
    <2>1. \A p \in Range(a.free) : p \in DOMAIN a.pages /\ a.pages[p] = Free
      BY <1>8 DEF Kept, Stored
    <2>2. a.pages[l] # Free
      BY <1>8, <1>9 DEF Free
    <2> HIDE DEF Q
    <2> QED BY <1>8, <1>12, <2>1, <2>2 DEF Spare
  <1>16. \A X : /\ \A p \in DOMAIN Q : p \in {f[2] : f \in E} \cup {r} => p \in DOMAIN X /\ X[p] = Q[p]
                => Good(X, F) /\ Hold(X, F) = HeldBy(t) \cup {k}
    <2>1. SUFFICES ASSUME NEW X,
                          \A p \in DOMAIN Q : p \in {f[2] : f \in E} \cup {r} => p \in DOMAIN X /\ X[p] = Q[p]
                   PROVE  Good(X, F) /\ Hold(X, F) = HeldBy(t) \cup {k}
      OBVIOUS
    <2> HIDE DEF Q, h, F, E
    <2>2. \A f \in E : f[2] \in DOMAIN t.pages /\ f[2] \in DOMAIN Q
      BY <1>1, <1>10, <1>12 DEF Good
    <2>3. \A f \in E : f[2] \in DOMAIN X /\ X[f[2]] = Q[f[2]]
      BY <2>1, <2>2
    <2>4. r \in DOMAIN X /\ X[r] = Leaf(B) /\ e \in E
      BY <1>10, <1>12, <2>1 DEF E
    <2>5. \A f \in E : f # e => X[f[2]] = t.pages[f[2]]
      BY <1>1, <1>8, <1>9, <1>12, <2>2, <2>3, <2>4 DEF Good, Leaves
    <2>6. X[e[2]] = Leaf(A)
      BY <1>12, <2>3, <2>4
    <2>7. E \subseteq Nat \X DOMAIN X
      BY <1>1, <2>3 DEF Good
    <2>8. IsSplit(t.pages, X, E, e, r, low, A, B)
      BY <1>1, <1>4, <1>5, <1>6, <1>7, <1>9, <2>4, <2>5, <2>6, <2>7 DEF IsSplit
    <2> DEFINE P == t.pages
    <2>9. IsSplit(P, X, E, e, r, low, A, B)
      BY <2>8
    <2> HIDE DEF P
    <2>10. IsSplitWell(P, X, E, e, r, low, A, B)
      BY <2>9, LeafSplits
    <2>11. S \subseteq HeldBy(t)
      BY <2>4, InHold DEF HeldBy, E
    <2> QED BY <1>6, <2>10, <2>11 DEF HeldBy, E, F, all, P, IsSplitWell
  <1>17. F \in SUBSET (Nat \X Nat)
    BY <1>1, <1>7, <1>10, KeptTree DEF Good
  <1>18. /\ splitLeafAndInsert(t, k) =
              IF l = t.root THEN createNewRoot(h, l, low, r)
              ELSE [h EXCEPT !.pages[ParentOf(t, k)].kids = @ \cup {n}]
    BY <1>2 DEF splitLeafAndInsert, a, r, low, A, B, all
  <1>19. CASE t.pages[t.root].kind = "inner"
    <2> DEFINE u == splitLeafAndInsert(t, k)
               X == [Q EXCEPT ![t.root] = Inner(F)]
    <2>1. ParentOf(t, k) = t.root /\ l # t.root
      BY <1>1, <1>9, <1>19, ParentIs
    <2>2. t.pages[t.root].kids = E /\ t.pages[t.root].keys = {}
      BY <1>1, <1>19 DEF EntriesOf, Entries, Sound
    <2>3. Q[t.root] = t.pages[t.root] /\ t.root \in DOMAIN Q /\ t.root \in DOMAIN a.pages
      BY <1>8, <1>9, <1>10, <1>12, <2>1
    <2> HIDE DEF Q, h
    <2>4. u = [h EXCEPT !.pages[t.root].kids = F]
      <3>1. u = [h EXCEPT !.pages[t.root].kids = @ \cup {n}]
        BY <1>18, <2>1
      <3>2. h.pages[t.root].kids = E
        BY <1>14, <2>2, <2>3
      <3> QED BY <1>14, <3>1, <3>2 DEF Tree
    <2>5. [Q[t.root] EXCEPT !.kids = F] = Inner(F)
      <3>1. Q[t.root] \in Page
        BY <1>12, <2>3
      <3> QED BY <1>19, <2>2, <2>3, <3>1, InnerWithKids
    <2> HIDE DEF u
    <2>6. u = With(a, X, t.root)
      <3> HIDE DEF F
      <3>1. u = [h EXCEPT !.pages = X]
        BY <1>14, <2>4, <2>5 DEF Tree
      <3> HIDE DEF X
      <3>2. u = [a EXCEPT !.pages = X]
        BY <1>10, <1>13, <3>1 DEF Tree
      <3> QED BY <1>8, <1>10, <3>2 DEF Tree, With
    <2>7. Inner(F) \in Page
      BY <1>17, InnerIsPage
    <2>8. /\ X \in Seq(Page) /\ Len(X) = Len(Q) /\ DOMAIN X = DOMAIN Q /\ X[t.root] = Inner(F)
          /\ \A p \in DOMAIN Q : p # t.root => X[p] = Q[p]
      <3> HIDE DEF F
      <3> QED BY <1>12, <2>3, <2>7, PagePut
    <2> HIDE DEF X
    <2>9. Good(X, F) /\ Hold(X, F) = HeldBy(t) \cup {k}
      <3>1. \A p \in {f[2] : f \in E} \cup {r} : p # t.root
        BY <1>9, <1>1, <1>19, InUse DEF EntriesOf
      <3> HIDE DEF E, F
      <3> QED BY <1>16, <2>8, <3>1
    <2>10. \A p \in Range(a.free) : X[p] = Free
      <3>1. Q[t.root] # Free
        BY <1>19, <2>3 DEF Free
      <3> QED BY <1>12, <1>15, <2>8, <3>1
    <2>11. Kept(u) /\ EntriesOf(u) = F /\ HeldBy(u) = Hold(X, F) /\ u.pages = X
      <3> HIDE DEF F
      <3> QED BY <1>8, <1>12, <2>3, <2>6, <2>8, <2>9, <2>10, EntriesChange
    <2>12. Leaves(E) \subseteq Leaves(EntriesOf(u))
      BY <2>11 DEF Leaves
    <2> HIDE DEF F
    <2> QED BY <1>8, <1>12, <2>8, <2>9, <2>11, <2>12 DEF Does, u
  <1>20. CASE t.pages[t.root].kind = "leaf"
    <2> DEFINE u == splitLeafAndInsert(t, k)
               b == allocatePage(h)
               m == NewPage(h)
               X == [b.pages EXCEPT ![m] = Inner(F)]
    <2>1. E = {<<0, t.root>>} /\ e = <<0, t.root>> /\ l = t.root
      BY <1>20 DEF EntriesOf, Entries
    <2>2. F = {<<0, l>>, <<low, r>>}
      BY <2>1
    <2>3. u = [b EXCEPT !.pages[m] = Inner(F), !.root = m]
      BY <1>18, <2>1, <2>2 DEF createNewRoot
    <2> HIDE DEF h, Q
    <2>4. Kept(h)
      <3>1. h = With(a, Q, t.root)
        BY <1>8, <1>10, <1>13 DEF Tree, With
      <3>2. Stored(a) /\ t.root \in Nat
        BY <1>8, <1>10 DEF Kept, Tree
      <3>3. Stored(h)
        BY <1>12, <1>15, <3>1, <3>2, StaysStored
      <3>4. Q[t.root] = Leaf(A)
        BY <1>12, <2>1
      <3>5. Entries(Q, t.root) = E
        BY <1>11, <2>1, <3>4 DEF Entries
      <3>6. LeafFor(Q, E, e)
        <4>1. Q[e[2]].kind = "leaf" /\ Q[e[2]].kids = {} /\ Q[e[2]].keys = A
          BY <2>1, <3>4 DEF Leaf
        <4>2. \A x \in A : Below(E, e, x)
          BY <1>4, <1>5
        <4> HIDE DEF E
        <4> QED BY <1>6, <4>1, <4>2 DEF LeafFor
      <3>7. Good(Q, E)
        <4>1. E \subseteq Nat \X DOMAIN Q /\ IsFiniteSet(E)
          BY <1>1, <1>10, <1>12 DEF Good
        <4> QED BY <2>1, <3>6, <4>1 DEF Good
      <3>8. Sound(Q, t.root)
        BY <1>9, <1>10, <1>11, <1>12, <3>4, <3>5, <3>7 DEF Sound
      <3> QED BY <1>14, <3>3, <3>8 DEF Kept
    <2>5. /\ Kept(b) /\ Spare(b, m) /\ Len(Q) <= Len(b.pages)
          /\ m \in DOMAIN Q => Q[m] = Free
          /\ \A p \in DOMAIN Q : b.pages[p] = Q[p]
      BY <1>14, <2>4, Allocates
    <2> HIDE DEF u, b, m
    <2>6. /\ b \in Tree /\ b.pages \in Seq(Page) /\ m \in DOMAIN b.pages
          /\ DOMAIN Q \subseteq DOMAIN b.pages /\ m # l /\ m # r
      <3>1. b \in Tree
        BY <2>5 DEF Kept, Stored
      <3>2. b.pages \in Seq(Page) /\ m \in DOMAIN b.pages
        BY <2>5, <3>1 DEF Tree, Spare
      <3>3. DOMAIN Q = 1..Len(Q) /\ DOMAIN b.pages = 1..Len(b.pages) /\ Len(Q) \in Nat /\ Len(b.pages) \in Nat
        BY <1>12, <3>2
      <3>4. DOMAIN Q \subseteq DOMAIN b.pages
        BY <2>5, <3>3
      <3>5. m # l /\ m # r
        BY <1>9, <1>10, <1>11, <1>12, <2>5
      <3> QED BY <3>1, <3>2, <3>4, <3>5
    <2>7. Inner(F) \in Page
      BY <1>17, InnerIsPage
    <2> HIDE DEF F
    <2>8. /\ X \in Seq(Page) /\ Len(X) = Len(b.pages) /\ DOMAIN X = DOMAIN b.pages /\ X[m] = Inner(F)
          /\ \A p \in DOMAIN b.pages : p # m => X[p] = b.pages[p]
      BY <2>6, <2>7, PagePut
    <2>9. u = With(b, X, m)
      <3>1. u = [b EXCEPT !.pages = X, !.root = m]
        BY <2>3, <2>6 DEF Tree
      <3> QED BY <3>1 DEF With
    <2> HIDE DEF X
    <2>10. Good(X, F) /\ Hold(X, F) = HeldBy(t) \cup {k}
      <3>1. \A p \in {f[2] : f \in E} \cup {r} : p # m
        BY <2>1, <2>6
      <3> HIDE DEF E
      <3> QED BY <1>16, <2>5, <2>6, <2>8, <3>1
    <2>11. \A p \in Range(b.free) : X[p] = Free
      BY <2>5, <2>8 DEF Kept, Stored, Spare
    <2>12. Kept(u) /\ EntriesOf(u) = F /\ HeldBy(u) = Hold(X, F) /\ u.pages = X
      BY <2>5, <2>6, <2>8, <2>9, <2>10, <2>11, EntriesChange
    <2>13. Leaves(E) \subseteq Leaves(EntriesOf(u))
      BY <2>12 DEF Leaves, F
    <2>14. Len(t.pages) <= Len(u.pages)
      <3>1. Len(t.pages) \in Nat /\ Len(a.pages) \in Nat /\ Len(Q) \in Nat /\ Len(b.pages) \in Nat
        <4>1. t \in Tree
          BY KeptTree
        <4> QED BY <1>10, <1>12, <2>6, <4>1 DEF Tree
      <3> QED BY <1>8, <1>12, <2>5, <2>8, <2>12, <3>1
    <2> QED BY <2>10, <2>12, <2>13, <2>14 DEF Does, u
  <1> QED BY <1>9, <1>19, <1>20

LEMMA NothingDone ==
  ASSUME NEW t, Kept(t)
  PROVE  Does(t, t, HeldBy(t))
  <1>1. Len(t.pages) \in Nat
    <2>1. t \in Tree
      BY KeptTree
    <2> QED BY <2>1 DEF Tree
  <1> QED BY <1>1 DEF Does

LEMMA InsertDoes ==
  ASSUME NEW t, Kept(t), NEW k \in Keys
  PROVE  Does(t, insert(t, k), HeldBy(t) \cup {k})
  <1> DEFINE E == EntriesOf(t)
             l == LeafOf(t, k)
             S == t.pages[l].keys
  <1>1. k \in Nat /\ Sound(t.pages, t.root) /\ Good(t.pages, E)
    BY KeptTree, TreePagesAssumption DEF Kept
  <1>2. PICK e \in E : Below(E, e, k)
    <2> HIDE DEF E
    <2> QED BY <1>1, OneBelow
  <1>3. l = e[2] /\ Found(t, k)
    BY <1>1, <1>2, LeafIs DEF EntriesOf
  <1>4. S \subseteq Keys /\ IsFiniteSet(S) /\ \A x \in S : Below(E, e, x)
    BY <1>1, <1>3 DEF Good, LeafFor
  <1>5. S \subseteq HeldBy(t)
    BY <1>3, InHold DEF HeldBy
  <1>6. CASE k \in S
    <2>1. insert(t, k) = t
      BY <1>6 DEF insert
    <2>2. HeldBy(t) \cup {k} = HeldBy(t)
      BY <1>5, <1>6
    <2> QED BY <2>1, <2>2, NothingDone
  <1>7. CASE k \notin S /\ Cardinality(S) < LeafCap
    <2> DEFINE T == S \cup {k}
               u == [t EXCEPT !.pages[e[2]].keys = T]
    <2>1. insert(t, k) = u
      BY <1>3, <1>7 DEF insert
    <2>2. T \subseteq Keys /\ IsFiniteSet(T) /\ \A x \in T : Below(E, e, x)
      <3>1. IsFiniteSet(T)
        BY <1>4, FS_AddElement
      <3> QED BY <1>2, <1>4, <3>1
    <2> HIDE DEF T
    <2>3. /\ Kept(u) /\ Len(u.pages) = Len(t.pages) /\ EntriesOf(u) = EntriesOf(t)
          /\ HeldBy(u) = (HeldBy(t) \ t.pages[e[2]].keys) \cup T
      BY <2>2, KeysChange
    <2> HIDE DEF u
    <2>4. HeldBy(u) = HeldBy(t) \cup {k}
      BY <1>3, <1>5, <2>3 DEF T
    <2>5. Len(t.pages) \in Nat
      <3>1. t \in Tree
        BY KeptTree
      <3> QED BY <3>1 DEF Tree
    <2> QED BY <2>1, <2>3, <2>4, <2>5 DEF Does
  <1>8. CASE k \notin S /\ ~(Cardinality(S) < LeafCap)
    <2>1. insert(t, k) = splitLeafAndInsert(t, k)
      BY <1>3, <1>8 DEF insert
    <2>2. Cardinality(S \cup {k}) >= 2
      <3> HIDE DEF S
      <3>1. Cardinality(S) \in Nat /\ Cardinality(S \cup {k}) = Cardinality(S) + 1
        BY <1>4, <1>8, FS_AddElement, FS_CardinalityType
      <3> QED BY <1>8, <3>1, TreePagesAssumption
    <2> QED BY <1>2, <1>3, <2>1, <2>2, SplitDoes
  <1> QED BY <1>6, <1>7, <1>8

-----------------------------------------------------------------------------
(* Deletions.                                                              *)

\* A merge, and the collapse of a root that has one child left.
LEMMA MergeDoes ==
  ASSUME NEW t, Kept(t), t.pages[t.root].kind = "inner",
         NEW b \in EntriesOf(t), NEW c \in EntriesOf(t), b[1] < c[1],
         \A f \in EntriesOf(t) : f[1] <= b[1] \/ c[1] <= f[1]
  PROVE  LET m == mergeLeaf(t, t.root, b, c)
         IN  Does(t, m, HeldBy(t)) /\ Does(t, collapseRootIfEmpty(m), HeldBy(t))
  <1> DEFINE E == EntriesOf(t)
             P == t.pages
             S == P[b[2]].keys \cup P[c[2]].keys
             F == E \ {c}
             Q == [[P EXCEPT ![b[2]] = Leaf(S)] EXCEPT ![t.root] = Inner(F)]
             w == With(t, Q, t.root)
             m == mergeLeaf(t, t.root, b, c)
  <1>1. /\ t \in Tree /\ t.root \in DOMAIN P /\ Good(P, E) /\ E = P[t.root].kids
        /\ \A e \in E : e[2] \in DOMAIN P /\ P[e[2]].kind = "leaf"
    BY KeptTree
  <1>2. P \in Seq(Page) /\ P[t.root].keys = {} /\ t.root \in Nat
    BY <1>1 DEF Tree, Kept, Sound
  <1>3. b # c /\ b[2] # c[2] /\ b[2] # t.root /\ c[2] # t.root
    <2>1. b[1] \in Nat /\ c[1] \in Nat
      BY <1>1 DEF Good
    <2> QED BY <1>1, <2>1 DEF Good
  <1>4. LeafFor(P, E, b) /\ LeafFor(P, E, c) /\ S \subseteq Keys /\ P[b[2]].kids = {}
    BY <1>1 DEF Good, LeafFor
  <1>5. Leaf(S) \in Page /\ Leaf(S) # Free
    BY <1>4, LeafIsPage
  <1>6. F \in SUBSET (Nat \X Nat) /\ Inner(F) \in Page /\ Inner(F) # Free
    <2>1. F \in SUBSET (Nat \X Nat)
      BY <1>1, KeptTree DEF Good
    <2> HIDE DEF F
    <2> QED BY <2>1, InnerIsPage
  <1>7. /\ Q \in Seq(Page) /\ Len(Q) = Len(P) /\ DOMAIN Q = DOMAIN P
        /\ Q[b[2]] = Leaf(S) /\ Q[t.root] = Inner(F)
        /\ \A p \in DOMAIN P : p # b[2] /\ p # t.root => Q[p] = P[p]
    <2> DEFINE R == [P EXCEPT ![b[2]] = Leaf(S)]
    <2>1. /\ R \in Seq(Page) /\ Len(R) = Len(P) /\ DOMAIN R = DOMAIN P
          /\ R[b[2]] = Leaf(S) /\ \A p \in DOMAIN P : p # b[2] => R[p] = P[p]
      <3> HIDE DEF P, S
      <3> QED BY <1>1, <1>2, <1>5, PagePut
    <2>2. Q = [R EXCEPT ![t.root] = Inner(F)]
      OBVIOUS
    <2> HIDE DEF R, F, P, S, Q
    <2>3. /\ [R EXCEPT ![t.root] = Inner(F)] \in Seq(Page)
          /\ Len([R EXCEPT ![t.root] = Inner(F)]) = Len(R)
          /\ DOMAIN [R EXCEPT ![t.root] = Inner(F)] = DOMAIN R
          /\ [R EXCEPT ![t.root] = Inner(F)][t.root] = Inner(F)
          /\ \A p \in DOMAIN R : p # t.root => [R EXCEPT ![t.root] = Inner(F)][p] = R[p]
      BY <1>1, <1>6, <2>1, PagePut
    <2> QED BY <1>1, <1>3, <2>1, <2>2, <2>3
  <1> HIDE DEF Q
  <1>8. Good(Q, F) /\ Hold(Q, F) = HeldBy(t)
    <2>1. \A f \in E : f # b /\ f # c => Q[f[2]] = P[f[2]]
      BY <1>1, <1>7 DEF Good
    <2>2. E \ {c} \subseteq Nat \X DOMAIN Q
      BY <1>1, <1>7 DEF Good
    <2>3. Hold(P, E) = HeldBy(t)
      BY DEF HeldBy
    <2>4. Q[b[2]] = Leaf(P[b[2]].keys \cup P[c[2]].keys)
      BY <1>7
    <2>5. \A f \in E : f[1] <= b[1] \/ c[1] <= f[1]
      OBVIOUS
    <2>6. Good(P, E) /\ b \in E /\ c \in E /\ b[1] < c[1]
      BY <1>1
    <2> HIDE DEF P, E
    <2>7. Good(Q, E \ {c}) /\ Hold(Q, E \ {c}) = Hold(P, E)
      BY <2>1, <2>2, <2>4, <2>5, <2>6, LeavesMerge
    <2> QED BY <2>3, <2>7
  <1>9. \A p \in Range(t.free) : Q[p] = Free
    BY <1>1, <1>7 DEF Kept, Stored, Free
  <1>10. /\ Kept(w) /\ w.pages = Q /\ w.root = t.root /\ w.disk = t.disk /\ w.free = t.free
         /\ EntriesOf(w) = F /\ HeldBy(w) = HeldBy(t)
    <2> HIDE DEF F
    <2> QED BY <1>1, <1>7, <1>8, <1>9, EntriesChange
  <1>11. m = markPageFreeInPlace(w, c[2])
    <2> DEFINE v == [t EXCEPT !.pages[b[2]].keys = @ \cup P[c[2]].keys,
                              !.pages[t.root].kids = @ \ {c}]
    <2>1. m = markPageFreeInPlace(v, c[2])
      BY DEF mergeLeaf
    <2>2. [P[b[2]] EXCEPT !.keys = S] = Leaf(S)
      <3>1. P[b[2]] \in Page /\ P[b[2]].kind = "leaf" /\ P[b[2]].kids = {}
        BY <1>1, <1>2, <1>4
      <3> HIDE DEF P, S
      <3> QED BY <3>1, LeafWithKeys
    <2>3. [P[t.root] EXCEPT !.kids = F] = Inner(F)
      <3>1. P[t.root] \in Page
        BY <1>1, <1>2
      <3> HIDE DEF F, P
      <3>2. P[t.root].kind = "inner"
        BY DEF P
      <3> QED BY <1>2, <3>1, <3>2, InnerWithKids
    <2>4. v.pages = Q
      BY <1>1, <1>2, <1>3, <2>2, <2>3 DEF Tree, Q
    <2>5. v = [t EXCEPT !.pages = Q]
      BY <1>1, <2>4 DEF Tree
    <2>6. v = w
      <3> HIDE DEF v
      <3> QED BY <1>1, <2>5 DEF Tree, With
    <2> QED BY <2>1, <2>6
  <1> HIDE DEF w, m
  <1>12. c[2] \in DOMAIN w.pages /\ c[2] \notin Range(w.free) /\ c[2] # w.root
         /\ c[2] \notin Leaves(EntriesOf(w))
    <2>1. c[2] \notin Range(t.free)
      BY <1>1 DEF Kept, Stored, Free
    <2>2. \A f \in F : f[2] # c[2]
      BY <1>1 DEF Good
    <2> QED BY <1>1, <1>3, <1>7, <1>10, <2>1, <2>2 DEF Leaves
  <1>13. /\ Kept(m) /\ m.root = t.root /\ Len(m.pages) = Len(P)
         /\ EntriesOf(m) = F /\ HeldBy(m) = HeldBy(t)
         /\ m.disk[c[2]] = Free /\ c[2] \in DOMAIN m.pages
         /\ m.pages[m.root].kind = "inner"
    <2>1. /\ Kept(m) /\ m.root = w.root /\ Len(m.pages) = Len(w.pages)
          /\ EntriesOf(m) = EntriesOf(w) /\ HeldBy(m) = HeldBy(w)
          /\ m.disk[c[2]] = Free
      BY <1>10, <1>11, <1>12, FreesPage
    <2>2. m.pages[m.root].kind = "inner"
      <3>1. m.pages[t.root] = w.pages[t.root]
        BY <1>1, <1>7, <1>10, <1>11, <1>12 DEF markPageFreeInPlace, Kept, Stored, Tree
      <3> QED BY <1>7, <1>10, <2>1, <3>1 DEF Inner
    <2>3. m \in Tree /\ Len(m.pages) = Len(P)
      BY <1>7, <1>10, <2>1, KeptTree
    <2>4. DOMAIN m.pages = DOMAIN P
      BY <1>1, <2>3 DEF Tree
    <2> QED BY <1>1, <1>7, <1>10, <2>1, <2>2, <2>4
  <1>14. Len(P) \in Nat
    BY <1>2
  <1>15. \A p \in Leaves(E) : p \in Leaves(F) \/ p = c[2]
    BY DEF Leaves
  <1>16. Does(t, m, HeldBy(t))
    <2>1. \A p \in Leaves(EntriesOf(t)) : p \in Leaves(EntriesOf(m)) \/ m.disk[p] = Free
      <3> HIDE DEF F
      <3> QED BY <1>13, <1>15
    <2>2. Len(t.pages) <= Len(m.pages)
      BY <1>13, <1>14
    <2> QED BY <1>13, <2>1, <2>2 DEF Does
  <1>17. Does(t, collapseRootIfEmpty(m), HeldBy(t))
    <2> DEFINE kids == m.pages[m.root].kids
    <2>1. CASE Cardinality(kids) # 1
      BY <1>16, <2>1 DEF collapseRootIfEmpty
    <2>2. CASE Cardinality(kids) = 1
      <3>1. kids = F
        BY <1>13, KeptTree
      <3>2. IsFiniteSet(F)
        BY <1>8 DEF Good
      <3>3. PICK d : kids = {d}
        <4> HIDE DEF F, kids
        <4> QED BY <2>2, <3>1, <3>2, FS_Singleton
      <3>4. (CHOOSE e \in kids : TRUE) = d
        BY <3>3
      <3> DEFINE v == [m EXCEPT !.root = d[2]]
                 u == markPageFreeInPlace(v, m.root)
      <3>5. collapseRootIfEmpty(m) = u
        BY <2>2, <3>4 DEF collapseRootIfEmpty
      <3>6. /\ Kept(v) /\ v.pages = m.pages /\ v.disk = m.disk /\ v.free = m.free /\ v.root = d[2]
            /\ EntriesOf(v) = F /\ HeldBy(v) = HeldBy(t) /\ m.root # d[2]
        <4> HIDE DEF F
        <4> QED BY <1>13, <3>3, RootMoves
      <3> HIDE DEF v
      <3>7. m.root \in DOMAIN v.pages /\ m.root \notin Range(v.free) /\ m.root \notin Leaves(EntriesOf(v))
        <4>1. m.root \in DOMAIN m.pages
          BY <1>13, KeptTree
        <4>2. m.root \notin Range(m.free)
          BY <1>13 DEF Kept, Stored, Free
        <4>3. \A f \in EntriesOf(m) : m.pages[f[2]].kind = "leaf"
          BY <1>13, KeptTree
        <4> QED BY <1>13, <3>6, <4>1, <4>2, <4>3 DEF Leaves
      <3>8. /\ Kept(u) /\ Len(u.pages) = Len(v.pages) /\ EntriesOf(u) = EntriesOf(v)
            /\ HeldBy(u) = HeldBy(v)
            /\ \A q \in DOMAIN v.pages : q # m.root => u.disk[q] = v.disk[q]
        BY <3>6, <3>7, FreesPage
      <3> HIDE DEF u
      <3>9. u.disk[c[2]] = Free
        BY <1>3, <1>13, <3>6, <3>8
      <3>10. \A p \in Leaves(EntriesOf(t)) : p \in Leaves(EntriesOf(u)) \/ u.disk[p] = Free
        <4> HIDE DEF F
        <4> QED BY <1>15, <3>6, <3>8, <3>9
      <3>11. Len(t.pages) <= Len(u.pages)
        BY <1>13, <1>14, <3>6, <3>8
      <3>12. Kept(u) /\ HeldBy(u) = HeldBy(t)
        BY <3>6, <3>8
      <3> QED BY <3>5, <3>10, <3>11, <3>12 DEF Does
    <2> QED BY <2>1, <2>2
  <1> QED BY <1>16, <1>17 DEF m

\* A redistribution gives the parent the new separator.
LEMMA RedistributionDoes ==
  ASSUME NEW t, Kept(t), t.pages[t.root].kind = "inner",
         NEW b \in EntriesOf(t), NEW c \in EntriesOf(t), b[1] < c[1],
         \A f \in EntriesOf(t) : f[1] <= b[1] \/ c[1] <= f[1],
         Cardinality(t.pages[b[2]].keys) + Cardinality(t.pages[c[2]].keys) >= 2
  PROVE  Does(t, redistributeLeaves(t, t.root, b, c), HeldBy(t))
  <1> DEFINE E == EntriesOf(t)
             P == t.pages
             S == P[b[2]].keys
             T == P[c[2]].keys
             all == S \cup T
             A == Lower(all)
             B == all \ A
             low == Min(B)
             n == <<low, c[2]>>
             F == (E \ {c}) \cup {n}
             R == [P EXCEPT ![b[2]] = Leaf(A)]
             U == [R EXCEPT ![c[2]] = Leaf(B)]
             Q == [U EXCEPT ![t.root] = Inner(F)]
             u == With(t, Q, t.root)
  <1>1. /\ t \in Tree /\ t.root \in DOMAIN P /\ Good(P, E) /\ E = P[t.root].kids
        /\ \A e \in E : e[2] \in DOMAIN P /\ P[e[2]].kind = "leaf"
    BY KeptTree
  <1>2. P \in Seq(Page) /\ P[t.root].keys = {} /\ t.root \in Nat
    BY <1>1 DEF Tree, Kept, Sound
  <1>3. b # c /\ b[2] # c[2] /\ b[2] # t.root /\ c[2] # t.root
    <2>1. b[1] \in Nat /\ c[1] \in Nat
      BY <1>1 DEF Good
    <2> QED BY <1>1, <2>1 DEF Good
  <1>4. /\ S \subseteq Keys /\ IsFiniteSet(S) /\ T \subseteq Keys /\ IsFiniteSet(T)
    BY <1>1 DEF Good, LeafFor
  <1>5. IsFiniteSet(all) /\ all \subseteq Nat /\ Cardinality(all) >= 2
    <2>1. \A x : ~(x \in S /\ x \in T)
      <3>1. SUFFICES ASSUME NEW x, x \in S, x \in T PROVE FALSE
        OBVIOUS
      <3>2. Good(P, E) /\ b \in E /\ c \in E /\ x \in P[b[2]].keys /\ x \in P[c[2]].keys
        BY <1>1, <3>1
      <3> HIDE DEF P, E
      <3> QED BY <1>3, <3>2, KeyIsOnce
    <2>2. Cardinality(S) + Cardinality(T) >= 2
      OBVIOUS
    <2> HIDE DEF S, T
    <2>3. S \cap T = {}
      BY <2>1
    <2>4. /\ IsFiniteSet(all)
          /\ Cardinality(all) = Cardinality(S) + Cardinality(T) - Cardinality(S \cap T)
      BY <1>4, FS_Union
    <2>5. Cardinality(S \cap T) = 0 /\ Cardinality(S) \in Nat /\ Cardinality(T) \in Nat
      BY <1>4, <2>3, FS_EmptySet, FS_CardinalityType
    <2>6. Cardinality(all) >= 2
      <3> HIDE DEF all
      <3> QED BY <2>2, <2>4, <2>5
    <2> QED BY <1>4, <2>4, <2>6, TreePagesAssumption
  <1>6. /\ A \subseteq all /\ A # {} /\ B # {} /\ \A x \in A, y \in B : x < y
    <2> HIDE DEF all
    <2> QED BY <1>5, LowerSplits
  <1>7. /\ A \subseteq Keys /\ B \subseteq Keys /\ IsFiniteSet(A) /\ IsFiniteSet(B) /\ A \cup B = all
    <2>1. all \subseteq Keys
      BY <1>4
    <2> HIDE DEF all, A
    <2>2. B \subseteq all
      OBVIOUS
    <2> HIDE DEF B
    <2>3. IsFiniteSet(A) /\ IsFiniteSet(B)
      BY <1>5, <1>6, <2>2, FS_Subset
    <2> QED BY <1>6, <2>1, <2>2, <2>3 DEF B
  <1>8. /\ low \in B /\ low \in Nat /\ (\A y \in B : low <= y) /\ \A x \in A : x < low
    <2>1. B \subseteq Nat
      BY <1>5, <1>7
    <2> HIDE DEF B, A
    <2>2. low \in B /\ \A y \in B : low <= y
      BY <1>6, <2>1, MinIs
    <2> QED BY <1>6, <2>1, <2>2
  <1>9. redistributeLeaves(t, t.root, b, c) =
          [t EXCEPT !.pages[b[2]] = Leaf(A), !.pages[c[2]] = Leaf(B),
                    !.pages[t.root].kids = (@ \ {c}) \cup {n}]
    BY DEF redistributeLeaves
  <1> HIDE DEF A, B, low, all
  <1>10. Leaf(A) \in Page /\ Leaf(B) \in Page /\ Leaf(A) # Free /\ Leaf(B) # Free
    BY <1>7, LeafIsPage
  <1>11. F \in SUBSET (Nat \X Nat) /\ Inner(F) \in Page /\ Inner(F) # Free
    <2>1. F \in SUBSET (Nat \X Nat)
      BY <1>1, <1>8, KeptTree DEF Good
    <2> HIDE DEF F
    <2> QED BY <2>1, InnerIsPage
  <1>12. /\ R \in Seq(Page) /\ Len(R) = Len(P) /\ DOMAIN R = DOMAIN P
         /\ R[b[2]] = Leaf(A) /\ \A p \in DOMAIN P : p # b[2] => R[p] = P[p]
    <2> HIDE DEF P
    <2> QED BY <1>1, <1>2, <1>10, PagePut
  <1>13. /\ U \in Seq(Page) /\ Len(U) = Len(R) /\ DOMAIN U = DOMAIN R
         /\ U[c[2]] = Leaf(B) /\ \A p \in DOMAIN R : p # c[2] => U[p] = R[p]
    <2> HIDE DEF R, P
    <2> QED BY <1>1, <1>10, <1>12, PagePut
  <1>14. /\ Q \in Seq(Page) /\ Len(Q) = Len(U) /\ DOMAIN Q = DOMAIN U
         /\ Q[t.root] = Inner(F) /\ \A p \in DOMAIN U : p # t.root => Q[p] = U[p]
    <2> HIDE DEF U, R, P, F
    <2> QED BY <1>1, <1>11, <1>12, <1>13, PagePut
  <1> HIDE DEF Q, U, R
  <1>15. /\ DOMAIN Q = DOMAIN P /\ Len(Q) = Len(P) /\ Q[b[2]] = Leaf(A) /\ Q[c[2]] = Leaf(B)
         /\ \A p \in DOMAIN P : p # b[2] /\ p # c[2] /\ p # t.root => Q[p] = P[p]
    <2>1. b[2] \in DOMAIN P /\ c[2] \in DOMAIN P /\ t.root \in DOMAIN P
      BY <1>1
    <2> HIDE DEF P, F, E
    <2>2. DOMAIN Q = DOMAIN P /\ Len(Q) = Len(P)
      BY <1>12, <1>13, <1>14
    <2>3. Q[c[2]] = Leaf(B)
      BY <1>3, <1>12, <1>13, <1>14, <2>1
    <2>4. Q[b[2]] = Leaf(A)
      BY <1>3, <1>12, <1>13, <1>14, <2>1
    <2>5. \A p \in DOMAIN P : p # b[2] /\ p # c[2] /\ p # t.root => Q[p] = P[p]
      BY <1>12, <1>13, <1>14
    <2> QED BY <2>2, <2>3, <2>4, <2>5
  <1>16. Good(Q, F) /\ Hold(Q, F) = HeldBy(t)
    <2>1. \A f \in E : f # b /\ f # c => Q[f[2]] = P[f[2]]
      BY <1>1, <1>15 DEF Good
    <2>2. E \subseteq Nat \X DOMAIN Q
      BY <1>1, <1>15 DEF Good
    <2>3. Hold(P, E) = HeldBy(t)
      BY DEF HeldBy
    <2>4. A \cup B = P[b[2]].keys \cup P[c[2]].keys
      BY <1>7 DEF all
    <2>5. \A f \in E : f[1] <= b[1] \/ c[1] <= f[1]
      OBVIOUS
    <2>6. Good(P, E) /\ b \in E /\ c \in E /\ b[1] < c[1]
      BY <1>1
    <2> HIDE DEF P, E, S, T
    <2>7. IsShare(P, Q, E, b, c, low, A, B)
      BY <1>6, <1>7, <1>8, <1>15, <2>1, <2>2, <2>4, <2>5, <2>6 DEF IsShare
    <2>8. IsSharedWell(P, Q, E, c, low)
      BY <2>7, LeavesShare
    <2> QED BY <2>3, <2>8 DEF IsSharedWell
  <1>17. \A p \in Range(t.free) : Q[p] = Free
    BY <1>1, <1>15 DEF Kept, Stored, Free
  <1>18. /\ Kept(u) /\ u.pages = Q /\ EntriesOf(u) = F /\ HeldBy(u) = HeldBy(t) /\ u.disk = t.disk
    <2>1. Q \in Seq(Page) /\ Len(Q) = Len(t.pages) /\ t.root \in DOMAIN Q /\ Q[t.root] = Inner(F)
      BY <1>1, <1>12, <1>13, <1>14, <1>15
    <2> HIDE DEF F
    <2> QED BY <1>16, <1>17, <2>1, EntriesChange
  <1>19. redistributeLeaves(t, t.root, b, c) = u
    <2> DEFINE v == redistributeLeaves(t, t.root, b, c)
    <2>1. [P[t.root] EXCEPT !.kids = F] = Inner(F)
      <3>1. P[t.root] \in Page /\ P[t.root].kind = "inner"
        BY <1>1, <1>2
      <3> HIDE DEF F, P
      <3> QED BY <1>2, <3>1, InnerWithKids
    <2>2. v = [t EXCEPT !.pages = Q]
      <3>1. U[t.root] = P[t.root]
        BY <1>1, <1>3, <1>12, <1>13
      <3>2. v = [t EXCEPT !.pages = [U EXCEPT ![t.root].kids = (@ \ {c}) \cup {n}]]
        BY <1>1, <1>9 DEF Tree, U, R
      <3>3. [U[t.root] EXCEPT !.kids = (@ \ {c}) \cup {n}] = Inner(F)
        BY <1>1, <2>1, <3>1
      <3>4. [U EXCEPT ![t.root].kids = (@ \ {c}) \cup {n}] = Q
        BY <3>3 DEF Q
      <3> QED BY <3>2, <3>4
    <2> HIDE DEF v
    <2> QED BY <1>1, <2>2 DEF Tree, With, v
  <1>20. Leaves(E) \subseteq Leaves(F)
    <2>1. n \in F /\ n[2] = c[2]
      OBVIOUS
    <2> QED BY <2>1 DEF Leaves
  <1> HIDE DEF F, u
  <1>21. Len(t.pages) <= Len(u.pages)
    BY <1>2, <1>15, <1>18
  <1> QED BY <1>18, <1>19, <1>20, <1>21 DEF Does

LEMMA DeleteDoes ==
  ASSUME NEW t, Kept(t), NEW k \in Keys
  PROVE  Does(t, delete(t, k), HeldBy(t) \ {k})
  <1> DEFINE E == EntriesOf(t)
             l == LeafOf(t, k)
             S == t.pages[l].keys
             H == HeldBy(t) \ {k}
  <1>1. k \in Nat /\ Sound(t.pages, t.root) /\ Good(t.pages, E)
    BY KeptTree, TreePagesAssumption DEF Kept
  <1>2. PICK e \in E : Below(E, e, k)
    <2> HIDE DEF E
    <2> QED BY <1>1, OneBelow
  <1>3. l = e[2] /\ Found(t, k)
    BY <1>1, <1>2, LeafIs DEF EntriesOf
  <1>4. S \subseteq Keys /\ IsFiniteSet(S) /\ \A x \in S : Below(E, e, x)
    BY <1>1, <1>3 DEF Good, LeafFor
  <1>5. S \subseteq HeldBy(t)
    BY <1>3, InHold DEF HeldBy
  <1>6. CASE k \notin S
    <2>1. delete(t, k) = t
      BY <1>6 DEF delete
    <2>2. k \notin HeldBy(t)
      <3>1. \A f \in E : k \in t.pages[f[2]].keys => f = e
        <4> HIDE DEF E
        <4> QED BY <1>1, <1>2, KeyIsBelow, OneBelow
      <3> QED BY <1>3, <1>6, <3>1, InHold DEF HeldBy
    <2>3. HeldBy(t) \ {k} = HeldBy(t)
      BY <2>2
    <2> QED BY <2>1, <2>3, NothingDone
  <1>7. CASE k \in S
    <2> DEFINE T == S \ {k}
               z == [t EXCEPT !.pages[e[2]].keys = T]
    <2>1. delete(t, k) = IF l = t.root THEN z ELSE rebalanceAfterDelete(z, ParentOf(t, k), l)
      BY <1>3, <1>7 DEF delete
    <2>2. T \subseteq Keys /\ IsFiniteSet(T) /\ \A x \in T : Below(E, e, x)
      <3>1. IsFiniteSet(T)
        BY <1>4, FS_RemoveElement
      <3> QED BY <1>2, <1>4, <3>1
    <2> HIDE DEF T
    <2>3. /\ Kept(z) /\ z.root = t.root /\ Len(z.pages) = Len(t.pages) /\ EntriesOf(z) = E
          /\ HeldBy(z) = (HeldBy(t) \ t.pages[e[2]].keys) \cup T
          /\ \A p \in DOMAIN t.pages : p # e[2] => z.pages[p] = t.pages[p]
      BY <2>2, KeysChange
    <2> HIDE DEF z
    <2>4. HeldBy(z) = H
      <3>1. HeldBy(z) = (HeldBy(t) \ S) \cup T
        BY <1>3, <2>3
      <3> HIDE DEF S
      <3>2. \A x : x \in (HeldBy(t) \ S) \cup T <=> x \in H
        BY <1>5, <1>7 DEF T
      <3> QED BY <3>1, <3>2
    <2>5. \A v : Does(z, v, H) => Does(t, v, H)
      BY <2>3 DEF Does
    <2>6. Does(t, z, H)
      BY <2>3, <2>4, <2>5, NothingDone
    <2>7. CASE l = t.root
      BY <2>1, <2>6, <2>7
    <2>8. CASE l # t.root
      <3>1. /\ t.root \in DOMAIN t.pages
            /\ t.pages[t.root].kind # "inner" => EntriesOf(t) = {<<0, t.root>>}
            /\ Good(z.pages, EntriesOf(z))
            /\ z.pages[z.root].kind = "inner" => EntriesOf(z) = z.pages[z.root].kids
            /\ \A f \in EntriesOf(z) : z.pages[f[2]].kind = "leaf"
        BY <2>3, KeptTree
      <3>2. t.pages[t.root].kind = "inner"
        BY <1>3, <2>8, <3>1
      <3>3. ParentOf(t, k) = t.root
        BY <1>1, <3>2, ParentIs
      <3>4. z.pages[z.root].kind = "inner" /\ z.pages[z.root].kids = E
        BY <1>3, <2>3, <2>8, <3>1, <3>2
      <3> DEFINE b == Siblings(E, l)[1]
                 c == Siblings(E, l)[2]
                 used(p) == Cardinality(z.pages[p].keys)
                 v == rebalanceAfterDelete(z, z.root, l)
      <3>5. v = IF Cardinality(E) = 1 \/ \E f \in {b, c} : z.pages[f[2]].kind # "leaf" THEN z
                ELSE IF used(b[2]) + used(c[2]) <= LeafCap
                     THEN collapseRootIfEmpty(mergeLeaf(z, z.root, b, c))
                ELSE IF 3 * used(l) < LeafCap THEN redistributeLeaves(z, z.root, b, c)
                ELSE z
        <4> HIDE DEF E
        <4> QED BY <3>4 DEF rebalanceAfterDelete
      <3>6. delete(t, k) = v
        BY <2>1, <2>3, <2>8, <3>3
      <3>7. CASE Cardinality(E) = 1
        BY <2>6, <3>5, <3>6, <3>7
      <3>8. CASE Cardinality(E) # 1
        <4>1. E # {e}
          <5>1. Cardinality({e}) = 1
            BY FS_Singleton
          <5> QED BY <3>8, <5>1
        <4>2. /\ b \in E /\ c \in E /\ b[1] < c[1]
              /\ \A f \in E : f[1] <= b[1] \/ c[1] <= f[1]
          <5>1. Good(z.pages, E)
            BY <2>3, <3>1
          <5> HIDE DEF E
          <5>2. /\ Siblings(E, e[2])[1] \in E /\ Siblings(E, e[2])[2] \in E
                /\ Siblings(E, e[2])[1][1] < Siblings(E, e[2])[2][1]
                /\ \A f \in E : f[1] <= Siblings(E, e[2])[1][1] \/ Siblings(E, e[2])[2][1] <= f[1]
            BY <1>2, <4>1, <5>1, Neighbours
          <5> QED BY <1>3, <5>2
        <4> HIDE DEF b, c, v
        <4>3. b \in EntriesOf(z) /\ c \in EntriesOf(z)
              /\ \A f \in EntriesOf(z) : f[1] <= b[1] \/ c[1] <= f[1]
          BY <2>3, <4>2
        <4>4. Does(z, collapseRootIfEmpty(mergeLeaf(z, z.root, b, c)), H)
          <5>1. Kept(z) /\ z.pages[z.root].kind = "inner" /\ b[1] < c[1]
            BY <2>3, <3>4, <4>2
          <5>2. Does(z, collapseRootIfEmpty(mergeLeaf(z, z.root, b, c)), HeldBy(z))
            BY <4>3, <5>1, MergeDoes
          <5> QED BY <2>4, <5>2
        <4>5. ASSUME ~(used(b[2]) + used(c[2]) <= LeafCap)
              PROVE  Does(z, redistributeLeaves(z, z.root, b, c), H)
          <5>1. used(b[2]) \in Nat /\ used(c[2]) \in Nat
            <6>1. IsFiniteSet(z.pages[b[2]].keys) /\ IsFiniteSet(z.pages[c[2]].keys)
              BY <3>1, <4>3 DEF Good, LeafFor
            <6> QED BY <6>1, FS_CardinalityType
          <5> HIDE DEF used
          <5>2. used(b[2]) + used(c[2]) >= 2
            BY <4>5, <5>1, TreePagesAssumption
          <5>3. Cardinality(z.pages[b[2]].keys) + Cardinality(z.pages[c[2]].keys) >= 2
            BY <5>2 DEF used
          <5>4. Kept(z) /\ z.pages[z.root].kind = "inner" /\ b[1] < c[1]
            BY <2>3, <3>4, <4>2
          <5>5. Does(z, redistributeLeaves(z, z.root, b, c), HeldBy(z))
            BY <4>3, <5>3, <5>4, RedistributionDoes
          <5> QED BY <2>4, <5>5
        <4>6. v = z \/ v = collapseRootIfEmpty(mergeLeaf(z, z.root, b, c))
              \/ (v = redistributeLeaves(z, z.root, b, c) /\ ~(used(b[2]) + used(c[2]) <= LeafCap))
          BY <3>5
        <4> QED BY <2>5, <2>6, <3>6, <4>4, <4>5, <4>6
      <3> QED BY <3>7, <3>8
    <2> QED BY <2>7, <2>8
  <1> QED BY <1>6, <1>7

LEMMA ApplyDoes ==
  ASSUME NEW t, Kept(t), NEW e \in Op
  PROVE  Does(t, Apply(t, e), IF e.op = "insert" THEN HeldBy(t) \cup {e.key}
                              ELSE HeldBy(t) \ {e.key})
  <1>1. e.key \in Keys
    BY DEF Op
  <1> QED BY <1>1, InsertDoes, DeleteDoes DEF Apply

-----------------------------------------------------------------------------
(* Steps.                                                                  *)

LEMMA DomainOf ==
  ASSUME NEW S \in Seq(Page)
  PROVE  DOMAIN S = 1..Len(S) /\ Len(S) \in Nat
  OBVIOUS

\* An operation leaves the tree in the file alone, unless it frees a page.
LEMMA Applied ==
  ASSUME TInv, FInv, NEW e \in Op, tree' = Apply(tree, e), header' = header,
         exposed' = exposed \cup Merged(tree, tree')
  PROVE  /\ Kept(tree') /\ header \in DOMAIN tree'.pages
         /\ HeldBy(tree') = IF e.op = "insert" THEN HeldBy(tree) \cup {e.key}
                            ELSE HeldBy(tree) \ {e.key}
         /\ FInv'
         /\ exposed' \subseteq {"young", "saved", "merge", "evict", "roots"}
         /\ exposed' = {} => /\ exposed = {}
                             /\ Hold(tree'.disk, File') = Hold(tree.disk, File)
  <1> DEFINE u == Apply(tree, e)
             H == IF e.op = "insert" THEN HeldBy(tree) \cup {e.key} ELSE HeldBy(tree) \ {e.key}
  <1>1. Kept(tree) /\ header \in DOMAIN tree.pages
    BY DEF TInv
  <1>2. Does(tree, u, H)
    BY <1>1, ApplyDoes
  <1> HIDE DEF H
  <1>3. /\ Kept(u) /\ HeldBy(u) = H /\ Len(tree.pages) <= Len(u.pages)
        /\ \A p \in Leaves(EntriesOf(tree)) : p \in Leaves(EntriesOf(u)) \/ u.disk[p] = Free
    BY <1>2 DEF Does
  <1> HIDE DEF u
  <1>4. DOMAIN tree.disk \subseteq DOMAIN u.disk /\ header \in DOMAIN tree.disk /\ header \in DOMAIN u.pages
    <2>1. /\ tree.pages \in Seq(Page) /\ u.pages \in Seq(Page)
          /\ DOMAIN tree.disk = DOMAIN tree.pages /\ DOMAIN u.disk = DOMAIN u.pages
      BY <1>1, <1>3, KeptTree DEF Tree
    <2>2. DOMAIN tree.pages \subseteq DOMAIN u.pages
      BY <1>3, <2>1, DomainOf
    <2> QED BY <1>1, <2>1, <2>2
  <1>5. exposed' \subseteq {"young", "saved", "merge", "evict", "roots"}
    BY DEF TInv, Merged
  <1>6. ASSUME exposed' = {}
        PROVE  /\ exposed = {} /\ Sound(u.disk, header)
               /\ Entries(u.disk, header) = File
               /\ Hold(u.disk, Entries(u.disk, header)) = Hold(tree.disk, File)
               /\ Leaves(File) \subseteq Leaves(EntriesOf(u))
    <2>1. exposed = {} /\ \A p \in DOMAIN tree.disk : u.disk[p] = tree.disk[p]
      BY <1>6 DEF Merged, u
    <2>2. Sound(tree.disk, header) /\ Leaves(File) \subseteq Leaves(EntriesOf(tree))
      BY <2>1 DEF FInv
    <2>3. \A p \in Leaves(File) : p \in DOMAIN tree.disk /\ tree.disk[p].kind = "leaf"
      BY <2>2, InUse DEF Leaves, File
    <2>4. /\ Sound(u.disk, header) /\ Entries(u.disk, header) = File
          /\ Hold(u.disk, Entries(u.disk, header)) = Hold(tree.disk, File)
      <3> DEFINE P == tree.disk
                 Q == u.disk
                 r == header
      <3>1. Sound(P, r) /\ \A p \in {r} \cup Leaves(Entries(P, r)) : p \in DOMAIN Q /\ Q[p] = P[p]
        BY <1>4, <2>1, <2>2, <2>3 DEF File
      <3>2. File = Entries(P, r)
        BY DEF File
      <3> HIDE DEF P, Q, r
      <3>3. /\ Sound(Q, r) /\ Entries(Q, r) = Entries(P, r)
            /\ Hold(Q, Entries(Q, r)) = Hold(P, Entries(P, r))
        BY <3>1, SoundAgrees
      <3> QED BY <3>2, <3>3 DEF P, Q, r
    <2>5. Leaves(File) \subseteq Leaves(EntriesOf(u))
      <3>1. ASSUME NEW p \in Leaves(File) PROVE u.disk[p] # Free
        BY <2>1, <2>3, <3>1 DEF Free
      <3> QED BY <1>3, <2>2, <3>1
    <2> QED BY <2>1, <2>4, <2>5
  <1>7. tree' = u
    BY DEF u
  <1>8. File' = Entries(u.disk, header)
    BY <1>7 DEF File
  <1>9. FInv'
    <2>1. FInv' <=> (exposed' = {} => Sound(tree'.disk, header') /\ Leaves(File') \subseteq Leaves(EntriesOf(tree')))
      BY DEF FInv
    <2> QED BY <1>6, <1>7, <1>8, <2>1
  <1> QED BY <1>3, <1>4, <1>5, <1>6, <1>7, <1>8, <1>9 DEF H

LEMMA Logs ==
  ASSUME NEW s \in Seq(Op), NEW e \in Op
  PROVE  /\ Append(s, e) \in Seq(Op) /\ Len(Append(s, e)) = Len(s) + 1 /\ Len(s) \in Nat
         /\ Append(s, e)[Len(s) + 1] = e
         /\ \A i \in 1..Len(s) : Append(s, e)[i] = s[i]
  OBVIOUS

LEMMA commitKeeps ==
  ASSUME Inv, NEW op \in {"insert", "delete"}, NEW k \in Keys, commit(op, k)
  PROVE  Inv'
  <1> DEFINE e == [op |-> op, key |-> k]
             n == Len(log)
  <1>1. TInv /\ FInv /\ CInv
    BY DEF Inv
  <1>2. e \in Op /\ e.op = op /\ e.key = k
    BY DEF Op
  <1>3. /\ status = "open" /\ ~saving /\ redone = 0
        /\ tree' = Apply(tree, e) /\ log' = Append(log, e)
        /\ committed' = IF op = "insert" THEN committed \cup {k} ELSE committed \ {k}
        /\ exposed' = exposed \cup Merged(tree, tree')
        /\ status' = status /\ header' = header /\ redone' = redone /\ saving' = saving
    BY <1>1 DEF commit, Idle, TInv
  <1> HIDE DEF e
  <1>4. /\ Kept(tree') /\ header \in DOMAIN tree'.pages
        /\ HeldBy(tree') = IF op = "insert" THEN HeldBy(tree) \cup {k} ELSE HeldBy(tree) \ {k}
        /\ FInv'
        /\ exposed' \subseteq {"young", "saved", "merge", "evict", "roots"}
        /\ exposed' = {} => exposed = {} /\ Hold(tree'.disk, File') = Hold(tree.disk, File)
    BY <1>1, <1>2, <1>3, Applied
  <1>5. /\ log' \in Seq(Op) /\ Len(log') = n + 1 /\ n \in Nat
        /\ log'[n + 1] = e /\ \A i \in 1..n : log'[i] = log[i]
    BY <1>1, <1>2, <1>3, Logs DEF TInv
  <1> HIDE DEF n
  <1>6. committed \subseteq Keys /\ committed' \subseteq Keys
    BY <1>1, <1>3 DEF TInv
  <1>7. TInv'
    BY <1>1, <1>3, <1>4, <1>5, <1>6 DEF TInv
  <1>8. ASSUME NEW x, NEW i \in Nat, i <= n, Untouched(log', x, i)
        PROVE  Untouched(log, x, i) /\ x # k
    <2>1. \A j \in i + 1..n + 1 : log'[j].key # x
      BY <1>5, <1>8 DEF Untouched
    <2>2. n + 1 \in i + 1..n + 1 /\ \A j \in i + 1..n : j \in i + 1..n + 1 /\ j \in 1..n
      BY <1>5, <1>8
    <2>3. x # k
      BY <1>2, <1>5, <2>1, <2>2
    <2>4. \A j \in i + 1..n : log[j].key # x
      BY <1>5, <2>1, <2>2
    <2> QED BY <2>3, <2>4 DEF Untouched, n
  <1>9. \A i \in 1..Len(log') :
          Untouched(log', log'[i].key, i) => (log'[i].op = "insert" <=> log'[i].key \in committed')
    <2>1. SUFFICES ASSUME NEW i \in 1..n + 1, Untouched(log', log'[i].key, i)
                   PROVE  log'[i].op = "insert" <=> log'[i].key \in committed'
      BY <1>5
    <2>2. CASE i = n + 1
      BY <1>2, <1>3, <1>5, <2>2
    <2>3. CASE i # n + 1
      <3>1. i \in 1..n /\ i \in Nat /\ i <= n /\ log'[i] = log[i]
        BY <1>5, <2>3
      <3>2. Untouched(log, log[i].key, i) /\ log[i].key # k
        BY <1>8, <2>1, <3>1
      <3>3. log[i].op = "insert" <=> log[i].key \in committed
        BY <1>1, <3>1, <3>2 DEF CInv, n
      <3> QED BY <1>3, <3>1, <3>2, <3>3
    <2> QED BY <2>2, <2>3
  <1>10. ASSUME exposed' = {}, NEW x \in Keys, Untouched(log', x, 0)
         PROVE  x \in committed' <=> x \in Hold(tree'.disk, File')
    <2>1. Untouched(log, x, 0) /\ x # k
      BY <1>5, <1>8, <1>10
    <2>2. x \in committed <=> x \in Hold(tree.disk, File)
      BY <1>1, <1>4, <1>10, <2>1 DEF CInv
    <2> QED BY <1>3, <1>4, <1>10, <2>1, <2>2
  <1>11. HeldBy(tree') = committed'
    BY <1>1, <1>3, <1>4 DEF CInv
  <1>12. CInv'
    BY <1>3, <1>9, <1>10, <1>11 DEF CInv
  <1> QED BY <1>4, <1>7, <1>12 DEF Inv

LEMMA redoKeeps ==
  ASSUME Inv, redo
  PROVE  Inv'
  <1> DEFINE n == redone + 1
             e == log[n]
  <1>1. TInv /\ FInv /\ CInv
    BY DEF Inv
  <1>2. /\ status = "recovering" /\ redone < Len(log) /\ redone \in Nat /\ n \in 1..Len(log) /\ e \in Op
        /\ tree' = Apply(tree, e) /\ redone' = n
        /\ exposed' = exposed \cup Merged(tree, tree')
        /\ status' = status /\ header' = header /\ log' = log /\ saving' = saving /\ committed' = committed
    BY <1>1 DEF redo, TInv
  <1> HIDE DEF e, n
  <1>3. /\ Kept(tree') /\ header \in DOMAIN tree'.pages
        /\ HeldBy(tree') = IF e.op = "insert" THEN HeldBy(tree) \cup {e.key} ELSE HeldBy(tree) \ {e.key}
        /\ FInv'
        /\ exposed' \subseteq {"young", "saved", "merge", "evict", "roots"}
        /\ exposed' = {} => exposed = {} /\ Hold(tree'.disk, File') = Hold(tree.disk, File)
    BY <1>1, <1>2, Applied
  <1>4. TInv'
    BY <1>1, <1>2, <1>3 DEF TInv
  <1>6. ASSUME NEW x \in Keys, Untouched(log, x, n)
        PROVE  x \in committed <=> x \in HeldBy(tree')
    <2>1. CASE x = e.key
      <3>1. e.op = "insert" <=> x \in committed
        BY <1>1, <1>2, <1>6, <2>1 DEF CInv, e
      <3> QED BY <1>3, <2>1, <3>1
    <2>2. CASE x # e.key
      <3>1. Untouched(log, x, redone)
        <4>1. SUFFICES ASSUME NEW j \in redone + 1..Len(log) PROVE log[j].key # x
          BY DEF Untouched
        <4>2. CASE j = n
          BY <2>2, <4>2 DEF e
        <4>3. CASE j # n
          <5>1. Len(log) \in Nat
            BY <1>1 DEF TInv
          <5>2. j \in n + 1..Len(log)
            BY <1>2, <4>1, <4>3, <5>1 DEF n
          <5> QED BY <1>6, <5>2 DEF Untouched
        <4> QED BY <4>2, <4>3
      <3>2. x \in committed <=> x \in HeldBy(tree)
        BY <1>1, <1>2, <3>1 DEF CInv
      <3> QED BY <1>3, <2>2, <3>2
    <2> QED BY <2>1, <2>2
  <1>7. CInv'
    <2>1. \A i \in 1..Len(log') :
            Untouched(log', log'[i].key, i) => (log'[i].op = "insert" <=> log'[i].key \in committed')
      BY <1>1, <1>2 DEF CInv
    <2>2. exposed' = {} => \A x \in Keys : Untouched(log', x, 0) => (x \in committed' <=> x \in Hold(tree'.disk, File'))
      BY <1>1, <1>2, <1>3 DEF CInv
    <2>3. \A x \in Keys : Untouched(log', x, redone') => (x \in committed' <=> x \in HeldBy(tree'))
      <3>1. SUFFICES ASSUME NEW x \in Keys, Untouched(log', x, redone') PROVE x \in committed <=> x \in HeldBy(tree')
        BY <1>2
      <3>2. Untouched(log, x, n)
        BY <1>2, <3>1
      <3> QED BY <1>6, <3>2
    <2> QED BY <1>2, <2>1, <2>2, <2>3 DEF CInv
  <1> QED BY <1>3, <1>4, <1>7 DEF Inv

LEMMA evictKeeps ==
  ASSUME Inv, NEW p \in DOMAIN tree.pages, evict(p)
  PROVE  Inv'
  <1> DEFINE D == [tree.disk EXCEPT ![p] = tree.pages[p]]
             page == tree.pages[p]
  <1>1. TInv /\ FInv /\ CInv /\ Kept(tree) /\ header \in DOMAIN tree.pages
    BY DEF Inv, TInv
  <1>2. /\ status # "closed" /\ tree' = [tree EXCEPT !.disk[p] = tree.pages[p]]
        /\ exposed' = exposed \cup {w \in {"evict"} : ~Plain(p)}
        /\ status' = status /\ header' = header /\ log' = log /\ redone' = redone
        /\ saving' = saving /\ committed' = committed
    BY DEF evict
  <1>3. /\ tree \in Tree /\ DOMAIN tree.pages = DOMAIN tree.disk /\ tree.disk \in Seq(Page) /\ page \in Page
        /\ Len(tree.pages) = Len(tree.disk)
    BY <1>1, KeptTree DEF Tree, Kept, Stored
  <1>4. /\ D \in Seq(Page) /\ Len(D) = Len(tree.disk) /\ DOMAIN D = DOMAIN tree.disk /\ D[p] = page
        /\ \A q \in DOMAIN tree.disk : q # p => D[q] = tree.disk[q]
    BY <1>3, PagePut
  <1>5. tree' = [tree EXCEPT !.disk = D]
    BY <1>2, <1>3 DEF Tree
  <1> HIDE DEF D
  <1>6. /\ tree' \in Tree /\ tree'.pages = tree.pages /\ tree'.root = tree.root /\ tree'.free = tree.free
        /\ tree'.disk = D
    BY <1>3, <1>4, <1>5 DEF Tree
  <1>7. Kept(tree')
    BY <1>1, <1>3, <1>4, <1>6 DEF Kept, Stored
  <1>8. EntriesOf(tree') = EntriesOf(tree) /\ HeldBy(tree') = HeldBy(tree)
    BY <1>6 DEF EntriesOf, HeldBy
  <1>9. TInv'
    BY <1>1, <1>2, <1>6, <1>7 DEF TInv
  <1> DEFINE P == tree.disk
             E == File
             file == [root |-> header, pages |-> tree.disk]
  <1>10. ASSUME exposed' = {}
         PROVE  /\ exposed = {}
                /\ page.kind = P[p].kind /\ page.kids = P[p].kids
                /\ \A k \in page.keys : LeafOf(file, k) = p
                /\ (P[p].keys \ page.keys) \cap HeldBy(tree) = {}
                /\ Sound(P, header) /\ Good(P, E) /\ E = Entries(P, header)
                /\ Leaves(E) \subseteq Leaves(EntriesOf(tree))
                /\ \A e \in E : e[2] \in DOMAIN P /\ P[e[2]].kind = "leaf"
    <2>1. exposed = {} /\ Plain(p)
      BY <1>2, <1>10
    <2>2. Sound(P, header) /\ Good(P, E) /\ E = Entries(P, header)
          /\ Leaves(E) \subseteq Leaves(EntriesOf(tree))
      BY <1>1, <2>1 DEF FInv, Sound, File
    <2>3. \A e \in E : e[2] \in DOMAIN P /\ P[e[2]].kind = "leaf"
      BY <2>2, InUse
    <2>4. Contents(tree) = HeldBy(tree)
      BY <1>1, KeptTree
    <2> QED BY <2>1, <2>2, <2>3, <2>4 DEF Plain
  <1>11. ASSUME exposed' = {}, NEW k \in page.keys
         PROVE  \E e \in E : e[2] = p /\ Below(E, e, k)
    <2>1. k \in Keys /\ k \in Nat
      BY <1>3, TreePagesAssumption DEF Page
    <2>2. PICK e \in E : Below(E, e, k)
      <3>1. Good(P, E)
        BY <1>10, <1>11
      <3> HIDE DEF P, E
      <3> QED BY <2>1, <3>1, OneBelow
    <2>3. LeafOf(file, k) = e[2]
      <3>1. Sound(file.pages, file.root) /\ e \in Entries(file.pages, file.root)
            /\ Below(Entries(file.pages, file.root), e, k)
        BY <1>10, <1>11, <2>2
      <3> HIDE DEF file, E
      <3> QED BY <2>1, <3>1, LeafIs
    <2> QED BY <1>10, <1>11, <2>2, <2>3
  <1>12. ASSUME exposed' = {}
         PROVE  Sound(D, header) /\ Entries(D, header) = E
    <2>1. Entries(D, header) = E
      BY <1>1, <1>3, <1>4, <1>10, <1>12 DEF Entries
    <2>2. ASSUME NEW e \in E PROVE LeafFor(D, E, e)
      <3>1. LeafFor(P, E, e)
        BY <1>10, <1>12 DEF Good
      <3>2. CASE e[2] # p
        BY <1>4, <1>10, <1>12, <3>1, <3>2 DEF LeafFor
      <3>3. CASE e[2] = p
        <4>1. page.kind = "leaf" /\ page.kids = {} /\ page.keys \subseteq Keys
          BY <1>3, <1>10, <1>12, <3>1, <3>3 DEF LeafFor, Page
        <4>2. IsFiniteSet(page.keys)
          <5>1. p \in Leaves(EntriesOf(tree))
            BY <1>10, <1>12, <3>3 DEF Leaves
          <5>2. PICK f \in EntriesOf(tree) : f[2] = p
            BY <5>1 DEF Leaves
          <5>3. LeafFor(tree.pages, EntriesOf(tree), f)
            BY <1>1, <5>2, KeptTree DEF Good
          <5> QED BY <5>2, <5>3 DEF LeafFor
        <4>3. ASSUME NEW k \in page.keys PROVE Below(E, e, k)
          <5>1. PICK f \in E : f[2] = p /\ Below(E, f, k)
            BY <1>11, <1>12
          <5>2. f = e
            BY <1>10, <1>12, <3>3, <5>1 DEF Good
          <5> QED BY <5>1, <5>2
        <4>4. D[e[2]] = page
          BY <1>4, <3>3
        <4> HIDE DEF E, page
        <4> QED BY <4>1, <4>2, <4>3, <4>4 DEF LeafFor
      <3> QED BY <3>2, <3>3
    <2>3. Good(D, E)
      <3>1. E \subseteq Nat \X DOMAIN D
        BY <1>4, <1>10, <1>12 DEF Good
      <3>2. Good(P, E)
        BY <1>10, <1>12
      <3> HIDE DEF E, P
      <3> QED BY <2>2, <3>1, <3>2 DEF Good
    <2>4. /\ header \in DOMAIN D /\ D[header].kind \in {"leaf", "inner"}
          /\ D[header].kind = "inner" => D[header].keys = {}
      <3>1. CASE header # p
        BY <1>1, <1>3, <1>4, <1>10, <1>12, <3>1 DEF Sound
      <3>2. CASE header = p
        <4>1. D[header] = page /\ header \in DOMAIN D /\ page.kind \in {"leaf", "inner"}
          BY <1>3, <1>4, <1>10, <1>12, <3>2 DEF Sound
        <4>2. ASSUME page.kind = "inner" PROVE page.keys = {}
          <5>1. SUFFICES ASSUME NEW k \in page.keys PROVE FALSE
            OBVIOUS
          <5>2. PICK f \in E : f[2] = p
            BY <1>11, <1>12
          <5> QED BY <1>10, <1>12, <4>2, <5>2
        <4> QED BY <4>1, <4>2
      <3> QED BY <3>1, <3>2
    <2> QED BY <2>1, <2>3, <2>4 DEF Sound
  <1>13. File' = Entries(D, header)
    BY <1>2, <1>6 DEF File
  <1>14. FInv'
    <2>1. FInv' <=> (exposed' = {} => Sound(tree'.disk, header') /\ Leaves(File') \subseteq Leaves(EntriesOf(tree')))
      BY DEF FInv
    <2>2. ASSUME exposed' = {} PROVE Sound(D, header) /\ Leaves(Entries(D, header)) \subseteq Leaves(EntriesOf(tree))
      BY <1>10, <1>12, <2>2
    <2> QED BY <1>2, <1>6, <1>8, <1>13, <2>1, <2>2
  <1>15. ASSUME exposed' = {}, NEW k \in Keys, Untouched(log, k, 0)
         PROVE  k \in committed <=> k \in Hold(D, E)
    <2>1. k \in committed <=> k \in Hold(P, E)
      BY <1>1, <1>10, <1>15 DEF CInv
    <2>2. k \in committed <=> k \in HeldBy(tree)
      <3>1. CASE status = "open"
        BY <1>1, <3>1 DEF CInv
      <3>2. CASE status # "open"
        <4>1. Untouched(log, k, redone)
          <5>1. redone \in Nat /\ Len(log) \in Nat
            BY <1>1 DEF TInv
          <5>2. \A j \in redone + 1..Len(log) : j \in 0 + 1..Len(log)
            BY <5>1
          <5> QED BY <1>15, <5>2 DEF Untouched
        <4> QED BY <1>1, <3>2, <4>1 DEF CInv
      <3> QED BY <3>1, <3>2
    <2>3. k \in Hold(P, E) <=> \E e \in E : k \in P[e[2]].keys
      BY InHold
    <2>4. k \in Hold(D, E) <=> \E e \in E : k \in D[e[2]].keys
      BY InHold
    <2>5. \A e \in E : e[2] # p => D[e[2]] = P[e[2]]
      BY <1>4, <1>10, <1>15
    <2>6. CASE k \in page.keys
      <3>1. PICK e \in E : e[2] = p
        BY <1>11, <1>15, <2>6
      <3>2. k \in Hold(D, E)
        BY <1>4, <2>4, <2>6, <3>1
      <3>3. p \in Leaves(EntriesOf(tree))
        BY <1>10, <1>15, <3>1 DEF Leaves
      <3>4. k \in HeldBy(tree)
        BY <2>6, <3>3 DEF HeldBy, Hold
      <3> QED BY <2>2, <3>2, <3>4
    <2>7. CASE k \notin page.keys
      <3>1. CASE k \in P[p].keys
        <4>1. k \notin HeldBy(tree)
          BY <1>10, <1>15, <2>7, <3>1
        <4>2. k \notin Hold(P, E)
          BY <2>1, <2>2, <4>1
        <4> QED BY <1>4, <2>1, <2>3, <2>4, <2>5, <2>7, <4>2
      <3>2. CASE k \notin P[p].keys
        BY <1>4, <2>1, <2>3, <2>4, <2>5, <2>7, <3>2
      <3> QED BY <3>1, <3>2
    <2> QED BY <2>6, <2>7
  <1>16. CInv'
    <2>1. \A i \in 1..Len(log') :
            Untouched(log', log'[i].key, i) => (log'[i].op = "insert" <=> log'[i].key \in committed')
      BY <1>1, <1>2 DEF CInv
    <2>2. exposed' = {} => \A k \in Keys : Untouched(log', k, 0) => (k \in committed' <=> k \in Hold(tree'.disk, File'))
      <3> HIDE DEF E
      <3> QED BY <1>2, <1>6, <1>12, <1>13, <1>15
    <2>3. status' # "open" => \A k \in Keys : Untouched(log', k, redone') => (k \in committed' <=> k \in HeldBy(tree'))
      BY <1>1, <1>2, <1>8 DEF CInv
    <2>4. status' = "open" => HeldBy(tree') = committed'
      BY <1>1, <1>2, <1>8 DEF CInv
    <2> QED BY <2>1, <2>2, <2>3, <2>4 DEF CInv
  <1> QED BY <1>9, <1>14, <1>16 DEF Inv

\* Between the two steps of a save the header may name a page not written yet.
LEMMA saveTreeRootsKeeps ==
  ASSUME Inv, saveTreeRoots
  PROVE  Inv'
  <1>1. TInv /\ FInv /\ CInv /\ Kept(tree)
    BY DEF Inv, TInv
  <1>2. /\ status = "open" /\ header' = tree.root /\ saving' = TRUE
        /\ exposed' = exposed \cup {w \in {"saved"} : header # tree.root}
        /\ status' = status /\ tree' = tree /\ log' = log /\ redone' = redone /\ committed' = committed
    BY DEF saveTreeRoots, Idle
  <1>3. tree.root \in DOMAIN tree.pages
    BY <1>1, KeptTree
  <1>4. TInv'
    BY <1>1, <1>2, <1>3 DEF TInv
  <1>5. exposed' = {} => exposed = {} /\ header' = header
    BY <1>2
  <1>6. FInv' /\ CInv'
    <2>1. CASE exposed' = {}
      <3>1. exposed = {} /\ header' = header
        BY <1>5, <2>1
      <3> QED BY <1>1, <1>2, <3>1 DEF FInv, CInv, File
    <2>2. CASE exposed' # {}
      BY <1>1, <1>2, <2>2 DEF FInv, CInv
    <2> QED BY <2>1, <2>2
  <1> QED BY <1>4, <1>6 DEF Inv

\* All pages are written.
LEMMA Flushed ==
  ASSUME NEW t, Kept(t)
  PROVE  LET u == [t EXCEPT !.disk = t.pages]
         IN  /\ Kept(u) /\ u.pages = t.pages /\ u.root = t.root /\ u.disk = t.pages
             /\ EntriesOf(u) = EntriesOf(t) /\ HeldBy(u) = HeldBy(t)
  <1> DEFINE u == [t EXCEPT !.disk = t.pages]
  <1>1. t \in Tree
    BY KeptTree
  <1>2. u \in Tree /\ u.pages = t.pages /\ u.root = t.root /\ u.disk = t.pages /\ u.free = t.free
    BY <1>1 DEF Tree
  <1> HIDE DEF u
  <1>3. EntriesOf(u) = EntriesOf(t) /\ HeldBy(u) = HeldBy(t)
    BY <1>2 DEF EntriesOf, HeldBy
  <1>4. Kept(u)
    BY <1>2 DEF Kept, Stored
  <1> QED BY <1>2, <1>3, <1>4 DEF u

LEMMA flushAllKeeps ==
  ASSUME Inv, flushAll
  PROVE  Inv'
  <1>1. TInv /\ FInv /\ CInv /\ Kept(tree)
    BY DEF Inv, TInv
  <1>2. /\ saving /\ tree' = [tree EXCEPT !.disk = tree.pages] /\ saving' = FALSE /\ exposed' = {}
        /\ status' = status /\ header' = header /\ log' = log /\ redone' = redone /\ committed' = committed
    BY DEF flushAll
  <1>3. status = "open" /\ header = tree.root
    BY <1>1, <1>2 DEF TInv
  <1>4. /\ Kept(tree') /\ tree'.pages = tree.pages /\ tree'.root = tree.root /\ tree'.disk = tree.pages
        /\ EntriesOf(tree') = EntriesOf(tree) /\ HeldBy(tree') = HeldBy(tree)
    BY <1>1, <1>2, Flushed
  <1>5. TInv'
    BY <1>1, <1>2, <1>4 DEF TInv
  <1>6. File' = EntriesOf(tree) /\ Sound(tree'.disk, header')
    BY <1>1, <1>2, <1>3, <1>4 DEF File, EntriesOf, Kept
  <1>7. FInv'
    <2>1. FInv' <=> (exposed' = {} => Sound(tree'.disk, header') /\ Leaves(File') \subseteq Leaves(EntriesOf(tree')))
      BY DEF FInv
    <2> QED BY <1>4, <1>6, <2>1
  <1>8. Hold(tree'.disk, File') = committed /\ HeldBy(tree) = committed
    BY <1>1, <1>3, <1>4, <1>6 DEF HeldBy, CInv
  <1>9. CInv'
    BY <1>1, <1>2, <1>3, <1>4, <1>8 DEF CInv
  <1> QED BY <1>5, <1>7, <1>9 DEF Inv

LEMMA checkpointKeeps ==
  ASSUME Inv, checkpoint
  PROVE  Inv'
  <1>1. TInv /\ FInv /\ CInv /\ Kept(tree)
    BY DEF Inv, TInv
  <1>2. /\ status = "open" /\ ~saving
        /\ tree' = [tree EXCEPT !.disk = tree.pages] /\ log' = <<>>
        /\ exposed' = {w \in {"roots"} : header # tree.root}
        /\ status' = status /\ header' = header /\ saving' = saving /\ redone' = redone /\ committed' = committed
    BY DEF checkpoint, Idle
  <1>3. /\ Kept(tree') /\ tree'.pages = tree.pages /\ tree'.root = tree.root /\ tree'.disk = tree.pages
        /\ EntriesOf(tree') = EntriesOf(tree) /\ HeldBy(tree') = HeldBy(tree)
    BY <1>1, <1>2, Flushed
  <1>4. log' \in Seq(Op) /\ Len(log') = 0
    BY <1>2
  <1>5. TInv'
    BY <1>1, <1>2, <1>3, <1>4 DEF TInv
  <1>6. exposed' = {} => header = tree.root
    BY <1>2
  <1>7. exposed' = {} => File' = EntriesOf(tree) /\ Sound(tree'.disk, header')
    BY <1>1, <1>2, <1>3, <1>6 DEF File, EntriesOf, Kept
  <1>8. FInv'
    <2>1. FInv' <=> (exposed' = {} => Sound(tree'.disk, header') /\ Leaves(File') \subseteq Leaves(EntriesOf(tree')))
      BY DEF FInv
    <2> QED BY <1>3, <1>7, <2>1
  <1>9. HeldBy(tree) = committed /\ (exposed' = {} => Hold(tree'.disk, File') = committed)
    BY <1>1, <1>2, <1>3, <1>7 DEF HeldBy, CInv
  <1>10. \A i \in 1..Len(log') : FALSE
    BY <1>4
  <1>11. CInv'
    <2> DEFINE X == Hold(tree'.disk, File')
    <2>1. exposed' = {} => \A k \in Keys : Untouched(log', k, 0) => (k \in committed' <=> k \in X)
      BY <1>2, <1>9
    <2>2. /\ \A i \in 1..Len(log') :
               Untouched(log', log'[i].key, i) => (log'[i].op = "insert" <=> log'[i].key \in committed')
          /\ status' = "open" /\ HeldBy(tree') = committed'
      BY <1>2, <1>3, <1>9, <1>10
    <2> QED BY <2>1, <2>2 DEF CInv
  <1> QED BY <1>5, <1>8, <1>11 DEF Inv

\* Only the file is left, and outside the windows it is a tree.
LEMMA killKeeps ==
  ASSUME Inv, kill, Windows = {}
  PROVE  Inv'
  <1>1. TInv /\ FInv /\ CInv /\ Kept(tree) /\ header \in DOMAIN tree.pages
    BY DEF Inv, TInv
  <1>2. /\ exposed = {} /\ exposed' = {} /\ status' = "closed" /\ redone' = 0 /\ saving' = FALSE
        /\ tree' = [tree EXCEPT !.pages = tree.disk, !.root = header]
        /\ header' = header /\ log' = log /\ committed' = committed
    BY DEF kill
  <1>3. Sound(tree.disk, header)
    BY <1>1, <1>2 DEF FInv
  <1>4. tree \in Tree /\ header \in Nat /\ DOMAIN tree.pages = DOMAIN tree.disk
    BY <1>1, KeptTree
  <1>5. /\ tree' \in Tree /\ tree'.pages = tree.disk /\ tree'.disk = tree.disk
        /\ tree'.root = header /\ tree'.free = tree.free
    BY <1>2, <1>4 DEF Tree
  <1>6. Kept(tree')
    BY <1>1, <1>3, <1>4, <1>5 DEF Kept, Stored
  <1>7. log \in Seq(Op) /\ Len(log) \in Nat
    BY <1>1 DEF TInv
  <1>8. TInv'
    <2>1. redone' \in 0..Len(log') /\ log' \in Seq(Op) /\ committed' \subseteq Keys
      BY <1>1, <1>2, <1>7 DEF TInv
    <2>2. header' \in DOMAIN tree'.pages
      BY <1>1, <1>2, <1>4, <1>5
    <2> QED BY <1>2, <1>6, <2>1, <2>2 DEF TInv
  <1>9. EntriesOf(tree') = File /\ File' = File /\ HeldBy(tree') = Hold(tree.disk, File)
    BY <1>2, <1>5 DEF EntriesOf, HeldBy, File
  <1>10. FInv'
    BY <1>2, <1>3, <1>5, <1>9 DEF FInv
  <1>11. CInv'
    BY <1>1, <1>2, <1>5, <1>9 DEF CInv
  <1> QED BY <1>8, <1>10, <1>11 DEF Inv

LEMMA openKeeps ==
  ASSUME Inv, open
  PROVE  Inv'
  <1>1. TInv /\ FInv /\ CInv
    BY DEF Inv
  <1>2. /\ status = "closed" /\ status' = "recovering"
        /\ tree' = tree /\ header' = header /\ log' = log /\ redone' = redone
        /\ saving' = saving /\ committed' = committed /\ exposed' = exposed
    BY DEF open
  <1>3. TInv'
    BY <1>1, <1>2 DEF TInv
  <1>4. FInv'
    BY <1>1, <1>2 DEF FInv, File
  <1>5. CInv'
    BY <1>1, <1>2 DEF CInv, File
  <1> QED BY <1>3, <1>4, <1>5 DEF Inv

\* Everything in the log was repeated: the tree holds what was committed.
LEMMA recoveredKeeps ==
  ASSUME Inv, recovered
  PROVE  Inv'
  <1>1. TInv /\ FInv /\ CInv /\ Kept(tree)
    BY DEF Inv, TInv
  <1>2. /\ status = "recovering" /\ redone = Len(log) /\ status' = "open" /\ redone' = 0
        /\ header' \in {header, tree.root}
        /\ exposed' = exposed \cup {w \in {"saved"} : header' # header}
        /\ tree' = tree /\ log' = log /\ saving' = saving /\ committed' = committed
    BY DEF recovered
  <1>3. log \in Seq(Op) /\ Len(log) \in Nat
    BY <1>1 DEF TInv
  <1>4. tree.root \in DOMAIN tree.pages
    BY <1>1, KeptTree
  <1>5. TInv'
    <2>1. redone' \in 0..Len(log') /\ header' \in DOMAIN tree'.pages /\ saving' = FALSE
      BY <1>1, <1>2, <1>3, <1>4 DEF TInv
    <2> QED BY <1>1, <1>2, <2>1 DEF TInv
  <1>6. exposed' = {} => exposed = {} /\ header' = header
    BY <1>2
  <1>7. HeldBy(tree) = committed
    <2>1. \A k \in Keys : Untouched(log, k, redone)
      BY <1>2, <1>3 DEF Untouched
    <2>2. \A k \in Keys : k \in committed <=> k \in HeldBy(tree)
      BY <1>1, <1>2, <2>1 DEF CInv
    <2>3. HeldBy(tree) \subseteq Keys /\ committed \subseteq Keys
      BY <1>1, KeptTree DEF TInv
    <2> QED BY <2>2, <2>3
  <1>8. FInv' /\ CInv'
    <2>1. CASE exposed' = {}
      <3>1. exposed = {} /\ header' = header
        BY <1>6, <2>1
      <3>2. FInv'
        BY <1>1, <1>2, <3>1 DEF FInv, File
      <3>3. CInv'
        BY <1>1, <1>2, <1>7, <3>1 DEF CInv, File
      <3> QED BY <3>2, <3>3
    <2>2. CASE exposed' # {}
      BY <1>1, <1>2, <1>7, <2>2 DEF FInv, CInv
    <2> QED BY <2>1, <2>2
  <1> QED BY <1>5, <1>8 DEF Inv

LEMMA StartsInv == Init => Inv
  <1> SUFFICES ASSUME Init PROVE Inv
    OBVIOUS
  <1>1. /\ status = "open" /\ saving = FALSE /\ redone = 0 /\ header = 1 /\ log = <<>>
        /\ committed = {} /\ exposed = {"young"}
        /\ tree = [root |-> 1, pages |-> <<Leaf({})>>, disk |-> <<Free>>, free |-> <<>>]
    BY DEF Init
  <1>2. Leaf({}) \in Page /\ Free \in Page /\ Leaf({}).kind = "leaf" /\ Leaf({}).kids = {} /\ Leaf({}).keys = {}
    BY DEF Leaf, Free, Page
  <1> DEFINE P == <<Leaf({})>>
             D == <<Free>>
  <1>3. P \in Seq(Page) /\ D \in Seq(Page) /\ Len(P) = 1 /\ Len(D) = 1 /\ P[1] = Leaf({})
    BY <1>2
  <1>4. tree.root = 1 /\ tree.pages = P /\ tree.disk = D /\ tree.free = <<>>
    BY <1>1
  <1>5. tree \in Tree
    <2> HIDE DEF P, D
    <2>1. tree = [root |-> 1, pages |-> P, disk |-> D, free |-> <<>>]
      BY <1>1 DEF P, D
    <2> QED BY <1>3, <2>1 DEF Tree
  <1> HIDE DEF P, D
  <1>6. DOMAIN P = {1}
    BY <1>3
  <1>7. Entries(P, 1) = {<<0, 1>>}
    BY <1>2, <1>3 DEF Entries
  <1>8. Good(P, {<<0, 1>>})
    <2> DEFINE e == <<0, 1>>
               E == {e}
    <2>1. LeafFor(P, E, e)
      <3>1. P[e[2]].kind = "leaf" /\ P[e[2]].kids = {} /\ P[e[2]].keys = {}
        BY <1>2, <1>3
      <3> HIDE DEF E
      <3> QED BY <3>1, FS_EmptySet DEF LeafFor
    <2>2. IsFiniteSet(E)
      <3> HIDE DEF e
      <3> QED BY FS_Singleton
    <2>3. E \subseteq Nat \X DOMAIN P
      BY <1>6
    <2>4. \A a, b \in E : a[1] = b[1] \/ a[2] = b[2] => a = b
      OBVIOUS
    <2>5. \E a \in E : a[1] = 0
      OBVIOUS
    <2> QED BY <2>1, <2>2, <2>3, <2>4, <2>5 DEF Good
  <1>9. Sound(P, 1)
    BY <1>2, <1>3, <1>6, <1>7, <1>8 DEF Sound
  <1>10. Kept(tree)
    <2>1. Range(tree.free) = {} /\ IsInjective(tree.free)
      BY <1>4 DEF Range, IsInjective
    <2> QED BY <1>3, <1>4, <1>5, <1>9, <2>1 DEF Kept, Stored
  <1>11. HeldBy(tree) = {}
    <2>1. \A x : x \notin HeldBy(tree)
      BY <1>2, <1>3, <1>4, <1>7 DEF HeldBy, EntriesOf, Hold, Leaves
    <2> QED BY <2>1
  <1>12. TInv
    <2>1. header \in DOMAIN tree.pages
      BY <1>1, <1>4, <1>6
    <2>2. log \in Seq(Op) /\ redone \in 0..Len(log) /\ committed \subseteq Keys
      BY <1>1
    <2> QED BY <1>1, <1>10, <2>1, <2>2 DEF TInv
  <1>13. FInv
    BY <1>1 DEF FInv
  <1>14. CInv
    <2>1. \A i \in 1..Len(log) : FALSE
      BY <1>1
    <2> QED BY <1>1, <1>11, <2>1 DEF CInv
  <1> QED BY <1>12, <1>13, <1>14 DEF Inv

LEMMA Keeps == Windows = {} /\ Inv /\ [Next]_vars => Inv'
  <1> SUFFICES ASSUME Windows = {}, Inv, [Next]_vars PROVE Inv'
    OBVIOUS
  <1>1. CASE \E op \in {"insert", "delete"}, k \in Keys : commit(op, k)
    BY <1>1, commitKeeps
  <1>2. CASE \E p \in DOMAIN tree.pages : evict(p)
    BY <1>2, evictKeeps
  <1>3. CASE saveTreeRoots
    BY <1>3, saveTreeRootsKeeps
  <1>4. CASE flushAll
    BY <1>4, flushAllKeeps
  <1>5. CASE checkpoint
    BY <1>5, checkpointKeeps
  <1>6. CASE kill
    BY <1>6, killKeeps
  <1>7. CASE open
    BY <1>7, openKeeps
  <1>8. CASE redo
    BY <1>8, redoKeeps
  <1>9. CASE recovered
    BY <1>9, recoveredKeeps
  <1>10. CASE UNCHANGED vars
    <2>1. /\ status' = status /\ tree' = tree /\ header' = header /\ log' = log /\ redone' = redone
          /\ saving' = saving /\ committed' = committed /\ exposed' = exposed
      BY <1>10 DEF vars
    <2> QED BY <2>1 DEF Inv, TInv, FInv, CInv, File
  <1> QED BY <1>1, <1>2, <1>3, <1>4, <1>5, <1>6, <1>7, <1>8, <1>9, <1>10 DEF Next

-----------------------------------------------------------------------------
(* Any tree.  A kill in a window may leave pages that are no search tree,  *)
(* and the code goes on with them.  What holds of their pages all the same *)
(* is enough for the types.                                                *)

\* The kids of an inner page: pages below D, one of them for the lowest keys.
Links(D, kids) ==
  /\ IsFiniteSet(kids) /\ kids \subseteq Nat \X D
  /\ \E e \in kids : e[1] = 0
  /\ \A e, f \in kids : e[1] = 0 /\ f[1] = 0 => e = f

PageFor(D, page) ==
  /\ IsFiniteSet(page.keys)
  /\ page.kind = "free" => page = Free
  /\ page.kind # "inner" => page.kids = {}
  /\ page.kind = "inner" => page.keys = {} /\ Links(D, page.kids)

Fit(t) ==
  /\ Stored(t) /\ t.root \in DOMAIN t.pages
  /\ \A p \in DOMAIN t.pages :
       PageFor(DOMAIN t.pages, t.pages[p]) /\ PageFor(DOMAIN t.pages, t.disk[p])

\* u is what becomes of t.
Fits(t, u) == Fit(u) /\ DOMAIN t.pages \subseteq DOMAIN u.pages

LInv ==
  /\ status \in {"closed", "recovering", "open"} /\ saving \in BOOLEAN
  /\ exposed \subseteq {"young", "saved", "merge", "evict", "roots"}
  /\ log \in Seq(Op) /\ redone \in 0..Len(log) /\ committed \subseteq Keys
  /\ status # "recovering" => redone = 0
  /\ saving => status = "open"
  /\ Fit(tree) /\ header \in DOMAIN tree.pages

LEMMA FitFacts ==
  ASSUME NEW t, Fit(t)
  PROVE  /\ t \in Tree /\ Stored(t) /\ t.root \in DOMAIN t.pages
         /\ t.pages \in Seq(Page) /\ t.disk \in Seq(Page) /\ Len(t.pages) = Len(t.disk)
         /\ DOMAIN t.pages = 1..Len(t.pages) /\ DOMAIN t.disk = DOMAIN t.pages
         /\ Len(t.pages) \in Nat /\ DOMAIN t.pages \subseteq Nat
         /\ \A p \in DOMAIN t.pages : t.pages[p] \in Page /\ t.disk[p] \in Page
         /\ \A p \in Range(t.free) : p \in DOMAIN t.pages /\ t.pages[p].kind = "free"
  <1>1. t \in Tree /\ Stored(t) /\ t.root \in DOMAIN t.pages /\ Len(t.pages) = Len(t.disk)
    BY DEF Fit, Stored
  <1>2. t.pages \in Seq(Page) /\ t.disk \in Seq(Page)
    BY <1>1 DEF Tree
  <1>3. /\ DOMAIN t.pages = 1..Len(t.pages) /\ DOMAIN t.disk = DOMAIN t.pages
        /\ Len(t.pages) \in Nat /\ DOMAIN t.pages \subseteq Nat
    BY <1>1, <1>2, DomainOf
  <1>4. \A p \in DOMAIN t.pages : t.pages[p] \in Page /\ t.disk[p] \in Page
    BY <1>2, <1>3
  <1>5. \A p \in Range(t.free) : p \in DOMAIN t.pages /\ t.pages[p].kind = "free"
    BY <1>1 DEF Stored, Free
  <1> QED BY <1>1, <1>2, <1>3, <1>4, <1>5

LEMMA PagesFor ==
  ASSUME NEW D
  PROVE  /\ PageFor(D, Free)
         /\ \A S : IsFiniteSet(S) => PageFor(D, Leaf(S))
         /\ \A kids : Links(D, kids) => PageFor(D, Inner(kids))
         /\ \A C, page : D \subseteq C /\ PageFor(D, page) => PageFor(C, page)
  <1>1. PageFor(D, Free)
    BY FS_EmptySet DEF PageFor, Free
  <1>2. \A S : IsFiniteSet(S) => PageFor(D, Leaf(S))
    BY DEF PageFor, Leaf
  <1>3. \A kids : Links(D, kids) => PageFor(D, Inner(kids))
    BY FS_EmptySet DEF PageFor, Inner
  <1>4. ASSUME NEW C, NEW page, D \subseteq C, PageFor(D, page) PROVE PageFor(C, page)
    <2>1. \A kids : Links(D, kids) => Links(C, kids)
      BY <1>4 DEF Links
    <2> QED BY <1>4, <2>1 DEF PageFor
  <1> QED BY <1>1, <1>2, <1>3, <1>4

\* The pages in memory and the root are replaced.
LEMMA FitWith ==
  ASSUME NEW t, Fit(t), NEW Q \in Seq(Page), Len(Q) = Len(t.pages), NEW r \in DOMAIN Q,
         \A p \in DOMAIN Q : PageFor(DOMAIN Q, Q[p]),
         \A p \in Range(t.free) : Q[p] = Free
  PROVE  LET u == With(t, Q, r)
         IN  /\ Fits(t, u) /\ u.pages = Q /\ u.root = r /\ u.disk = t.disk /\ u.free = t.free
  <1> DEFINE u == With(t, Q, r)
  <1>1. DOMAIN Q = DOMAIN t.pages /\ r \in Nat
    BY FitFacts, DomainOf
  <1>2. Stored(u) /\ u.pages = Q /\ u.root = r /\ u.disk = t.disk /\ u.free = t.free
    BY <1>1, StaysStored DEF Fit
  <1> HIDE DEF u
  <1>3. \A p \in DOMAIN Q : PageFor(DOMAIN Q, t.disk[p])
    BY <1>1 DEF Fit
  <1> QED BY <1>1, <1>2, <1>3 DEF Fit, Fits, u

LEMMA FitRoot ==
  ASSUME NEW t, Fit(t), NEW r \in DOMAIN t.pages
  PROVE  LET u == [t EXCEPT !.root = r]
         IN  Fits(t, u) /\ u.free = t.free /\ u.pages = t.pages
  <1> DEFINE u == [t EXCEPT !.root = r]
             Q == t.pages
  <1>1. t \in Tree /\ Q \in Seq(Page)
    BY FitFacts
  <1>2. u = With(t, Q, r)
    BY <1>1 DEF With, Tree
  <1>3. /\ \A p \in DOMAIN Q : PageFor(DOMAIN Q, Q[p])
        /\ \A p \in Range(t.free) : Q[p] = Free
        /\ Len(Q) = Len(t.pages) /\ r \in DOMAIN Q
    BY DEF Fit, Stored
  <1> HIDE DEF u, Q
  <1>4. Fits(t, u) /\ u.free = t.free /\ u.pages = Q
    BY <1>1, <1>2, <1>3, FitWith
  <1> QED BY <1>4 DEF u, Q

LEMMA FitAllocates ==
  ASSUME NEW t, Fit(t)
  PROVE  LET u == allocatePage(t)
             n == NewPage(t)
         IN  /\ Fits(t, u) /\ Spare(u, n) /\ u.root = t.root
             /\ n \in DOMAIN t.pages => t.pages[n] = Free
             /\ \A p \in DOMAIN t.pages : u.pages[p] = t.pages[p]
  <1> DEFINE u == allocatePage(t)
             n == NewPage(t)
             C == DOMAIN u.pages
             D == DOMAIN t.pages
  <1>1. /\ Stored(u) /\ Spare(u, n)
        /\ u.root = t.root /\ Len(t.pages) <= Len(u.pages)
        /\ n \in D => t.pages[n] = Free
        /\ \A p \in D : u.pages[p] = t.pages[p] /\ u.disk[p] = t.disk[p]
        /\ \A p \in C \ D : u.pages[p] = Free /\ u.disk[p] = Free
    BY StoredAllocates DEF Fit
  <1> HIDE DEF u, n
  <1>2. D \subseteq C
    BY <1>1, FitFacts DEF Stored, Tree
  <1>3. \A p \in D : PageFor(D, t.pages[p]) /\ PageFor(D, t.disk[p])
    BY DEF Fit
  <1>4. t.root \in D
    BY DEF Fit
  <1> HIDE DEF C, D
  <1>5. ASSUME NEW p \in C PROVE PageFor(C, u.pages[p]) /\ PageFor(C, u.disk[p])
    <2>1. CASE p \in D
      BY <1>1, <1>2, <1>3, <2>1, PagesFor
    <2>2. CASE p \notin D
      BY <1>1, <2>2, PagesFor
    <2> QED BY <2>1, <2>2
  <1> QED BY <1>1, <1>2, <1>4, <1>5 DEF Fit, Fits, C, D, u, n

LEMMA FitFrees ==
  ASSUME NEW t, Fit(t), NEW p \in DOMAIN t.pages, p \notin Range(t.free)
  PROVE  LET u == markPageFreeInPlace(t, p)
         IN  /\ Fits(t, u) /\ u.root = t.root /\ DOMAIN u.pages = DOMAIN t.pages
             /\ \A q \in DOMAIN t.pages : q # p => u.pages[q] = t.pages[q]
  <1> DEFINE u == markPageFreeInPlace(t, p)
             D == DOMAIN t.pages
  <1>1. /\ Stored(u) /\ u.root = t.root /\ Len(u.pages) = Len(t.pages)
        /\ u.pages[p] = Free /\ u.disk[p] = Free
        /\ \A q \in D : q # p => u.pages[q] = t.pages[q] /\ u.disk[q] = t.disk[q]
    BY StoredFrees DEF Fit
  <1> HIDE DEF u
  <1>2. DOMAIN u.pages = D
    BY <1>1, FitFacts DEF Stored, Tree
  <1>3. \A q \in D : PageFor(D, t.pages[q]) /\ PageFor(D, t.disk[q])
    BY DEF Fit
  <1>4. t.root \in D
    BY DEF Fit
  <1> HIDE DEF D
  <1>5. \A q \in D : PageFor(D, u.pages[q]) /\ PageFor(D, u.disk[q])
    BY <1>1, <1>3, PagesFor
  <1> QED BY <1>1, <1>2, <1>4, <1>5 DEF Fit, Fits, D, u

\* A descent goes from page to page of the tree.
LEMMA FindsKid ==
  ASSUME NEW D, NEW page, Links(D, page.kids), NEW k \in Nat
  PROVE  \E e \in page.kids : findChild(page, k) = e[2]
  <1> DEFINE below == {e \in page.kids : e[1] <= k}
             S == {e[1] : e \in below}
  <1>1. \A e \in page.kids : e[1] \in Nat
    BY DEF Links
  <1>2. S \subseteq Nat /\ S # {} /\ \A x \in S : x <= k
    <2>1. PICK e \in page.kids : e[1] = 0
      BY DEF Links
    <2>2. e \in below
      BY <2>1
    <2> QED BY <1>1, <2>2
  <1>3. PICK x \in S : \A y \in S : y <= x
    <2> HIDE DEF S
    <2> QED BY <1>2, GreatestExists
  <1>4. PICK e \in below : e[1] = x
    BY <1>3
  <1>5. \A f \in below : f[1] <= e[1]
    BY <1>3, <1>4
  <1>6. (CHOOSE f \in below : \A g \in below : g[1] <= f[1]) \in below
    BY <1>5
  <1> QED BY <1>6 DEF findChild

LEMMA DescentIs ==
  ASSUME NEW t, NEW k
  PROVE  /\ Descent(t, k)[0] = t.root
         /\ \A n \in 1..Height :
              Descent(t, k)[n] = IF t.pages[Descent(t, k)[n - 1]].kind = "inner"
                                 THEN findChild(t.pages[Descent(t, k)[n - 1]], k)
                                 ELSE Descent(t, k)[n - 1]
  <1> DEFINE Down(p) == IF t.pages[p].kind = "inner" THEN findChild(t.pages[p], k) ELSE p
             r == t.root
             F(d) == [n \in 0..Height |-> IF n = 0 THEN r ELSE Down(d[n - 1])]
             x1 == Down(r)
             x2 == Down(x1)
             x3 == Down(x2)
             x4 == Down(x3)
             g == [n \in 0..Height |-> IF n = 0 THEN r ELSE IF n = 1 THEN x1
                                       ELSE IF n = 2 THEN x2 ELSE IF n = 3 THEN x3 ELSE x4]
             D == Descent(t, k)
  <1>1. Height = 4
    BY DEF Height
  <1>2. D = CHOOSE d : d = F(d)
    BY DEF Descent
  <1>3. g = F(g)
    <2>1. x1 = Down(r) /\ x2 = Down(x1) /\ x3 = Down(x2) /\ x4 = Down(x3)
      OBVIOUS
    <2> HIDE DEF Down, r, x1, x2, x3, x4
    <2>2. ASSUME NEW n \in 0..Height PROVE g[n] = F(g)[n]
      <3>1. n = 0 \/ n = 1 \/ n = 2 \/ n = 3 \/ n = 4
        BY <1>1
      <3> QED BY <1>1, <2>1, <3>1
    <2> QED BY <2>2
  <1> HIDE DEF Down, r
  <1>4. D = F(D)
    <2> HIDE DEF F, D, g
    <2> QED BY <1>2, <1>3
  <1>5. D[0] = r /\ \A n \in 1..Height : D[n] = Down(D[n - 1])
    <2> HIDE DEF D
    <2>1. \A n \in 0..Height : D[n] = IF n = 0 THEN r ELSE Down(D[n - 1])
      BY <1>4
    <2> QED BY <1>1, <2>1
  <1> QED BY <1>5 DEF Down, r

LEMMA Descended ==
  ASSUME NEW t, Fit(t), NEW k \in Nat
  PROVE  /\ \A n \in 0..Height : Descent(t, k)[n] \in DOMAIN t.pages
         /\ \A n \in 1..Height :
              LET p == t.pages[Descent(t, k)[n - 1]]
              IN  Descent(t, k)[n] # Descent(t, k)[n - 1] =>
                    p.kind = "inner" /\ \E e \in p.kids : e[2] = Descent(t, k)[n]
  <1> DEFINE D == Descent(t, k)
             P == t.pages
             Step(n) == D[n] # D[n - 1] =>
                          P[D[n - 1]].kind = "inner" /\ \E e \in P[D[n - 1]].kids : e[2] = D[n]
  <1>1. Height = 4
    BY DEF Height
  <1>2. D[0] = t.root /\ \A n \in 1..Height :
          D[n] = IF P[D[n - 1]].kind = "inner" THEN findChild(P[D[n - 1]], k) ELSE D[n - 1]
    BY DescentIs
  <1>3. D[0] \in DOMAIN P
    BY <1>2 DEF Fit
  <1> HIDE DEF D
  <1>4. ASSUME NEW n \in 1..Height, D[n - 1] \in DOMAIN P
        PROVE  D[n] \in DOMAIN P /\ Step(n)
    <2>1. CASE P[D[n - 1]].kind = "inner"
      <3>1. Links(DOMAIN P, P[D[n - 1]].kids)
        BY <1>4, <2>1 DEF Fit, PageFor
      <3>2. PICK e \in P[D[n - 1]].kids : findChild(P[D[n - 1]], k) = e[2]
        BY <3>1, FindsKid
      <3>3. e[2] \in DOMAIN P
        BY <3>1 DEF Links
      <3>4. D[n] = e[2]
        BY <1>2, <2>1, <3>2
      <3> QED BY <2>1, <3>3, <3>4
    <2>2. CASE P[D[n - 1]].kind # "inner"
      <3>1. D[n] = D[n - 1]
        BY <1>2, <2>2
      <3> QED BY <1>4, <3>1
    <2> QED BY <2>1, <2>2
  <1> HIDE DEF Step, P
  <1>5. D[1] \in DOMAIN P /\ Step(1)
    BY <1>1, <1>3, <1>4
  <1>6. D[2] \in DOMAIN P /\ Step(2)
    BY <1>1, <1>4, <1>5
  <1>7. D[3] \in DOMAIN P /\ Step(3)
    BY <1>1, <1>4, <1>6
  <1>8. D[4] \in DOMAIN P /\ Step(4)
    BY <1>1, <1>4, <1>7
  <1>9. \A n \in 0..Height : D[n] \in DOMAIN P
    <2>1. \A n \in 0..Height : n = 0 \/ n = 1 \/ n = 2 \/ n = 3 \/ n = 4
      BY <1>1
    <2> QED BY <1>3, <1>5, <1>6, <1>7, <1>8, <2>1
  <1>10. \A n \in 1..Height : Step(n)
    <2>1. \A n \in 1..Height : n = 1 \/ n = 2 \/ n = 3 \/ n = 4
      BY <1>1
    <2> QED BY <1>5, <1>6, <1>7, <1>8, <2>1
  <1> QED BY <1>9, <1>10 DEF D, P, Step

LEMMA LeafAndParent ==
  ASSUME NEW t, Fit(t), NEW k \in Nat
  PROVE  LET l == LeafOf(t, k)
             q == ParentOf(t, k)
         IN  /\ l \in DOMAIN t.pages
             /\ l # t.root => /\ q \in DOMAIN t.pages /\ t.pages[q].kind = "inner"
                              /\ \E e \in t.pages[q].kids : e[2] = l
  <1> DEFINE D == Descent(t, k)
             l == LeafOf(t, k)
             q == ParentOf(t, k)
             above == {n \in 0..Height : D[n] # D[Height]}
             m == Max(above)
  <1>1. Height = 4
    BY DEF Height
  <1>2. /\ D[0] = t.root /\ \A n \in 0..Height : D[n] \in DOMAIN t.pages
        /\ \A n \in 1..Height : D[n] # D[n - 1] =>
             /\ t.pages[D[n - 1]].kind = "inner"
             /\ \E e \in t.pages[D[n - 1]].kids : e[2] = D[n]
    BY DescentIs, Descended
  <1>3. l = D[Height]
    BY DEF LeafOf
  <1> HIDE DEF D, l
  <1>4. l \in DOMAIN t.pages
    BY <1>1, <1>2, <1>3
  <1>5. ASSUME l # t.root
        PROVE  /\ q \in DOMAIN t.pages /\ t.pages[q].kind = "inner"
               /\ \E e \in t.pages[q].kids : e[2] = l
    <2>1. above \subseteq Nat /\ above # {} /\ \A x \in above : x <= 4
      <3>1. 0 \in above
        BY <1>1, <1>2, <1>3, <1>5
      <3> QED BY <1>1, <3>1
    <2>2. q = D[m]
      BY <2>1 DEF ParentOf, D
    <2>3. m \in above /\ \A x \in above : x <= m
      <3> HIDE DEF above
      <3>1. PICK x \in above : \A y \in above : y <= x
        BY <2>1, GreatestExists
      <3>2. \A x1 \in above : x1 >= m <=> m <= x1
        BY <2>1
      <3>3. m = CHOOSE x1 \in above : \A y \in above : x1 >= y
        BY DEF Max
      <3>4. \A y \in above : x >= y
        BY <2>1, <3>1
      <3>5. m \in above /\ \A y \in above : m >= y
        BY <3>3, <3>4
      <3> QED BY <2>1, <3>5
    <2> HIDE DEF m
    <2>4. m \in 0..3 /\ D[m] # D[Height]
      <3>1. m \in 0..Height /\ D[m] # D[Height]
        BY <2>3
      <3> QED BY <1>1, <3>1
    <2>5. m + 1 \notin above /\ m + 1 \in 1..Height /\ m + 1 \in 0..Height
      <3> HIDE DEF above
      <3>1. ~(m + 1 <= m) /\ m + 1 \in 1..4 /\ m + 1 \in 0..4
        BY <2>4
      <3> QED BY <1>1, <2>3, <3>1
    <2>6. D[m + 1] = D[Height]
      BY <2>5
    <2>7. m + 1 - 1 = m
      BY <2>4
    <2>8. t.pages[D[m]].kind = "inner" /\ \E e \in t.pages[D[m]].kids : e[2] = D[m + 1]
      BY <1>2, <2>4, <2>5, <2>6, <2>7
    <2>9. D[m] \in DOMAIN t.pages
      BY <1>1, <1>2, <2>4
    <2> QED BY <1>3, <2>2, <2>6, <2>8, <2>9
  <1> QED BY <1>4, <1>5 DEF l

\* The leaf has a sibling if the parent has another kid.
LEMMA SiblingsAre ==
  ASSUME NEW D, NEW E, Links(D, E), NEW l, \E e \in E : e[2] = l, Cardinality(E) # 1
  PROVE  /\ Siblings(E, l)[1] \in E /\ Siblings(E, l)[2] \in E
         /\ Siblings(E, l)[1][1] < Siblings(E, l)[2][1]
  <1> DEFINE own == CHOOSE e \in E : e[2] = l
             after == {f \in E : f[1] > own[1]}
             before == {f \in E : f[1] < own[1]}
             next == CHOOSE f \in after : \A g \in after : f[1] <= g[1]
             prev == CHOOSE f \in before : \A g \in before : g[1] <= f[1]
  <1>0. \A f \in E : f[1] \in Nat
    BY DEF Links
  <1>1. own \in E
    OBVIOUS
  <1> HIDE DEF own
  <1>2. CASE after # {}
    <2> DEFINE S == {f[1] : f \in after}
    <2>1. S \subseteq Nat /\ S # {}
      BY <1>0, <1>2
    <2>2. \E x \in S : \A y \in S : x <= y
      <3> HIDE DEF S
      <3> QED BY <2>1, LeastExists
    <2>3. next \in after
      BY <2>2
    <2>4. Siblings(E, l) = <<own, next>>
      BY <1>2 DEF Siblings, own
    <2> HIDE DEF next
    <2>5. own[1] < next[1] /\ next \in E
      BY <1>0, <1>1, <2>3
    <2> QED BY <1>1, <2>4, <2>5
  <1>3. CASE after = {}
    <2>1. PICK z \in E : z[1] = 0
      BY DEF Links
    <2>2. z \in before
      <3>1. E # {own}
        <4>1. Cardinality({own}) = 1
          BY FS_Singleton
        <4> QED BY <4>1
      <3>2. PICK f \in E : f # own
        BY <1>1, <3>1
      <3>3. own[1] # 0
        <4>1. SUFFICES ASSUME own[1] = 0 PROVE FALSE
          OBVIOUS
        <4>2. f[1] # 0
          BY <1>1, <3>2, <4>1 DEF Links
        <4>3. f \in after
          BY <1>0, <4>1, <4>2
        <4> QED BY <1>3, <4>3
      <3> QED BY <1>0, <1>1, <2>1, <3>3
    <2> DEFINE S == {f[1] : f \in before}
    <2>3. S \subseteq Nat /\ S # {} /\ (\A x \in S : x <= own[1]) /\ own[1] \in Nat
      BY <1>0, <1>1, <2>2
    <2>4. \E x \in S : \A y \in S : y <= x
      <3> HIDE DEF S
      <3> QED BY <2>3, GreatestExists
    <2>5. prev \in before
      BY <2>4
    <2>6. Siblings(E, l) = <<prev, own>>
      BY <1>3 DEF Siblings, own
    <2> HIDE DEF prev
    <2>7. prev[1] < own[1] /\ prev \in E
      BY <2>5
    <2> QED BY <1>1, <2>6, <2>7
  <1> QED BY <1>2, <1>3

LEMMA Halved ==
  ASSUME NEW all, all \subseteq Keys, IsFiniteSet(all), Cardinality(all) >= 2
  PROVE  /\ Lower(all) \subseteq Keys /\ IsFiniteSet(Lower(all))
         /\ all \ Lower(all) \subseteq Keys /\ IsFiniteSet(all \ Lower(all))
         /\ Min(all \ Lower(all)) \in Nat \ {0}
  <1> DEFINE A == Lower(all)
             B == all \ A
  <1>1. A \subseteq all /\ B # {}
    BY TreePagesAssumption, LowerSplits
  <1> HIDE DEF A
  <1>2. A \subseteq Keys /\ B \subseteq Keys /\ B \subseteq all /\ B \subseteq Nat \ {0}
    BY <1>1, TreePagesAssumption
  <1>3. IsFiniteSet(A) /\ IsFiniteSet(B)
    <2> HIDE DEF B
    <2> QED BY <1>1, <1>2, FS_Subset
  <1>4. Min(B) \in Nat \ {0}
    <2> HIDE DEF B
    <2>1. B \subseteq Nat
      BY <1>2
    <2>2. Min(B) \in B
      BY <1>1, <2>1, MinIs
    <2> QED BY <1>2, <2>2
  <1> QED BY <1>2, <1>3, <1>4 DEF A

\* One more kid, or one less, with a key.
LEMMA LinksChange ==
  ASSUME NEW D, NEW kids, Links(D, kids), NEW low \in Nat \ {0}, NEW p \in D
  PROVE  /\ Links(D, kids \cup {<<low, p>>})
         /\ \A e \in kids : e[1] # 0 => Links(D, kids \ {e}) /\ Links(D, (kids \ {e}) \cup {<<low, p>>})
  <1> DEFINE n == <<low, p>>
  <1>1. n \in Nat \X D /\ n[1] # 0
    OBVIOUS
  <1> HIDE DEF n
  <1>2. ASSUME NEW E, Links(D, E) PROVE Links(D, E \cup {n})
    <2>1. IsFiniteSet(E \cup {n})
      BY <1>2, FS_AddElement DEF Links
    <2> QED BY <1>1, <1>2, <2>1 DEF Links
  <1>3. ASSUME NEW e \in kids, e[1] # 0 PROVE Links(D, kids \ {e})
    <2>1. IsFiniteSet(kids \ {e})
      BY FS_RemoveElement DEF Links
    <2> QED BY <1>3, <2>1 DEF Links
  <1> QED BY <1>2, <1>3 DEF n

\* A page in use is replaced by a leaf or by an inner page.
LEMMA FitPut ==
  ASSUME NEW t, Fit(t), NEW p \in DOMAIN t.pages, p \notin Range(t.free),
         NEW X \in Page, PageFor(DOMAIN t.pages, X), NEW r \in DOMAIN t.pages
  PROVE  LET u == With(t, [t.pages EXCEPT ![p] = X], r)
         IN  /\ Fits(t, u) /\ u.root = r /\ u.disk = t.disk /\ u.free = t.free
             /\ DOMAIN u.pages = DOMAIN t.pages /\ u.pages[p] = X
             /\ u.pages = [t.pages EXCEPT ![p] = X]
             /\ \A q \in DOMAIN t.pages : q # p => u.pages[q] = t.pages[q]
  <1> DEFINE P == t.pages
             Q == [P EXCEPT ![p] = X]
  <1>1. P \in Seq(Page)
    BY FitFacts
  <1>2. \A q \in Range(t.free) : q \in DOMAIN P /\ P[q] = Free
    BY DEF Fit, Stored
  <1>3. \A q \in DOMAIN P : PageFor(DOMAIN P, P[q])
    BY DEF Fit
  <1> HIDE DEF P
  <1>4. /\ Q \in Seq(Page) /\ Len(Q) = Len(P) /\ DOMAIN Q = DOMAIN P /\ Q[p] = X
        /\ \A q \in DOMAIN P : q # p => Q[q] = P[q]
    BY <1>1, PagePut DEF P
  <1> HIDE DEF Q
  <1>5. \A q \in DOMAIN Q : PageFor(DOMAIN Q, Q[q])
    BY <1>3, <1>4 DEF P
  <1>6. \A q \in Range(t.free) : Q[q] = Free
    BY <1>2, <1>4
  <1>7. r \in DOMAIN Q /\ Len(Q) = Len(t.pages)
    BY <1>4 DEF P
  <1> DEFINE u == With(t, Q, r)
  <1>8. /\ Fits(t, u) /\ u.pages = Q /\ u.root = r /\ u.disk = t.disk /\ u.free = t.free
    BY <1>4, <1>5, <1>6, <1>7, FitWith
  <1> HIDE DEF u
  <1>9. /\ DOMAIN u.pages = DOMAIN P /\ u.pages[p] = X
        /\ \A q \in DOMAIN P : q # p => u.pages[q] = P[q]
    BY <1>4, <1>8
  <1> QED BY <1>8, <1>9 DEF u, Q, P

\* The same as the code writes it.
LEMMA Puts ==
  ASSUME NEW t \in Tree, NEW p \in DOMAIN t.pages
  PROVE  /\ \A X : [t EXCEPT !.pages[p] = X] = With(t, [t.pages EXCEPT ![p] = X], t.root)
         /\ t.pages[p].kind = "leaf" /\ t.pages[p].kids = {} => \A S :
              [t EXCEPT !.pages[p].keys = S] = With(t, [t.pages EXCEPT ![p] = Leaf(S)], t.root)
         /\ t.pages[p].kind = "inner" /\ t.pages[p].keys = {} => \A F :
              [t EXCEPT !.pages[p].kids = F] = With(t, [t.pages EXCEPT ![p] = Inner(F)], t.root)
  <1>1. t.pages[p] \in Page
    BY DEF Tree
  <1>2. ASSUME NEW X
        PROVE  [t EXCEPT !.pages[p] = X] = With(t, [t.pages EXCEPT ![p] = X], t.root)
    BY DEF With, Tree
  <1>3. ASSUME t.pages[p].kind = "leaf", t.pages[p].kids = {}, NEW S
        PROVE  [t EXCEPT !.pages[p].keys = S] = With(t, [t.pages EXCEPT ![p] = Leaf(S)], t.root)
    <2>1. [t.pages[p] EXCEPT !.keys = S] = Leaf(S)
      BY <1>1, <1>3, LeafWithKeys
    <2>2. [t EXCEPT !.pages[p].keys = S] = [t EXCEPT !.pages[p] = Leaf(S)]
      BY <2>1
    <2> QED BY <1>2, <2>2
  <1>4. ASSUME t.pages[p].kind = "inner", t.pages[p].keys = {}, NEW F
        PROVE  [t EXCEPT !.pages[p].kids = F] = With(t, [t.pages EXCEPT ![p] = Inner(F)], t.root)
    <2>1. [t.pages[p] EXCEPT !.kids = F] = Inner(F)
      BY <1>1, <1>4, InnerWithKids
    <2>2. [t EXCEPT !.pages[p].kids = F] = [t EXCEPT !.pages[p] = Inner(F)]
      BY <2>1
    <2> QED BY <1>2, <2>2
  <1> QED BY <1>2, <1>3, <1>4

LEMMA FitsOn ==
  ASSUME NEW t, NEW u, NEW v, Fits(t, u), Fits(u, v)
  PROVE  Fits(t, v)
  BY DEF Fits

LEMMA LeafFit ==
  ASSUME NEW t, Fit(t), NEW p \in DOMAIN t.pages, t.pages[p].kind = "leaf"
  PROVE  /\ p \notin Range(t.free) /\ t.pages[p].kids = {}
         /\ t.pages[p].keys \subseteq Keys /\ IsFiniteSet(t.pages[p].keys)
  <1>1. t.pages[p] \in Page /\ p \notin Range(t.free)
    BY FitFacts
  <1>2. PageFor(DOMAIN t.pages, t.pages[p])
    BY DEF Fit
  <1> QED BY <1>1, <1>2 DEF PageFor, Page

LEMMA InnerFit ==
  ASSUME NEW t, Fit(t), NEW p \in DOMAIN t.pages, t.pages[p].kind = "inner"
  PROVE  /\ p \notin Range(t.free) /\ t.pages[p].keys = {}
         /\ Links(DOMAIN t.pages, t.pages[p].kids)
  <1>1. p \notin Range(t.free)
    BY FitFacts
  <1>2. PageFor(DOMAIN t.pages, t.pages[p])
    BY DEF Fit
  <1> QED BY <1>1, <1>2 DEF PageFor

\* A page becomes a leaf with other keys, or an inner page with other kids.
LEMMA LeafPut ==
  ASSUME NEW t, Fit(t), NEW p \in DOMAIN t.pages, p \notin Range(t.free),
         NEW S, S \subseteq Keys, IsFiniteSet(S)
  PROVE  LET u == With(t, [t.pages EXCEPT ![p] = Leaf(S)], t.root)
         IN  /\ Fits(t, u) /\ u.root = t.root /\ u.free = t.free
             /\ DOMAIN u.pages = DOMAIN t.pages /\ u.pages[p] = Leaf(S)
             /\ \A q \in DOMAIN t.pages : q # p => u.pages[q] = t.pages[q]
  <1>1. Leaf(S) \in Page /\ PageFor(DOMAIN t.pages, Leaf(S)) /\ t.root \in DOMAIN t.pages
    BY LeafIsPage, PagesFor DEF Fit
  <1> QED BY <1>1, FitPut

LEMMA InnerPut ==
  ASSUME NEW t, Fit(t), NEW p \in DOMAIN t.pages, p \notin Range(t.free),
         NEW F, Links(DOMAIN t.pages, F), NEW r \in DOMAIN t.pages
  PROVE  LET u == With(t, [t.pages EXCEPT ![p] = Inner(F)], r)
         IN  /\ Fits(t, u) /\ u.root = r /\ u.free = t.free
             /\ DOMAIN u.pages = DOMAIN t.pages /\ u.pages[p] = Inner(F)
             /\ \A q \in DOMAIN t.pages : q # p => u.pages[q] = t.pages[q]
  <1>1. F \in SUBSET (Nat \X Nat)
    BY FitFacts DEF Links
  <1>2. Inner(F) \in Page /\ PageFor(DOMAIN t.pages, Inner(F))
    BY <1>1, InnerIsPage, PagesFor
  <1> QED BY <1>2, FitPut

LEMMA NewRootFits ==
  ASSUME NEW t, Fit(t), NEW a \in DOMAIN t.pages, NEW c \in DOMAIN t.pages, NEW low \in Nat \ {0}
  PROVE  Fits(t, createNewRoot(t, a, low, c))
  <1> DEFINE u == allocatePage(t)
             n == NewPage(t)
             F == {<<0, a>>, <<low, c>>}
             v == With(u, [u.pages EXCEPT ![n] = Inner(F)], n)
  <1>1. Fits(t, u) /\ Spare(u, n)
    BY FitAllocates
  <1>2. createNewRoot(t, a, low, c) = [u EXCEPT !.pages[n] = Inner(F), !.root = n]
    BY DEF createNewRoot
  <1> HIDE DEF u, n
  <1>3. Fit(u) /\ n \in DOMAIN u.pages /\ n \notin Range(u.free) /\ u \in Tree
    BY <1>1, FitFacts DEF Fits, Spare
  <1>4. [u EXCEPT !.pages[n] = Inner(F), !.root = n] = v
    <2> DEFINE X == Inner(F)
    <2> HIDE DEF X
    <2>1. [u EXCEPT !.pages[n] = X, !.root = n] = With(u, [u.pages EXCEPT ![n] = X], n)
      BY <1>3 DEF With, Tree
    <2> QED BY <2>1 DEF X
  <1>5. Links(DOMAIN u.pages, F)
    <2>1. IsFiniteSet(F)
      <3> DEFINE x == <<0, a>>
                 y == <<low, c>>
      <3> HIDE DEF x, y
      <3>1. IsFiniteSet({x, y})
        <4>1. IsFiniteSet({x}) /\ {x, y} = {x} \cup {y}
          BY FS_Singleton
        <4> QED BY <4>1, FS_AddElement
      <3> QED BY <3>1 DEF x, y
    <2>2. a \in DOMAIN u.pages /\ c \in DOMAIN u.pages
      BY <1>1 DEF Fits
    <2>3. F \subseteq Nat \X DOMAIN u.pages
      BY <2>2
    <2>4. <<0, a>> \in F /\ <<0, a>>[1] = 0 /\ <<low, c>>[1] # 0
      OBVIOUS
    <2> QED BY <2>1, <2>3, <2>4 DEF Links
  <1> HIDE DEF F
  <1>6. Fits(u, v)
    BY <1>3, <1>5, InnerPut
  <1> HIDE DEF v
  <1> QED BY <1>1, <1>2, <1>4, <1>6, FitsOn

LEMMA SplitFits ==
  ASSUME NEW t, Fit(t), NEW k \in Keys, Found(t, k),
         Cardinality(t.pages[LeafOf(t, k)].keys \cup {k}) >= 2
  PROVE  Fits(t, splitLeafAndInsert(t, k))
  <1> DEFINE l == LeafOf(t, k)
             q == ParentOf(t, k)
             all == t.pages[l].keys \cup {k}
             A == Lower(all)
             B == all \ A
             low == Min(B)
             a == allocatePage(t)
             r == NewPage(t)
             h == [a EXCEPT !.pages[l] = Leaf(A), !.pages[r] = Leaf(B)]
             v == With(a, [a.pages EXCEPT ![l] = Leaf(A)], a.root)
             w == With(v, [v.pages EXCEPT ![r] = Leaf(B)], v.root)
             out == splitLeafAndInsert(t, k)
  <1>1. k \in Nat
    BY TreePagesAssumption
  <1>2. /\ l \in DOMAIN t.pages /\ t.pages[l].kind = "leaf"
        /\ l # t.root => /\ q \in DOMAIN t.pages /\ t.pages[q].kind = "inner"
    BY <1>1, LeafAndParent DEF Found
  <1>3. out = IF l = t.root THEN createNewRoot(h, l, low, r)
              ELSE [h EXCEPT !.pages[q].kids = @ \cup {<<low, r>>}]
    BY DEF splitLeafAndInsert
  <1>4. all \subseteq Keys /\ IsFiniteSet(all) /\ Cardinality(all) >= 2
    <2> DEFINE S == t.pages[l].keys
    <2>1. S \subseteq Keys /\ IsFiniteSet(S)
      BY <1>2, LeafFit
    <2> HIDE DEF S
    <2>2. IsFiniteSet(S \cup {k})
      BY <2>1, FS_AddElement
    <2> QED BY <2>1, <2>2 DEF S
  <1> HIDE DEF l, q, all
  <1>5. /\ A \subseteq Keys /\ IsFiniteSet(A) /\ B \subseteq Keys /\ IsFiniteSet(B)
        /\ low \in Nat \ {0}
    BY <1>4, Halved
  <1> HIDE DEF A, B, low, out
  <1>6. /\ Fits(t, a) /\ Spare(a, r) /\ a.root = t.root
        /\ r \in DOMAIN t.pages => t.pages[r] = Free
        /\ \A p \in DOMAIN t.pages : a.pages[p] = t.pages[p]
    BY FitAllocates
  <1> HIDE DEF a, r
  <1>7. /\ Fit(a) /\ a \in Tree /\ l \in DOMAIN a.pages /\ a.pages[l].kind = "leaf" /\ l # r
        /\ l \notin Range(a.free) /\ r \in DOMAIN a.pages /\ r \notin Range(a.free)
        /\ q \in DOMAIN t.pages => q \in DOMAIN a.pages /\ (t.pages[q].kind = "inner" => q # r)
    <2>1. Fit(a) /\ l \in DOMAIN a.pages /\ a.pages[l].kind = "leaf" /\ l # r
      BY <1>2, <1>6 DEF Fits, Free
    <2>2. l \notin Range(a.free) /\ a \in Tree
      BY <2>1, LeafFit, FitFacts
    <2> QED BY <1>6, <2>1, <2>2 DEF Spare, Fits, Free
  <1>8. /\ Fits(a, v) /\ v.root = a.root /\ v.free = a.free /\ DOMAIN v.pages = DOMAIN a.pages
        /\ \A p \in DOMAIN a.pages : p # l => v.pages[p] = a.pages[p]
    BY <1>5, <1>7, LeafPut
  <1>9. [a EXCEPT !.pages[l] = Leaf(A)] = v
    BY <1>7, Puts
  <1> HIDE DEF v
  <1>10. /\ Fits(v, w) /\ w.root = v.root /\ w.free = v.free /\ DOMAIN w.pages = DOMAIN v.pages
         /\ \A p \in DOMAIN v.pages : p # r => w.pages[p] = v.pages[p]
    <2>1. Fit(v) /\ r \in DOMAIN v.pages /\ r \notin Range(v.free)
      BY <1>7, <1>8 DEF Fits
    <2> QED BY <1>5, <2>1, LeafPut
  <1>11. [v EXCEPT !.pages[r] = Leaf(B)] = w
    <2>1. v \in Tree /\ r \in DOMAIN v.pages
      BY <1>7, <1>8, FitFacts DEF Fits
    <2> QED BY <2>1, Puts
  <1>12. h = w
    BY <1>9, <1>11
  <1> HIDE DEF w, h
  <1>13. Fits(t, w)
    BY <1>6, <1>8, <1>10, FitsOn
  <1>14. CASE l = t.root
    <2>1. Fit(w) /\ l \in DOMAIN w.pages /\ r \in DOMAIN w.pages
      BY <1>7, <1>8, <1>10, <1>13 DEF Fits
    <2>2. Fits(w, createNewRoot(w, l, low, r))
      BY <1>5, <2>1, NewRootFits
    <2> QED BY <1>3, <1>12, <1>13, <1>14, <2>2, FitsOn DEF out
  <1>15. CASE l # t.root
    <2> DEFINE kids == w.pages[q].kids
               F == kids \cup {<<low, r>>}
               u == With(w, [w.pages EXCEPT ![q] = Inner(F)], w.root)
    <2>1. /\ q \in DOMAIN w.pages /\ w.pages[q].kind = "inner" /\ r \in DOMAIN w.pages
          /\ Fit(w) /\ w.root \in DOMAIN w.pages
      <3>1. q \in DOMAIN t.pages /\ t.pages[q].kind = "inner" /\ q # l /\ q # r
        BY <1>2, <1>7, <1>15
      <3>2. w.pages[q] = t.pages[q] /\ q \in DOMAIN w.pages
        BY <1>6, <1>7, <1>8, <1>10, <3>1
      <3> QED BY <1>7, <1>8, <1>10, <1>13, <3>1, <3>2 DEF Fits, Fit
    <2>2. /\ Links(DOMAIN w.pages, kids) /\ q \notin Range(w.free) /\ w.pages[q].keys = {}
      BY <2>1, InnerFit
    <2>3. Links(DOMAIN w.pages, F)
      <3> HIDE DEF kids
      <3> QED BY <1>5, <2>1, <2>2, LinksChange
    <2>4. out = [w EXCEPT !.pages[q].kids = F]
      BY <1>3, <1>12, <1>15
    <2>5. w \in Tree
      BY <2>1, FitFacts
    <2> HIDE DEF F
    <2>6. Fits(w, u)
      BY <2>1, <2>2, <2>3, InnerPut
    <2>7. [w EXCEPT !.pages[q].kids = F] = u
      BY <2>1, <2>2, <2>5, Puts
    <2> HIDE DEF u
    <2> QED BY <1>13, <2>4, <2>6, <2>7, FitsOn DEF out
  <1> QED BY <1>14, <1>15 DEF out

LEMMA InsertFits ==
  ASSUME NEW t, Fit(t), NEW k \in Keys
  PROVE  Fits(t, insert(t, k))
  <1> DEFINE l == LeafOf(t, k)
             S == t.pages[l].keys
             T == S \cup {k}
             u == With(t, [t.pages EXCEPT ![l] = Leaf(T)], t.root)
  <1>1. CASE ~Found(t, k) \/ k \in S
    BY <1>1 DEF insert, Fits
  <1>2. CASE Found(t, k) /\ k \notin S
    <2>1. k \in Nat
      BY TreePagesAssumption
    <2>2. l \in DOMAIN t.pages /\ t.pages[l].kind = "leaf" /\ t \in Tree
      BY <1>2, <2>1, LeafAndParent, FitFacts DEF Found
    <2>3. /\ l \notin Range(t.free) /\ t.pages[l].kids = {} /\ S \subseteq Keys /\ IsFiniteSet(S)
      BY <2>2, LeafFit
    <2>4. /\ T \subseteq Keys /\ IsFiniteSet(T) /\ Cardinality(T) = Cardinality(S) + 1
          /\ Cardinality(S) \in Nat
      <3> HIDE DEF S
      <3> QED BY <1>2, <2>3, FS_AddElement, FS_CardinalityType
    <2>5. insert(t, k) = IF Cardinality(S) < LeafCap THEN [t EXCEPT !.pages[l].keys = T]
                         ELSE splitLeafAndInsert(t, k)
      BY <1>2 DEF insert
    <2>6. CASE Cardinality(S) < LeafCap
      <3> HIDE DEF T, l
      <3>1. Fits(t, u)
        BY <2>2, <2>3, <2>4, LeafPut
      <3>2. [t EXCEPT !.pages[l].keys = T] = u
        BY <2>2, <2>3, Puts
      <3> QED BY <2>5, <2>6, <3>1, <3>2
    <2>7. CASE ~(Cardinality(S) < LeafCap)
      <3>1. Cardinality(T) >= 2
        <4> HIDE DEF S, T
        <4> QED BY <2>4, <2>7, TreePagesAssumption
      <3> QED BY <1>2, <2>5, <2>7, <3>1, SplitFits
    <2> QED BY <2>6, <2>7
  <1> QED BY <1>1, <1>2

LEMMA MergeFits ==
  ASSUME NEW t, Fit(t), NEW q \in DOMAIN t.pages, t.pages[q].kind = "inner",
         NEW b \in t.pages[q].kids, NEW c \in t.pages[q].kids, b[1] < c[1],
         t.pages[b[2]].kind = "leaf", t.pages[c[2]].kind = "leaf"
  PROVE  LET m == mergeLeaf(t, q, b, c)
         IN  /\ Fits(t, m)
             /\ q = t.root => Fits(t, collapseRootIfEmpty(m))
  <1> DEFINE D == DOMAIN t.pages
             l == b[2]
             r == c[2]
             S == t.pages[l].keys \cup t.pages[r].keys
             v == With(t, [t.pages EXCEPT ![l] = Leaf(S)], t.root)
             F == t.pages[q].kids \ {c}
             w == With(v, [v.pages EXCEPT ![q] = Inner(F)], v.root)
             m == mergeLeaf(t, q, b, c)
  <1>1. /\ Links(D, t.pages[q].kids) /\ q \notin Range(t.free) /\ t.pages[q].keys = {}
    BY InnerFit
  <1>2. /\ l \in D /\ r \in D /\ b[1] \in Nat /\ c[1] \in Nat /\ c[1] # 0
    BY <1>1 DEF Links
  <1>3. l # q /\ r # q /\ t \in Tree
    BY FitFacts
  <1>4. /\ l \notin Range(t.free) /\ r \notin Range(t.free) /\ t.pages[l].kids = {}
        /\ S \subseteq Keys /\ IsFiniteSet(S)
    <2>1. /\ l \notin Range(t.free) /\ t.pages[l].kids = {}
          /\ t.pages[l].keys \subseteq Keys /\ IsFiniteSet(t.pages[l].keys)
      BY <1>2, LeafFit
    <2>2. /\ r \notin Range(t.free)
          /\ t.pages[r].keys \subseteq Keys /\ IsFiniteSet(t.pages[r].keys)
      BY <1>2, LeafFit
    <2>3. IsFiniteSet(S)
      BY <2>1, <2>2, FS_Union
    <2> QED BY <2>1, <2>2, <2>3
  <1>5. m = markPageFreeInPlace([t EXCEPT !.pages[l].keys = S, !.pages[q].kids = F], r)
    <2>1. [t EXCEPT !.pages[l].keys = @ \cup t.pages[r].keys, !.pages[q].kids = @ \ {c}]
            = [t EXCEPT !.pages[l].keys = S, !.pages[q].kids = F]
      BY <1>2, <1>3 DEF Tree
    <2> QED BY <2>1 DEF mergeLeaf
  <1>6. Links(D, F)
    BY <1>1, <1>2, LinksChange
  <1> HIDE DEF S, F, l, r, m
  <1>7. /\ Fits(t, v) /\ v.root = t.root /\ v.free = t.free /\ DOMAIN v.pages = D
        /\ v.pages[l] = Leaf(S) /\ \A p \in D : p # l => v.pages[p] = t.pages[p]
    BY <1>2, <1>4, LeafPut
  <1>8. [t EXCEPT !.pages[l].keys = S] = v
    BY <1>2, <1>3, <1>4, Puts DEF l
  <1> HIDE DEF v
  <1>9. /\ Fit(v) /\ v \in Tree /\ q \in DOMAIN v.pages /\ v.pages[q].kind = "inner"
        /\ v.pages[q].keys = {}
    BY <1>1, <1>3, <1>7, FitFacts DEF Fits
  <1>10. /\ Fits(v, w) /\ w.root = v.root /\ w.free = v.free /\ DOMAIN w.pages = D
         /\ w.pages[q] = Inner(F) /\ \A p \in D : p # q => w.pages[p] = v.pages[p]
    <2>1. v.root \in DOMAIN v.pages /\ Links(DOMAIN v.pages, F) /\ q \notin Range(v.free)
      BY <1>1, <1>6, <1>7, <1>9 DEF Fit
    <2> QED BY <1>7, <1>9, <2>1, InnerPut
  <1>11. [v EXCEPT !.pages[q].kids = F] = w
    BY <1>9, Puts
  <1>12. m = markPageFreeInPlace(w, r)
    BY <1>5, <1>8, <1>11
  <1> HIDE DEF w
  <1>13. /\ Fit(w) /\ r \in DOMAIN w.pages /\ r \notin Range(w.free)
    BY <1>2, <1>4, <1>7, <1>10 DEF Fits
  <1>14. /\ Fits(w, m) /\ m.root = w.root /\ DOMAIN m.pages = D
         /\ \A p \in D : p # r => m.pages[p] = w.pages[p]
    BY <1>10, <1>12, <1>13, FitFrees
  <1>15. Fits(t, m)
    BY <1>7, <1>10, <1>14, FitsOn
  <1>16. ASSUME q = t.root PROVE Fits(t, collapseRootIfEmpty(m))
    <2> DEFINE kids == m.pages[m.root].kids
               e == CHOOSE x \in kids : TRUE
               n == [m EXCEPT !.root = e[2]]
    <2>1. m.root = q /\ m.pages[q] = Inner(F) /\ q \in D
      BY <1>3, <1>7, <1>10, <1>14, <1>16
    <2>2. Links(D, kids) /\ q \notin Range(m.free) /\ Fit(m)
      <3>1. Fit(m) /\ q \in DOMAIN m.pages /\ m.pages[q].kind = "inner"
        BY <1>14, <1>15, <2>1 DEF Fits, Inner
      <3> QED BY <1>14, <2>1, <3>1, InnerFit
    <2>3. e[2] \in D
      <3>1. e \in kids
        BY <2>2 DEF Links
      <3> HIDE DEF e, kids
      <3> QED BY <2>2, <3>1 DEF Links
    <2>4. collapseRootIfEmpty(m) = IF Cardinality(kids) # 1 THEN m ELSE markPageFreeInPlace(n, q)
      BY <2>1 DEF collapseRootIfEmpty
    <2> HIDE DEF e
    <2>5. Fits(m, n) /\ n.free = m.free /\ DOMAIN n.pages = D
      <3> DEFINE r2 == e[2]
      <3>1. r2 \in DOMAIN m.pages /\ n = [m EXCEPT !.root = r2]
        BY <1>14, <2>3
      <3> HIDE DEF n, r2
      <3>2. Fits(m, n) /\ n.free = m.free /\ n.pages = m.pages
        BY <2>2, <3>1, FitRoot
      <3> QED BY <1>14, <3>2
    <2> HIDE DEF n
    <2>6. Fits(n, markPageFreeInPlace(n, q))
      BY <2>1, <2>2, <2>5, FitFrees DEF Fits
    <2> QED BY <1>15, <2>4, <2>5, <2>6, FitsOn
  <1> QED BY <1>15, <1>16 DEF m

LEMMA ShareFits ==
  ASSUME NEW t, Fit(t), NEW q \in DOMAIN t.pages, t.pages[q].kind = "inner",
         NEW b \in t.pages[q].kids, NEW c \in t.pages[q].kids, b[1] < c[1],
         t.pages[b[2]].kind = "leaf", t.pages[c[2]].kind = "leaf",
         Cardinality(t.pages[b[2]].keys) + Cardinality(t.pages[c[2]].keys) > 2
  PROVE  Fits(t, redistributeLeaves(t, q, b, c))
  <1> DEFINE D == DOMAIN t.pages
             l == b[2]
             r == c[2]
             S == t.pages[l].keys
             T == t.pages[r].keys
             all == S \cup T
             A == Lower(all)
             B == all \ A
             low == Min(B)
             F == (t.pages[q].kids \ {c}) \cup {<<low, r>>}
             u == With(t, [t.pages EXCEPT ![l] = Leaf(A)], t.root)
             v == With(u, [u.pages EXCEPT ![r] = Leaf(B)], u.root)
             w == With(v, [v.pages EXCEPT ![q] = Inner(F)], v.root)
             out == redistributeLeaves(t, q, b, c)
  <1>1. /\ Links(D, t.pages[q].kids) /\ q \notin Range(t.free) /\ t.pages[q].keys = {}
    BY InnerFit
  <1>2. /\ l \in D /\ r \in D /\ b[1] \in Nat /\ c[1] \in Nat /\ c[1] # 0
    BY <1>1 DEF Links
  <1>3. l # q /\ r # q /\ t \in Tree
    BY FitFacts
  <1>4. /\ l \notin Range(t.free) /\ r \notin Range(t.free)
        /\ S \subseteq Keys /\ IsFiniteSet(S) /\ T \subseteq Keys /\ IsFiniteSet(T)
    BY <1>2, LeafFit
  <1>5. all \subseteq Keys /\ IsFiniteSet(all) /\ Cardinality(all) >= 2
    <2>1. Cardinality(S) + Cardinality(T) > 2
      OBVIOUS
    <2> HIDE DEF S, T
    <2>2. IsFiniteSet(all)
      BY <1>4, FS_Union
    <2>3. Cardinality(S) <= Cardinality(all) /\ Cardinality(T) <= Cardinality(all)
      <3>1. S \subseteq all /\ T \subseteq all
        OBVIOUS
      <3> HIDE DEF all
      <3> QED BY <2>2, <3>1, FS_Subset
    <2>4. Cardinality(S) \in Nat /\ Cardinality(T) \in Nat /\ Cardinality(all) \in Nat
      BY <1>4, <2>2, FS_CardinalityType
    <2>5. Cardinality(all) >= 2
      <3> HIDE DEF all
      <3> QED BY <2>1, <2>3, <2>4
    <2> QED BY <1>4, <2>2, <2>5
  <1>6. out = [t EXCEPT !.pages[l] = Leaf(A), !.pages[r] = Leaf(B), !.pages[q].kids = F]
    <2>1. out = [t EXCEPT !.pages[l] = Leaf(A), !.pages[r] = Leaf(B),
                          !.pages[q].kids = (@ \ {c}) \cup {<<low, r>>}]
      BY DEF redistributeLeaves
    <2> HIDE DEF A, B, low, out
    <2> QED BY <1>2, <1>3, <2>1 DEF Tree
  <1> HIDE DEF all
  <1>7. /\ A \subseteq Keys /\ IsFiniteSet(A) /\ B \subseteq Keys /\ IsFiniteSet(B)
        /\ low \in Nat \ {0}
    BY <1>5, Halved
  <1> HIDE DEF A, B, low, out
  <1>8. Links(D, F)
    BY <1>1, <1>2, <1>7, LinksChange
  <1> HIDE DEF F, l, r
  <1>9. /\ Fits(t, u) /\ u.root = t.root /\ u.free = t.free /\ DOMAIN u.pages = D
        /\ \A p \in D : p # l => u.pages[p] = t.pages[p]
    BY <1>2, <1>4, <1>7, LeafPut
  <1>10. [t EXCEPT !.pages[l] = Leaf(A)] = u
    BY <1>2, <1>3, Puts
  <1> HIDE DEF u
  <1>11. /\ Fits(u, v) /\ v.root = u.root /\ v.free = u.free /\ DOMAIN v.pages = D
         /\ \A p \in D : p # r => v.pages[p] = u.pages[p]
    <2>1. Fit(u) /\ r \in DOMAIN u.pages /\ r \notin Range(u.free)
      BY <1>2, <1>4, <1>9 DEF Fits
    <2> QED BY <1>7, <1>9, <2>1, LeafPut
  <1>12. [u EXCEPT !.pages[r] = Leaf(B)] = v
    <2>1. u \in Tree /\ r \in DOMAIN u.pages
      BY <1>2, <1>9, FitFacts DEF Fits
    <2> QED BY <2>1, Puts
  <1> HIDE DEF v
  <1>13. /\ v.pages[q] = t.pages[q] /\ q \in DOMAIN v.pages /\ Fit(v) /\ v \in Tree
         /\ v.root \in DOMAIN v.pages /\ q \notin Range(v.free)
    BY <1>1, <1>3, <1>9, <1>11, FitFacts DEF Fits
  <1>14. Fits(v, w)
    <2>1. Links(DOMAIN v.pages, F)
      BY <1>8, <1>11
    <2> QED BY <1>13, <2>1, InnerPut
  <1>15. [v EXCEPT !.pages[q].kids = F] = w
    BY <1>1, <1>13, Puts
  <1>16. out = [v EXCEPT !.pages[q].kids = F]
    BY <1>6, <1>10, <1>12
  <1> HIDE DEF w
  <1> QED BY <1>9, <1>11, <1>14, <1>15, <1>16, FitsOn DEF out

LEMMA DeleteFits ==
  ASSUME NEW t, Fit(t), NEW k \in Keys
  PROVE  Fits(t, delete(t, k))
  <1> DEFINE l == LeafOf(t, k)
             q == ParentOf(t, k)
             S == t.pages[l].keys
             T == S \ {k}
             z == With(t, [t.pages EXCEPT ![l] = Leaf(T)], t.root)
  <1>1. CASE ~Found(t, k) \/ k \notin S
    BY <1>1 DEF delete, Fits
  <1>2. CASE Found(t, k) /\ k \in S
    <2>1. k \in Nat
      BY TreePagesAssumption
    <2>2. /\ l \in DOMAIN t.pages /\ t.pages[l].kind = "leaf" /\ t \in Tree
          /\ l # t.root => /\ q \in DOMAIN t.pages /\ t.pages[q].kind = "inner"
                           /\ \E e \in t.pages[q].kids : e[2] = l
      BY <1>2, <2>1, LeafAndParent, FitFacts DEF Found
    <2>3. /\ l \notin Range(t.free) /\ t.pages[l].kids = {} /\ S \subseteq Keys /\ IsFiniteSet(S)
      BY <2>2, LeafFit
    <2>4. T \subseteq Keys /\ IsFiniteSet(T)
      BY <2>3, FS_RemoveElement
    <2> HIDE DEF T
    <2>5. [t EXCEPT !.pages[l].keys = T] = z
      <3> HIDE DEF l
      <3> QED BY <2>2, <2>3, Puts
    <2>6. delete(t, k) = IF l = t.root THEN z ELSE rebalanceAfterDelete(z, q, l)
      <3>1. delete(t, k) = IF l = t.root THEN [t EXCEPT !.pages[l].keys = T]
                           ELSE rebalanceAfterDelete([t EXCEPT !.pages[l].keys = T], q, l)
        BY <1>2 DEF delete, T
      <3> QED BY <2>5, <3>1
    <2> HIDE DEF l, q
    <2>7. /\ Fits(t, z) /\ z.root = t.root /\ DOMAIN z.pages = DOMAIN t.pages
          /\ z.pages[l] = Leaf(T) /\ \A p \in DOMAIN t.pages : p # l => z.pages[p] = t.pages[p]
      BY <2>2, <2>3, <2>4, LeafPut
    <2> HIDE DEF z
    <2>8. CASE l = t.root
      BY <2>6, <2>7, <2>8
    <2>9. CASE l # t.root
      <3> DEFINE kids == z.pages[q].kids
                 b == Siblings(kids, l)[1]
                 c == Siblings(kids, l)[2]
                 used(p) == Cardinality(z.pages[p].keys)
                 v == rebalanceAfterDelete(z, q, l)
      <3>1. /\ Fit(z) /\ q \in DOMAIN z.pages /\ z.pages[q].kind = "inner"
            /\ \E e \in kids : e[2] = l
        <4>1. q # l
          BY <2>2, <2>9
        <4> QED BY <2>2, <2>7, <2>9, <4>1 DEF Fits
      <3>2. Links(DOMAIN z.pages, kids)
        BY <3>1, InnerFit
      <3>3. v = IF Cardinality(kids) = 1 \/ \E e \in {b, c} : z.pages[e[2]].kind # "leaf" THEN z
                ELSE IF used(b[2]) + used(c[2]) <= LeafCap
                     THEN IF q = z.root THEN collapseRootIfEmpty(mergeLeaf(z, q, b, c))
                          ELSE mergeLeaf(z, q, b, c)
                ELSE IF 3 * used(l) < LeafCap THEN redistributeLeaves(z, q, b, c)
                ELSE z
        <4>1. mergeLeaf(z, q, b, c).root = z.root
          BY DEF mergeLeaf, markPageFreeInPlace
        <4> QED BY <4>1 DEF rebalanceAfterDelete
      <3>4. Fits(z, v)
        <4>1. CASE Cardinality(kids) = 1 \/ \E e \in {b, c} : z.pages[e[2]].kind # "leaf"
          BY <3>1, <3>3, <4>1 DEF Fits
        <4>2. CASE Cardinality(kids) # 1 /\ \A e \in {b, c} : z.pages[e[2]].kind = "leaf"
          <5>1. b \in kids /\ c \in kids /\ b[1] < c[1]
            <6> HIDE DEF kids
            <6> QED BY <3>1, <3>2, <4>2, SiblingsAre
          <5>2. z.pages[b[2]].kind = "leaf" /\ z.pages[c[2]].kind = "leaf"
            BY <4>2
          <5> HIDE DEF b, c, v
          <5>3. /\ Fits(z, mergeLeaf(z, q, b, c))
                /\ q = z.root => Fits(z, collapseRootIfEmpty(mergeLeaf(z, q, b, c)))
            BY <3>1, <5>1, <5>2, MergeFits
          <5>4. ASSUME ~(used(b[2]) + used(c[2]) <= LeafCap)
                PROVE  Fits(z, redistributeLeaves(z, q, b, c))
            <6>1. b[2] \in DOMAIN z.pages /\ c[2] \in DOMAIN z.pages
              BY <3>2, <5>1 DEF Links
            <6>2. used(b[2]) \in Nat /\ used(c[2]) \in Nat
              BY <3>1, <5>2, <6>1, LeafFit, FS_CardinalityType
            <6> HIDE DEF used
            <6>3. used(b[2]) + used(c[2]) > 2
              BY <5>4, <6>2, TreePagesAssumption
            <6>4. Cardinality(z.pages[b[2]].keys) + Cardinality(z.pages[c[2]].keys) > 2
              BY <6>3 DEF used
            <6> QED BY <3>1, <5>1, <5>2, <6>4, ShareFits
          <5>5. Fits(z, z)
            BY <3>1 DEF Fits
          <5>6. \/ v = z
                \/ q = z.root /\ v = collapseRootIfEmpty(mergeLeaf(z, q, b, c))
                \/ v = mergeLeaf(z, q, b, c)
                \/ v = redistributeLeaves(z, q, b, c) /\ ~(used(b[2]) + used(c[2]) <= LeafCap)
            BY <3>3
          <5> QED BY <5>3, <5>4, <5>5, <5>6
        <4> QED BY <4>1, <4>2
      <3>5. delete(t, k) = v
        BY <2>6, <2>9
      <3> HIDE DEF v
      <3> QED BY <2>7, <3>4, <3>5, FitsOn
    <2> QED BY <2>8, <2>9
  <1> QED BY <1>1, <1>2

LEMMA ApplyFits ==
  ASSUME NEW t, Fit(t), NEW e \in Op
  PROVE  Fits(t, Apply(t, e))
  <1>1. e.key \in Keys
    BY DEF Op
  <1> QED BY <1>1, InsertFits, DeleteFits DEF Apply

\* What is in memory is written, or what is in the file is read.
LEMMA Copied ==
  ASSUME NEW t, Fit(t)
  PROVE  /\ Fits(t, [t EXCEPT !.disk = t.pages])
         /\ \A r \in DOMAIN t.pages : Fits(t, [t EXCEPT !.pages = t.disk, !.root = r])
         /\ \A p \in DOMAIN t.pages : Fits(t, [t EXCEPT !.disk[p] = t.pages[p]])
  <1>1. /\ t \in Tree /\ t.pages \in Seq(Page) /\ t.disk \in Seq(Page)
        /\ Len(t.pages) = Len(t.disk) /\ DOMAIN t.disk = DOMAIN t.pages /\ DOMAIN t.pages \subseteq Nat
    BY FitFacts
  <1>2. /\ IsInjective(t.free) /\ t.root \in DOMAIN t.pages
        /\ \A p \in Range(t.free) : p \in DOMAIN t.pages /\ t.pages[p] = Free /\ t.disk[p] = Free
        /\ \A p \in DOMAIN t.pages :
             PageFor(DOMAIN t.pages, t.pages[p]) /\ PageFor(DOMAIN t.pages, t.disk[p])
    BY DEF Fit, Stored
  <1>3. ASSUME NEW D \in Seq(Page), Len(D) = Len(t.pages),
               \A p \in DOMAIN t.pages : D[p] = t.pages[p] \/ D[p] = t.disk[p]
        PROVE  Fits(t, [t EXCEPT !.disk = D])
    <2> DEFINE u == [t EXCEPT !.disk = D]
    <2>1. u \in Tree /\ u.pages = t.pages /\ u.root = t.root /\ u.free = t.free /\ u.disk = D
      BY <1>1, <1>3 DEF Tree
    <2> HIDE DEF u
    <2>2. \A p \in DOMAIN t.pages : PageFor(DOMAIN t.pages, D[p])
      BY <1>2, <1>3
    <2>3. \A p \in Range(t.free) : D[p] = Free
      BY <1>2, <1>3
    <2>4. Stored(u)
      BY <1>2, <1>3, <2>1, <2>3 DEF Stored
    <2> QED BY <1>2, <2>1, <2>2, <2>4 DEF Fit, Fits, u
  <1>4. Fits(t, [t EXCEPT !.disk = t.pages])
    BY <1>1, <1>3
  <1>5. ASSUME NEW p \in DOMAIN t.pages PROVE Fits(t, [t EXCEPT !.disk[p] = t.pages[p]])
    <2> DEFINE X == t.pages[p]
               D == [t.disk EXCEPT ![p] = X]
    <2>1. X \in Page /\ p \in DOMAIN t.disk
      BY <1>1
    <2>2. /\ D \in Seq(Page) /\ Len(D) = Len(t.disk) /\ D[p] = X
          /\ \A q \in DOMAIN t.disk : q # p => D[q] = t.disk[q]
      <3> HIDE DEF X
      <3> QED BY <1>1, <2>1, PagePut
    <2>3. [t EXCEPT !.disk[p] = t.pages[p]] = [t EXCEPT !.disk = D]
      BY <1>1 DEF Tree
    <2> HIDE DEF D
    <2>4. \A q \in DOMAIN t.pages : D[q] = t.pages[q] \/ D[q] = t.disk[q]
      BY <1>1, <2>2
    <2> QED BY <1>1, <1>3, <2>2, <2>3, <2>4
  <1>6. ASSUME NEW r \in DOMAIN t.pages
        PROVE  Fits(t, [t EXCEPT !.pages = t.disk, !.root = r])
    <2> DEFINE u == With(t, t.disk, r)
    <2>1. Fits(t, u)
      BY <1>1, <1>2, FitWith
    <2>2. u = [t EXCEPT !.pages = t.disk, !.root = r]
      BY DEF With
    <2> QED BY <2>1, <2>2
  <1> QED BY <1>4, <1>5, <1>6

LEMMA StartsLInv == Init => LInv
  <1> SUFFICES ASSUME Init PROVE LInv
    OBVIOUS
  <1>1. Inv
    BY StartsInv
  <1>2. /\ tree.pages = <<Leaf({})>> /\ tree.disk = <<Free>> /\ tree.root = 1
    BY DEF Init
  <1>3. Stored(tree) /\ header \in DOMAIN tree.pages
    BY <1>1 DEF Inv, TInv, Kept
  <1>4. DOMAIN tree.pages = {1} /\ tree.pages[1] = Leaf({}) /\ tree.disk[1] = Free
    BY <1>2
  <1>5. Fit(tree)
    <2>1. IsFiniteSet({})
      BY FS_EmptySet
    <2> QED BY <1>2, <1>3, <1>4, <2>1, PagesFor DEF Fit
  <1> QED BY <1>1, <1>3, <1>5 DEF Inv, TInv, LInv

LEMMA KeepsLInv == LInv /\ [Next]_vars => LInv'
  <1> SUFFICES ASSUME LInv, [Next]_vars PROVE LInv'
    OBVIOUS
  <1>1. ASSUME NEW e \in Op, tree' = Apply(tree, e), header' = header,
               exposed' = exposed \cup Merged(tree, tree')
        PROVE  /\ Fit(tree') /\ header' \in DOMAIN tree'.pages
               /\ exposed' \subseteq {"young", "saved", "merge", "evict", "roots"}
    <2>1. Fits(tree, Apply(tree, e))
      BY ApplyFits DEF LInv
    <2> QED BY <1>1, <2>1 DEF Fits, LInv, Merged
  <1>2. ASSUME NEW op \in {"insert", "delete"}, NEW k \in Keys, commit(op, k) PROVE LInv'
    <2> DEFINE e == [op |-> op, key |-> k]
    <2>1. e \in Op
      BY DEF Op
    <2>2. /\ tree' = Apply(tree, e) /\ log' = Append(log, e) /\ committed' \subseteq Keys
          /\ exposed' = exposed \cup Merged(tree, tree')
          /\ status' = status /\ header' = header /\ redone' = redone /\ saving' = saving
          /\ status = "open" /\ ~saving
      BY <1>2 DEF commit, Idle, LInv
    <2> HIDE DEF e
    <2>3. log' \in Seq(Op) /\ redone' \in 0..Len(log')
      BY <2>1, <2>2, Logs DEF LInv
    <2> QED BY <1>1, <2>1, <2>2, <2>3 DEF LInv
  <1>3. ASSUME NEW p \in DOMAIN tree.pages, evict(p) PROVE LInv'
    <2>1. /\ tree' = [tree EXCEPT !.disk[p] = tree.pages[p]]
          /\ status' = status /\ header' = header /\ log' = log /\ redone' = redone
          /\ saving' = saving /\ committed' = committed
          /\ exposed' \subseteq {"young", "saved", "merge", "evict", "roots"}
      BY <1>3 DEF evict, LInv
    <2>2. Fits(tree, [tree EXCEPT !.disk[p] = tree.pages[p]])
      BY Copied DEF LInv
    <2> QED BY <2>1, <2>2 DEF LInv, Fits
  <1>4. ASSUME saveTreeRoots PROVE LInv'
    <2>1. tree.root \in DOMAIN tree.pages
      BY DEF LInv, Fit
    <2> QED BY <1>4, <2>1 DEF saveTreeRoots, Idle, LInv
  <1>5. ASSUME flushAll PROVE LInv'
    <2>1. Fits(tree, [tree EXCEPT !.disk = tree.pages])
      BY Copied DEF LInv
    <2> QED BY <1>5, <2>1 DEF flushAll, LInv, Fits
  <1>6. ASSUME checkpoint PROVE LInv'
    <2>1. Fits(tree, [tree EXCEPT !.disk = tree.pages])
      BY Copied DEF LInv
    <2>2. <<>> \in Seq(Op) /\ Len(<<>>) = 0
      OBVIOUS
    <2>3. redone' \in 0..Len(log')
      BY <1>6, <2>2 DEF checkpoint, Idle, LInv
    <2> QED BY <1>6, <2>1, <2>2, <2>3 DEF checkpoint, Idle, LInv, Fits
  <1>7. ASSUME kill PROVE LInv'
    <2>1. Fits(tree, [tree EXCEPT !.pages = tree.disk, !.root = header])
      BY Copied DEF LInv
    <2>2. Len(log) \in Nat
      BY DEF LInv
    <2>3. Fit(tree') /\ header' \in DOMAIN tree'.pages
      <3> DEFINE u == [tree EXCEPT !.pages = tree.disk, !.root = header]
      <3>1. tree' = u /\ header' = header
        BY <1>7 DEF kill
      <3>2. Fit(u) /\ DOMAIN tree.pages \subseteq DOMAIN u.pages
        BY <2>1 DEF Fits
      <3> HIDE DEF u
      <3> QED BY <3>1, <3>2 DEF LInv
    <2>4. status' = "closed" /\ redone' = 0 /\ saving' = FALSE /\ exposed' = {}
          /\ log' = log /\ committed' = committed
      BY <1>7 DEF kill
    <2>5. 0 \in 0..Len(log') /\ log' \in Seq(Op) /\ committed' \subseteq Keys
      BY <2>2, <2>4 DEF LInv
    <2> QED BY <2>3, <2>4, <2>5 DEF LInv
  <1>8. ASSUME open PROVE LInv'
    BY <1>8 DEF open, LInv
  <1>9. ASSUME redo PROVE LInv'
    <2>1. redone + 1 \in 1..Len(log) /\ log[redone + 1] \in Op
      BY <1>9 DEF redo, LInv
    <2>2. redone' \in 0..Len(log')
      BY <1>9, <2>1 DEF redo
    <2> QED BY <1>1, <1>9, <2>1, <2>2 DEF redo, LInv
  <1>10. ASSUME recovered PROVE LInv'
    <2>1. tree.root \in DOMAIN tree.pages
      BY DEF LInv, Fit
    <2>2. header' \in DOMAIN tree.pages /\ redone' \in 0..Len(log')
      BY <1>10, <2>1 DEF recovered, LInv
    <2> QED BY <1>10, <2>2 DEF recovered, LInv
  <1>11. CASE UNCHANGED vars
    BY <1>11 DEF vars, LInv
  <1> QED BY <1>2, <1>3, <1>4, <1>5, <1>6, <1>7, <1>8, <1>9, <1>10, <1>11 DEF Next

-----------------------------------------------------------------------------
(* The theorems.  In the windows a kill may leave a file that is no tree,  *)
(* so the last two are about processes that are not killed there.          *)

\* A scan reaches the root and the leaves.
LEMMA ReachableIs ==
  ASSUME NEW t, Kept(t)
  PROVE  Reachable(t.pages, t.root) = {t.root} \cup Leaves(EntriesOf(t))
  <1> DEFINE P == t.pages
             root == t.root
             All == {root} \cup Leaves(EntriesOf(t))
             Grow(S) == S \cup {e[2] : e \in UNION {P[p].kids : p \in S}}
             F(r) == [n \in 0..Height |-> IF n = 0 THEN {root} ELSE Grow(r[n - 1])]
             g == [n \in 0..Height |-> IF n = 0 THEN {root} ELSE All]
             R == CHOOSE r : r = F(r)
  <1>1. Height = 4
    BY DEF Height
  <1>2. /\ \A e \in EntriesOf(t) : P[e[2]].kids = {}
        /\ P[root].kind = "inner" => EntriesOf(t) = P[root].kids
        /\ P[root].kind # "inner" => EntriesOf(t) = {<<0, root>>}
    BY KeptTree DEF Good, LeafFor
  <1>3. \A S, x : x \in Grow(S) <=> x \in S \/ \E p \in S : \E e \in P[p].kids : x = e[2]
    OBVIOUS
  <1>4. \A x : x \in Leaves(EntriesOf(t)) <=> \E e \in EntriesOf(t) : x = e[2]
    BY DEF Leaves
  <1> HIDE DEF P, root, Grow
  <1>5. Grow({root}) = All
    <2>1. CASE P[root].kind = "inner"
      BY <1>2, <1>3, <1>4, <2>1
    <2>2. CASE P[root].kind # "inner"
      <3>1. P[root].kids = {} /\ All = {root}
        <4>1. <<0, root>> \in EntriesOf(t) /\ <<0, root>>[2] = root
          BY <1>2, <2>2
        <4>2. \A e \in EntriesOf(t) : e[2] = root
          BY <1>2, <2>2
        <4>4. root \in Leaves(EntriesOf(t))
          BY <1>4, <4>1
        <4>5. \A x \in Leaves(EntriesOf(t)) : x = root
          BY <1>4, <4>2
        <4>3. P[root].kids = {}
          BY <1>2, <4>1
        <4> QED BY <4>3, <4>4, <4>5 DEF All
      <3> QED BY <1>3, <3>1
    <2> QED BY <2>1, <2>2
  <1>6. Grow(All) = All
    <2>1. \A p \in Leaves(EntriesOf(t)) : P[p].kids = {}
      BY <1>2, <1>4
    <2>2. \A x : x \in Grow(All) => x \in All
      <3>1. SUFFICES ASSUME NEW p \in All, NEW e \in P[p].kids PROVE e[2] \in All
        BY <1>3
      <3>2. p = root
        BY <2>1, <3>1
      <3>3. e[2] \in Grow({root})
        BY <1>3, <3>2
      <3> QED BY <1>5, <3>3
    <2> QED BY <1>3, <2>2
  <1> HIDE DEF All
  <1>7. g = F(g)
    <2>1. ASSUME NEW n \in 0..Height PROVE g[n] = F(g)[n]
      <3>1. CASE n = 0
        BY <3>1
      <3>2. CASE n = 1
        BY <1>1, <1>5, <3>2
      <3>3. CASE n > 1
        BY <1>1, <1>6, <3>3
      <3> QED BY <1>1, <3>1, <3>2, <3>3
    <2> QED BY <2>1
  <1>8. Reachable(P, root) = R[Height]
    BY DEF Reachable, Grow
  <1>9. R = F(R)
    <2> HIDE DEF F, g
    <2> QED BY <1>7
  <1>10. R[0] = {root} /\ \A n \in 1..Height : R[n] = Grow(R[n - 1])
    <2> HIDE DEF R
    <2>1. \A n \in 0..Height : R[n] = IF n = 0 THEN {root} ELSE Grow(R[n - 1])
      BY <1>9
    <2> QED BY <1>1, <2>1
  <1> HIDE DEF R, F, g
  <1>11. R[4] = All
    <2>1. R[1] = Grow(R[0]) /\ R[2] = Grow(R[1]) /\ R[3] = Grow(R[2]) /\ R[4] = Grow(R[3])
      BY <1>1, <1>10
    <2> QED BY <1>5, <1>6, <1>10, <2>1
  <1> QED BY <1>1, <1>8, <1>11 DEF All, P, root

\* As many leaves as separators.
LEMMA LeavesCount ==
  ASSUME NEW P, NEW E, Good(P, E)
  PROVE  Cardinality(Leaves(E)) = Cardinality(E)
  <1> DEFINE T == Leaves(E)
             g == [e \in E |-> e[2]]
  <1>1. \A e \in E : e[2] \in T
    BY DEF Leaves
  <1>2. \A x \in T : \E e \in E : x = e[2]
    BY DEF Leaves
  <1> HIDE DEF T
  <1>3. g \in [E -> T]
    BY <1>1
  <1>4. g \in Injection(E, T)
    BY <1>3 DEF Good, Injection, IsInjective
  <1>5. g \in Surjection(E, T)
    BY <1>2, <1>3 DEF Surjection
  <1>6. ExistsBijection(E, T)
    BY <1>4, <1>5 DEF ExistsBijection, Bijection
  <1>7. IsFiniteSet(E)
    BY DEF Good
  <1>8. Cardinality(T) = Cardinality(E)
    BY <1>6, <1>7, FS_Bijection
  <1> QED BY <1>8 DEF T

LEMMA LInvTypeOK == LInv => TypeOK
  <1> SUFFICES ASSUME LInv PROVE TypeOK
    OBVIOUS
  <1>1. tree.root \in DOMAIN tree.pages /\ DOMAIN tree.pages = DOMAIN tree.disk
    BY FitFacts DEF LInv
  <1>2. Range(tree.free) \subseteq DOMAIN tree.pages /\ IsInjective(tree.free)
    BY DEF LInv, Fit, Stored
  <1> QED BY <1>1, <1>2 DEF TypeOK, LInv

LEMMA InvTreeIsSound == Inv => TreeIsSound
  <1> SUFFICES ASSUME Inv PROVE TreeIsSound
    OBVIOUS
  <1> DEFINE P == tree.pages
             E == EntriesOf(tree)
             reachable == Reachable(tree.pages, tree.root)
             kids(p) == {e[2] : e \in tree.pages[p].kids}
  <1>1. Kept(tree)
    BY DEF Inv, TInv
  <1>2. /\ Good(P, E) /\ \A e \in E : P[e[2]].kind = "leaf"
        /\ P[tree.root].kind = "inner" => E = P[tree.root].kids
        /\ P[tree.root].kind # "inner" => P[tree.root].kind = "leaf" /\ E = {<<0, tree.root>>}
        /\ HeldBy(tree) = Contents(tree)
    BY <1>1, KeptTree
  <1>3. reachable = {tree.root} \cup Leaves(E)
    BY <1>1, ReachableIs
  <1>4. \A p \in Leaves(E) : P[p].kids = {} /\ P[p].kind = "leaf"
    BY <1>2 DEF Good, LeafFor, Leaves
  <1>5. P[tree.root].kind = "inner" => P[tree.root].keys = {}
    BY <1>1 DEF Kept, Sound
  <1>6. P[tree.root].kind # "inner" => tree.root \in Leaves(E)
    <2>1. SUFFICES ASSUME P[tree.root].kind # "inner" PROVE tree.root \in Leaves(E)
      OBVIOUS
    <2>2. <<0, tree.root>> \in E /\ <<0, tree.root>>[2] = tree.root
      BY <1>2, <2>1
    <2> QED BY <2>2 DEF Leaves
  <1>7. \A p \in reachable : P[p].kind # "free" /\ p \notin Range(tree.free)
    <2>1. \A p \in reachable : P[p].kind \in {"leaf", "inner"}
      BY <1>2, <1>3, <1>4
    <2>2. \A p \in Range(tree.free) : P[p].kind = "free"
      BY <1>1 DEF Kept, Stored, Free
    <2> QED BY <2>1, <2>2
  <1>8. \A p \in reachable : kids(p) # {} => p = tree.root /\ P[p].kind = "inner"
    BY <1>3, <1>4, <1>6
  <1>9. \A p, q \in reachable : p # q => kids(p) \cap kids(q) = {}
    <2> HIDE DEF kids, reachable
    <2> QED BY <1>8
  <1>10. ASSUME NEW p \in reachable PROVE Cardinality(kids(p)) = Cardinality(P[p].kids)
    <2>1. CASE kids(p) = {}
      <3>1. P[p].kids = {}
        BY <2>1
      <3> QED BY <2>1, <3>1
    <2>2. CASE kids(p) # {}
      <3>1. P[p].kids = E
        BY <1>2, <1>8, <2>2
      <3>2. kids(p) = Leaves(E)
        BY <3>1 DEF Leaves
      <3> QED BY <1>2, <3>1, <3>2, LeavesCount
    <2> QED BY <2>1, <2>2
  <1>11. UNION {P[p].keys : p \in reachable} = Contents(tree)
    <2>1. HeldBy(tree) = UNION {P[p].keys : p \in Leaves(E)}
      BY DEF HeldBy, Hold
    <2>2. ASSUME NEW x
          PROVE  (\E p \in reachable : x \in P[p].keys) <=> (\E p \in Leaves(E) : x \in P[p].keys)
      BY <1>3, <1>5, <1>6
    <2> HIDE DEF reachable, E, P
    <2>3. UNION {P[p].keys : p \in reachable} = UNION {P[p].keys : p \in Leaves(E)}
      BY <2>2
    <2> QED BY <1>2, <2>1, <2>3
  <1> HIDE DEF kids
  <1> QED BY <1>7, <1>9, <1>10, <1>11 DEF TreeIsSound, kids

LEMMA Always ==
  ASSUME Windows = {}
  PROVE  Spec => []Inv
  <1>1. Init => Inv
    BY StartsInv
  <1>2. Inv /\ [Next]_vars => Inv'
    BY Keeps
  <1> QED BY <1>1, <1>2, PTL DEF Spec

\* The free list names pages of the file, each once, and the pool and the file
\* have the same number of pages (allocatePage, markPageFreeInPlace), whatever
\* split, merge, eviction, kill or recovery came before, in the windows too.
THEOREM TypeCorrect == Spec => []TypeOK
  <1>1. Init => LInv
    BY StartsLInv
  <1>2. LInv /\ [Next]_vars => LInv'
    BY KeepsLInv
  <1>3. LInv => TypeOK
    BY LInvTypeOK
  <1> QED BY <1>1, <1>2, <1>3, PTL DEF Spec

\* A lookup in an open tree finds exactly the keys committed, for any keys and
\* any size of a leaf.
THEOREM NothingLostOrRaised == Windows = {} => (Spec => []CommittedFound)
  <1> SUFFICES ASSUME Windows = {} PROVE Spec => []CommittedFound
    OBVIOUS
  <1>1. Inv => CommittedFound
    <2> SUFFICES ASSUME Inv, status = "open" PROVE Contents(tree) = committed
      BY DEF CommittedFound
    <2>1. Kept(tree) /\ HeldBy(tree) = committed
      BY DEF Inv, TInv, CInv
    <2> QED BY <2>1, KeptTree
  <1>2. Spec => []Inv
    BY Always
  <1> QED BY <1>1, <1>2, PTL

\* An open tree shares no page, uses no free one, and a scan of its leaves sees
\* what lookups see.
THEOREM AlwaysATree == Windows = {} => (Spec => []TreeIsSound)
  <1> SUFFICES ASSUME Windows = {} PROVE Spec => []TreeIsSound
    OBVIOUS
  <1>1. Inv => TreeIsSound
    BY InvTreeIsSound
  <1>2. Spec => []Inv
    BY Always
  <1> QED BY <1>1, <1>2, PTL
=============================================================================
