--------------------------- MODULE TreeHeapProofs ---------------------------
(***************************************************************************)
(* Lemmas about the memory of the search trees.  Reach is characterised by *)
(* three laws, proved once from its recursion: a root is reached, what is  *)
(* reached is closed under links, and it is the least such set.  All that  *)
(* follows uses these laws only: what a tree is, that no way in it leads   *)
(* back, what hanging up a leaf and remove_node do to it.                  *)
(***************************************************************************)
EXTENDS TreeHeap, FiniteSetTheorems, TLAPS

-----------------------------------------------------------------------------
(***************************************************************************)
(* Induction, and the recursion that defines Reach                         *)
(***************************************************************************)
\* Every set of natural numbers that is not empty has a least member.
LEMMA Before == \E R : IsWellFoundedOn(R, Nat) /\ \A x, y \in Nat : x < y => <<x, y>> \in R
<1>1. IsWellFoundedOn(OpToRel(<, Nat), Nat)
  BY NatLessThanWellFounded
<1>2. \A x, y \in Nat : x < y => <<x, y>> \in OpToRel(<, Nat)
  BY DEF OpToRel
<1> QED
  BY <1>1, <1>2, Zenon

LEMMA Least ==
  ASSUME NEW T, T \subseteq Nat, T # {}
  PROVE  \E m \in T : \A n \in T : m <= n
<1>1. PICK R : IsWellFoundedOn(R, Nat) /\ \A x, y \in Nat : x < y => <<x, y>> \in R
  BY Before, Zenon
<1>2. IsWellFoundedOn(R, Nat)
  BY <1>1
<1>3. PICK x \in T : \A y \in T : ~ (<<y, x>> \in R)
  BY <1>2, WFMin, Zenon
<1>4. \A y \in T : ~ (y < x)
  BY <1>1, <1>3, Zenon
<1> QED
  BY <1>4

\* Induction, for a set: what holds at 0 and is handed on holds up to N.
LEMMA Climb ==
  ASSUME NEW N \in Nat, NEW T, 0 \in T, \A i \in 0..(N - 1) : i \in T => i + 1 \in T
  PROVE  0..N \subseteq T
<1> SUFFICES ASSUME (0..N) \ T # {} PROVE FALSE
  OBVIOUS
<1>0. (0..N) \ T \subseteq Nat
  OBVIOUS
<1>1. PICK m \in (0..N) \ T : \A n \in (0..N) \ T : m <= n
  BY <1>0, Least
<1>2. m # 0 /\ m - 1 \in 0..(N - 1) /\ m - 1 \in T
  BY <1>1
<1> QED
  BY <1>1, <1>2

Links(h, S) == UNION {{n} \cup Children(h, n) : n \in S}

\* f is the recursion that defines Within, taken k links far.
Walks(f, h, r, k) ==
  f = [i \in 0..k |-> IF i = 0 THEN {r} \ {Nil} ELSE Links(h, f[i - 1])]

\* It can be taken one link further.
LEMMA WalkOn ==
  ASSUME NEW h, NEW r, NEW k \in Nat, NEW f, Walks(f, h, r, k)
  PROVE  \E g : Walks(g, h, r, k + 1)
<1> DEFINE g == [i \in 0..(k + 1) |-> IF i = k + 1 THEN Links(h, f[k]) ELSE f[i]]
<1>0. f[0] = {r} \ {Nil} /\ \A i \in 1..k : f[i] = Links(h, f[i - 1])
  <2>1. \A i \in 0..k : f[i] = IF i = 0 THEN {r} \ {Nil} ELSE Links(h, f[i - 1])
    BY Zenon DEF Walks
  <2> QED
    BY <2>1
<1>1. \A i \in 0..(k + 1) : g[i] = IF i = 0 THEN {r} \ {Nil} ELSE Links(h, g[i - 1])
  <2> TAKE i \in 0..(k + 1)
  <2>1. CASE i = k + 1
    <3>1. g[i] = Links(h, f[k]) /\ g[i - 1] = f[k] /\ i # 0
      BY <2>1
    <3> QED
      BY <3>1
  <2>2. CASE i # k + 1 /\ i # 0
    <3>1. i \in 0..k /\ i \in 1..k /\ i - 1 \in 0..k /\ i - 1 # k + 1
      BY <2>2
    <3>2. g[i] = f[i] /\ g[i - 1] = f[i - 1]
      BY <2>2, <3>1
    <3> QED
      BY <1>0, <2>2, <3>1, <3>2
  <2>3. CASE i # k + 1 /\ i = 0
    <3>1. 0 \in 0..k /\ 0 \in 0..(k + 1)
      OBVIOUS
    <3> QED
      BY <1>0, <2>3, <3>1
  <2> QED
    BY <2>1, <2>2, <2>3
<1>2. g = [i \in 0..(k + 1) |-> g[i]]
  OBVIOUS
<1> HIDE DEF g
<1>3. Walks(g, h, r, k + 1)
  BY <1>1, <1>2 DEF Walks
<1> QED
  BY <1>3

\* So it can be taken all the way, and Within satisfies its definition.
LEMMA WithinWalks ==
  ASSUME NEW h, NEW r
  PROVE  Walks(Within(h, r), h, r, MaxNodes)
<1> DEFINE T == {k \in Nat : \E f : Walks(f, h, r, k)}
<1>0. MaxNodes \in Nat
  BY TreeHeapAssumption
<1>1. 0 \in T
  <2>1. Walks([i \in 0..0 |-> {r} \ {Nil}], h, r, 0)
    BY DEF Walks
  <2> QED
    BY <2>1
<1>2. ASSUME NEW k \in 0..(MaxNodes - 1), k \in T PROVE k + 1 \in T
  BY <1>0, <1>2, WalkOn
<1> HIDE DEF T
<1>3. MaxNodes \in T
  BY <1>0, <1>1, <1>2, Climb
<1>4. \E f : Walks(f, h, r, MaxNodes)
  BY <1>3 DEF T
<1>5. Within(h, r) = CHOOSE f : Walks(f, h, r, MaxNodes)
  BY DEF Within, Links, Walks
<1> QED
  BY <1>4, <1>5, Zenon

LEMMA WithinSteps ==
  ASSUME NEW h, NEW r
  PROVE  /\ Within(h, r)[0] = {r} \ {Nil}
         /\ \A i \in 1..MaxNodes : Within(h, r)[i] = Links(h, Within(h, r)[i - 1])
<1>1. PICK f : f = Within(h, r) /\ Walks(f, h, r, MaxNodes)
  BY WithinWalks
<1>2. \A i \in 0..MaxNodes : f[i] = IF i = 0 THEN {r} \ {Nil} ELSE Links(h, f[i - 1])
  BY <1>1, Zenon DEF Walks
<1>3. f[0] = {r} \ {Nil} /\ \A i \in 1..MaxNodes : f[i] = Links(h, f[i - 1])
  BY <1>2, TreeHeapAssumption
<1> QED
  BY <1>1, <1>3

Closed(h, S) == \A n \in S : Children(h, n) \subseteq S

\* What is reached is closed under links ...
LEMMA Deeper ==
  ASSUME NEW h, NEW S, IsFiniteSet(Links(h, S)), Links(h, S) # S
  PROVE  Cardinality(Links(h, S)) >= Cardinality(S) + 1
<1>1. S \subseteq Links(h, S)
  BY DEF Links
<1>2. IsFiniteSet(S) /\ Cardinality(S) \in Nat /\ Cardinality(Links(h, S)) \in Nat
  BY <1>1, FS_Subset, FS_CardinalityType
<1>3. Cardinality(S) <= Cardinality(Links(h, S)) /\ Cardinality(S) # Cardinality(Links(h, S))
  BY <1>1, FS_Subset
<1> QED
  BY <1>2, <1>3

\* r is the link to a node and no link leads out of the nodes.
Rooted(h, r) == r \in Nodes \cup {Nil} /\ Closed(h, Nodes)

LEMMA NodesFinite == IsFiniteSet(Nodes) /\ Cardinality(Nodes) = MaxNodes
  BY TreeHeapAssumption, FS_Interval DEF Nodes

LEMMA WithinNodes ==
  ASSUME NEW h, NEW r, Rooted(h, r)
  PROVE  \A i \in 0..MaxNodes : Within(h, r)[i] \subseteq Nodes
<1> DEFINE T == {i \in 0..MaxNodes : Within(h, r)[i] \subseteq Nodes}
<1>0. MaxNodes \in Nat
  BY TreeHeapAssumption
<1>1. 0 \in T
  BY <1>0, WithinSteps DEF Rooted
<1>2. ASSUME NEW i \in 0..(MaxNodes - 1), i \in T PROVE i + 1 \in T
  <2>1. i + 1 \in 1..MaxNodes /\ (i + 1) - 1 = i
    BY <1>0
  <2>2. Within(h, r)[i + 1] = Links(h, Within(h, r)[i])
    BY <2>1, WithinSteps
  <2> QED
    BY <1>2, <2>1, <2>2 DEF Rooted, Closed, Links
<1> HIDE DEF T
<1>3. 0..MaxNodes \subseteq T
  BY <1>0, <1>1, <1>2, Climb
<1> QED
  BY <1>3 DEF T

LEMMA WithinGrows ==
  ASSUME NEW h, NEW r, Rooted(h, r), r # Nil
  PROVE  \A i \in 0..MaxNodes : Closed(h, Within(h, r)[i]) \/ Cardinality(Within(h, r)[i]) >= i + 1
<1> DEFINE W == Within(h, r)
           T == {i \in 0..MaxNodes : Closed(h, W[i]) \/ Cardinality(W[i]) >= i + 1}
<1>0. MaxNodes \in Nat
  BY TreeHeapAssumption
<1>1. 0 \in T
  <2>1. W[0] = {r}
    BY WithinSteps
  <2> QED
    BY <1>0, <2>1, FS_Singleton
<1>2. ASSUME NEW i \in 0..(MaxNodes - 1), i \in T PROVE i + 1 \in T
  <2>1. i + 1 \in 1..MaxNodes /\ (i + 1) - 1 = i /\ i + 1 \in 0..MaxNodes /\ i \in 0..MaxNodes
    BY <1>0
  <2>2. W[i + 1] = Links(h, W[i])
    BY <2>1, WithinSteps
  <2>3. W[i] \subseteq Nodes /\ W[i + 1] \subseteq Nodes
    BY <2>1, WithinNodes
  <2>4. /\ IsFiniteSet(W[i]) /\ IsFiniteSet(W[i + 1])
        /\ Cardinality(W[i]) \in Nat /\ Cardinality(W[i + 1]) \in Nat
    BY <2>3, NodesFinite, FS_Subset, FS_CardinalityType
  <2>5. CASE W[i + 1] = W[i]
    <3>1. Closed(h, W[i])
      BY <2>2, <2>5 DEF Links, Closed
    <3> QED
      BY <2>1, <2>5, <3>1
  <2>6. CASE W[i + 1] # W[i]
    <3>1. ~Closed(h, W[i])
      BY <2>2, <2>6 DEF Links, Closed
    <3>2. Cardinality(W[i]) >= i + 1
      BY <1>2, <3>1
    <3>3. Cardinality(W[i + 1]) >= Cardinality(W[i]) + 1
      BY <2>2, <2>4, <2>6, Deeper
    <3> QED
      BY <2>1, <2>4, <3>2, <3>3
  <2> QED
    BY <2>5, <2>6
<1> HIDE DEF T
<1>3. 0..MaxNodes \subseteq T
  BY <1>0, <1>1, <1>2, Climb
<1> QED
  BY <1>3 DEF T

LEMMA ReachClosed ==
  ASSUME NEW h, NEW r, Rooted(h, r)
  PROVE  Closed(h, Reach(h, r))
<1> DEFINE W == Within(h, r)[MaxNodes]
<1>0. MaxNodes \in Nat /\ MaxNodes \in 0..MaxNodes
  BY TreeHeapAssumption
<1>1. W \subseteq Nodes /\ Reach(h, r) = W
  BY <1>0, WithinNodes DEF Reach
<1>2. CASE r = Nil
  <2> DEFINE T == {i \in 0..MaxNodes : Within(h, r)[i] = {}}
  <2>1. 0 \in T
    BY <1>0, <1>2, WithinSteps
  <2>2. ASSUME NEW i \in 0..(MaxNodes - 1), i \in T PROVE i + 1 \in T
    <3>1. i + 1 \in 1..MaxNodes /\ (i + 1) - 1 = i
      BY <1>0
    <3>2. Within(h, r)[i + 1] = Links(h, Within(h, r)[i])
      BY <3>1, WithinSteps
    <3> QED
      BY <2>2, <3>1, <3>2 DEF Links
  <2> HIDE DEF T
  <2>3. MaxNodes \in T
    BY <1>0, <2>1, <2>2, Climb
  <2> QED
    BY <1>1, <2>3 DEF T, Closed
<1>3. CASE r # Nil
  <2>1. IsFiniteSet(W) /\ Cardinality(W) <= MaxNodes /\ Cardinality(W) \in Nat
    BY <1>1, NodesFinite, FS_Subset, FS_CardinalityType
  <2>2. ~ (Cardinality(W) >= MaxNodes + 1)
    BY <1>0, <2>1
  <2> QED
    BY <1>0, <1>1, <1>3, <2>2, WithinGrows
<1> QED
  BY <1>2, <1>3

\* ... and it is the least such set with the root.
LEMMA ReachLeast ==
  ASSUME NEW h, NEW r, NEW S, r \in S \cup {Nil}, Closed(h, S)
  PROVE  Reach(h, r) \subseteq S
<1> DEFINE T == {i \in 0..MaxNodes : Within(h, r)[i] \subseteq S}
<1>0. MaxNodes \in Nat
  BY TreeHeapAssumption
<1>1. 0 \in T
  BY <1>0, WithinSteps
<1>2. ASSUME NEW i \in 0..(MaxNodes - 1), i \in T PROVE i + 1 \in T
  <2>1. i + 1 \in 1..MaxNodes /\ (i + 1) - 1 = i
    BY <1>0
  <2>2. Within(h, r)[i + 1] = Links(h, Within(h, r)[i])
    BY <2>1, WithinSteps
  <2> QED
    BY <1>2, <2>1, <2>2 DEF Closed, Links
<1> HIDE DEF T
<1>3. MaxNodes \in T
  BY <1>0, <1>1, <1>2, Climb
<1> QED
  BY <1>3 DEF T, Reach

LEMMA ReachRoot ==
  ASSUME NEW h, NEW r, Rooted(h, r), r # Nil
  PROVE  r \in Reach(h, r)
<1> DEFINE T == {i \in 0..MaxNodes : r \in Within(h, r)[i]}
<1>0. MaxNodes \in Nat
  BY TreeHeapAssumption
<1>1. 0 \in T
  BY <1>0, WithinSteps
<1>2. ASSUME NEW i \in 0..(MaxNodes - 1), i \in T PROVE i + 1 \in T
  <2>1. i + 1 \in 1..MaxNodes /\ (i + 1) - 1 = i
    BY <1>0
  <2>2. Within(h, r)[i + 1] = Links(h, Within(h, r)[i])
    BY <2>1, WithinSteps
  <2> QED
    BY <1>2, <2>1, <2>2 DEF Links
<1> HIDE DEF T
<1>3. MaxNodes \in T
  BY <1>0, <1>1, <1>2, Climb
<1> QED
  BY <1>3 DEF T, Reach, Rooted
-----------------------------------------------------------------------------
(***************************************************************************)
(* The laws of Reach put to use, and what makes a tree                     *)
(***************************************************************************)
LEMMA NilNotNode == Nil \notin Nodes
  BY DEF Nil, Nodes

LEMMA ReachNodes == ASSUME NEW h, NEW r PROVE Reach(h, r) \subseteq Nodes
  BY DEF Reach

LEMMA ReachNil == ASSUME NEW h PROVE Reach(h, Nil) = {}
<1>1. Closed(h, {}) /\ Nil \in {} \cup {Nil}
  BY DEF Closed
<1>2. Reach(h, Nil) \subseteq {}
  BY <1>1, ReachLeast, Zenon
<1> QED
  BY <1>2

\* What a reached node reaches is reached.
LEMMA ReachWithin ==
  ASSUME NEW h, NEW r, Rooted(h, r), NEW x \in Reach(h, r) \cup {Nil}
  PROVE  Reach(h, x) \subseteq Reach(h, r) /\ Rooted(h, x)
<1>1. Reach(h, x) \subseteq Reach(h, r)
  BY ReachLeast, ReachClosed
<1> QED
  BY <1>1, ReachNodes DEF Rooted

\* A node reaches itself and what its two links reach.
LEMMA ReachUnfold ==
  ASSUME NEW h, NEW n \in Nodes, Rooted(h, n)
  PROVE  /\ h[n].left \in Nodes \cup {Nil} /\ h[n].right \in Nodes \cup {Nil}
         /\ Rooted(h, h[n].left) /\ Rooted(h, h[n].right)
         /\ Reach(h, n) = {n} \cup Reach(h, h[n].left) \cup Reach(h, h[n].right)
<1> DEFINE a == h[n].left
           b == h[n].right
           S == {n} \cup Reach(h, a) \cup Reach(h, b)
<1>1. a \in Nodes \cup {Nil} /\ b \in Nodes \cup {Nil} /\ Children(h, n) = {a, b} \ {Nil}
  BY DEF Rooted, Closed, Children
<1>2. Rooted(h, a) /\ Rooted(h, b)
  BY <1>1 DEF Rooted
<1>3. n \in Reach(h, n) /\ Closed(h, Reach(h, n))
  BY ReachRoot, ReachClosed, NilNotNode
<1>4. Children(h, n) \subseteq Reach(h, n)
  BY <1>3 DEF Closed
<1>5. S \subseteq Reach(h, n)
  BY <1>1, <1>3, <1>4, ReachWithin
<1>6. Closed(h, S)
  <2>1. Closed(h, Reach(h, a)) /\ Closed(h, Reach(h, b))
    BY <1>2, ReachClosed
  <2>2. Children(h, n) \subseteq S
    BY <1>1, <1>2, ReachRoot
  <2> QED
    BY <2>1, <2>2 DEF Closed
<1>7. Reach(h, n) \subseteq S
  BY <1>6, ReachLeast
<1> QED
  BY <1>1, <1>2, <1>5, <1>7

\* A set of reached nodes is entered from outside, or has the root.
LEMMA EnteredFrom ==
  ASSUME NEW h, NEW r, Rooted(h, r), NEW S, S \subseteq Reach(h, r), S # {}, r \notin S
  PROVE  \E m \in Reach(h, r) \ S : Children(h, m) \cap S # {}
<1> SUFFICES ASSUME \A m \in Reach(h, r) \ S : Children(h, m) \cap S = {} PROVE FALSE
  OBVIOUS
<1>1. r # Nil
  BY ReachNil
<1>2. r \in Reach(h, r) \ S
  BY <1>1, ReachRoot
<1>3. Closed(h, Reach(h, r) \ S)
  BY ReachClosed DEF Closed
<1>4. Reach(h, r) \subseteq Reach(h, r) \ S
  BY <1>2, <1>3, ReachLeast
<1> QED
  BY <1>4

\* Every reached node but the root has an owner that is reached.
LEMMA HasOwner ==
  ASSUME NEW h, NEW r, Rooted(h, r), NEW x \in Reach(h, r), x # r
  PROVE  \E m \in Reach(h, r) : x \in Children(h, m)
<1>0. {x} \subseteq Reach(h, r) /\ {x} # {} /\ r \notin {x}
  OBVIOUS
<1>1. \E m \in Reach(h, r) \ {x} : Children(h, m) \cap {x} # {}
  BY <1>0, EnteredFrom, Zenon
<1> QED
  BY <1>1

\* What is reached depends on the links of the reached nodes alone.
LinksKept(h, g, S) == \A n \in S : g[n].left = h[n].left /\ g[n].right = h[n].right

LEMMA ReachSame ==
  ASSUME NEW h, NEW g, NEW r, Rooted(h, r), Rooted(g, r), LinksKept(h, g, Reach(h, r))
  PROVE  Reach(g, r) = Reach(h, r)
<1>1. \A n \in Reach(h, r) : Children(g, n) = Children(h, n)
  BY DEF LinksKept, Children
<1>2. Closed(g, Reach(h, r))
  BY <1>1, ReachClosed DEF Closed
<1>3. Reach(g, r) \subseteq Reach(h, r)
  BY <1>2, ReachRoot, ReachLeast
<1>4. Closed(h, Reach(g, r))
  BY <1>1, <1>3, ReachClosed DEF Closed
<1>5. Reach(h, r) \subseteq Reach(g, r)
  BY <1>4, ReachRoot, ReachLeast
<1> QED
  BY <1>3, <1>5

\* SoleOwner without the sides.
Tree(h, r) ==
  LET owned == Reach(h, r)
  IN  /\ \A n, m \in owned : Children(h, n) \cap Children(h, m) # {} => n = m
      /\ \A n \in owned : h[n].left = h[n].right => h[n].left = Nil
      /\ \A n \in owned : r \notin Children(h, n)

LEMMA SoleOwnerTree ==
  ASSUME NEW h, NEW r
  PROVE  SoleOwner(h, r) <=> Tree(h, r)
<1>0. Sides = {"left", "right"}
  BY DEF Sides
<1>1. ASSUME SoleOwner(h, r) PROVE Tree(h, r)
  BY <1>0, <1>1 DEF SoleOwner, Tree, Children
<1>2. ASSUME Tree(h, r) PROVE SoleOwner(h, r)
  BY <1>0, <1>2 DEF SoleOwner, Tree, Children
<1> QED
  BY <1>1, <1>2

\* Every nonempty set of nodes of a tree has the root, or a member whose owner is not in it.
LEMMA TreeEntered ==
  ASSUME NEW h, NEW r, Rooted(h, r), Tree(h, r), NEW S, S \subseteq Reach(h, r),
         \A x \in S : \E m \in S : x \in Children(h, m)
  PROVE  S = {}
<1> SUFFICES ASSUME S # {} PROVE FALSE
  OBVIOUS
<1>1. r \notin S
  BY DEF Tree
<1>2. PICK m \in Reach(h, r) \ S : Children(h, m) \cap S # {}
  BY <1>1, EnteredFrom
<1> QED
  BY <1>2 DEF Tree

\* No way leads back.
LEMMA Acyclic ==
  ASSUME NEW h, NEW r, Rooted(h, r), Tree(h, r), NEW x \in Reach(h, r), NEW y \in Children(h, x)
  PROVE  x \notin Reach(h, y)
<1> SUFFICES ASSUME x \in Reach(h, y) PROVE FALSE
  OBVIOUS
<1>1. Rooted(h, x) /\ Reach(h, x) \subseteq Reach(h, r) /\ x \in Nodes
  BY ReachWithin, ReachNodes
<1>2. x \in Reach(h, x) /\ Closed(h, Reach(h, x))
  BY <1>1, ReachRoot, ReachClosed, NilNotNode
<1>3. y \in Reach(h, x)
  BY <1>2 DEF Closed
<1>4. Reach(h, y) \subseteq Reach(h, x) /\ Rooted(h, y)
  BY <1>1, <1>3, ReachWithin
<1>5. ASSUME NEW z \in Reach(h, x) PROVE \E m \in Reach(h, x) : z \in Children(h, m)
  <2>1. CASE z # x
    BY <1>1, <2>1, HasOwner
  <2>2. CASE z = x /\ x = y
    BY <1>2, <2>2
  <2>3. CASE z = x /\ x # y
    BY <1>4, <2>3, HasOwner
  <2> QED
    BY <2>1, <2>2, <2>3
<1> QED
  BY <1>1, <1>2, <1>5, TreeEntered

\* The two links of a node lead to different parts of the tree.
LEMMA Apart ==
  ASSUME NEW h, NEW r, Rooted(h, r), Tree(h, r), NEW x \in Reach(h, r)
  PROVE  Reach(h, h[x].left) \cap Reach(h, h[x].right) = {}
<1> DEFINE a == h[x].left
           b == h[x].right
<1>0. Rooted(h, x) /\ x \in Nodes /\ Reach(h, x) \subseteq Reach(h, r)
  BY ReachWithin, ReachNodes
<1>1. /\ Rooted(h, a) /\ Rooted(h, b)
      /\ Reach(h, a) \subseteq Reach(h, r) /\ Reach(h, b) \subseteq Reach(h, r)
  BY <1>0, ReachUnfold
<1>2. ASSUME NEW z \in Reach(h, a) \cap Reach(h, b)
      PROVE  \E m \in Reach(h, a) \cap Reach(h, b) : z \in Children(h, m)
  <2>0. z # Nil
    BY ReachNodes, NilNotNode
  <2>1. a # Nil /\ b # Nil
    BY ReachNil
  <2>2. a # b /\ a \in Children(h, x) /\ b \in Children(h, x)
    BY <2>1 DEF Tree, Children
  <2>3. x \notin Reach(h, a) /\ x \notin Reach(h, b)
    BY <2>2, Acyclic
  <2>4. z # a
    <3> SUFFICES ASSUME z = a PROVE FALSE
      OBVIOUS
    <3>1. PICK m \in Reach(h, b) : z \in Children(h, m)
      BY <1>1, <2>2, HasOwner
    <3> QED
      BY <1>1, <2>2, <2>3, <3>1 DEF Tree
  <2>5. z # b
    <3> SUFFICES ASSUME z = b PROVE FALSE
      OBVIOUS
    <3>1. PICK m \in Reach(h, a) : z \in Children(h, m)
      BY <1>1, <2>2, HasOwner
    <3> QED
      BY <1>1, <2>2, <2>3, <3>1 DEF Tree
  <2>6. PICK m \in Reach(h, a) : z \in Children(h, m)
    BY <1>1, <2>4, HasOwner
  <2>7. PICK k \in Reach(h, b) : z \in Children(h, k)
    BY <1>1, <2>5, HasOwner
  <2>8. m = k
    BY <1>1, <2>6, <2>7 DEF Tree
  <2> QED
    BY <2>6, <2>7, <2>8
<1>3. Reach(h, a) \cap Reach(h, b) \subseteq Reach(h, r)
  BY <1>1
<1> HIDE DEF a, b
<1>4. Reach(h, a) \cap Reach(h, b) = {}
  BY <1>2, <1>3, TreeEntered, Zenon
<1> QED
  BY <1>4 DEF a, b

\* A node below y has its owner below y, unless it is y.
LEMMA OwnerBelow ==
  ASSUME NEW h, NEW r, Rooted(h, r), Tree(h, r), NEW y \in Reach(h, r), NEW z \in Reach(h, y),
         NEW m \in Reach(h, r), z \in Children(h, m)
  PROVE  z = y \/ m \in Reach(h, y)
<1>1. Rooted(h, y) /\ Reach(h, y) \subseteq Reach(h, r)
  BY ReachWithin
<1>2. CASE z # y
  <2>1. PICK k \in Reach(h, y) : z \in Children(h, k)
    BY <1>1, <1>2, HasOwner
  <2>2. k = m
    BY <1>1, <2>1 DEF Tree
  <2> QED
    BY <2>1, <2>2
<1> QED
  BY <1>2

\* The root is below no other node.
LEMMA RootOnTop ==
  ASSUME NEW h, NEW r, Rooted(h, r), Tree(h, r), NEW x \in Reach(h, r), NEW y \in Children(h, x)
  PROVE  r \notin Reach(h, y)
<1> SUFFICES ASSUME r \in Reach(h, y) PROVE FALSE
  OBVIOUS
<1>1. y \in Reach(h, r) /\ r # y
  BY ReachClosed DEF Closed, Tree
<1>2. Rooted(h, y) /\ Reach(h, y) \subseteq Reach(h, r)
  BY <1>1, ReachWithin
<1>3. PICK k \in Reach(h, y) : r \in Children(h, k)
  BY <1>1, <1>2, HasOwner
<1> QED
  BY <1>2, <1>3 DEF Tree

\* Every set of nodes of a tree has one with no child in it.
LEMMA HasBottom ==
  ASSUME NEW h, NEW r, Rooted(h, r), Tree(h, r), NEW S, S \subseteq Reach(h, r), S # {}
  PROVE  \E x \in S : Children(h, x) \cap S = {}
<1> DEFINE U == {Reach(h, x) : x \in S}
           Less == StrictSubsetOrdering(Nodes)
<1>1. IsWellFoundedOn(Less, FiniteSubsetsOf(Nodes))
  BY FS_StrictSubsetOrderingWellFounded
<1>2. FiniteSubsetsOf(Nodes) = SUBSET Nodes
  BY NodesFinite, FS_FiniteSubsetsOfFinite
<1>3. U \subseteq SUBSET Nodes /\ U # {}
  BY ReachNodes
<1> HIDE DEF U, Less
<1>4. PICK least \in U : \A u \in U : ~ (<<u, least>> \in Less)
  BY <1>1, <1>2, <1>3, WFMin, Zenon
<1>5. PICK x \in S : least = Reach(h, x)
  BY <1>4 DEF U
<1>6. ASSUME NEW y \in S, y \in Children(h, x) PROVE FALSE
  <2>1. x \in Nodes /\ Rooted(h, x)
    BY ReachWithin, ReachNodes
  <2>2. x \in Reach(h, x) /\ Closed(h, Reach(h, x))
    BY <2>1, ReachRoot, ReachClosed, NilNotNode
  <2>3. Reach(h, y) \subseteq Reach(h, x)
    BY <1>6, <2>1, <2>2, ReachWithin DEF Closed
  <2>4. Reach(h, y) # Reach(h, x)
    BY <1>6, <2>2, Acyclic
  <2>5. <<Reach(h, y), Reach(h, x)>> \in Less
    BY <2>3, <2>4, ReachNodes DEF Less, StrictSubsetOrdering
  <2>6. Reach(h, y) \in U
    BY DEF U
  <2> QED
    BY <1>4, <1>5, <2>5, <2>6
<1> QED
  BY <1>6
-----------------------------------------------------------------------------
(***************************************************************************)
(* The way remove_node takes, and a new leaf                               *)
(***************************************************************************)
\* Of the links remove_node follows there is one below a node with two children.
LEMMA DownLinks ==
  ASSUME NEW h, NEW r, Rooted(h, r)
  PROVE  /\ Rooted(Down(h), r)
         /\ \A m \in Nodes : Children(Down(h), m) = IF Both(h, m) THEN {h[m].left} ELSE {}
<1>1. ASSUME NEW m \in Nodes
      PROVE  Children(Down(h), m) = IF Both(h, m) THEN {h[m].left} ELSE {}
  BY DEF Children, Down, Both
<1>2. \A m \in Nodes : Children(Down(h), m) \subseteq Children(h, m)
  BY <1>1 DEF Both, Children
<1> QED
  BY <1>1, <1>2 DEF Rooted, Closed

\* remove_node goes down inside the subtree, from owner to left child.
LEMMA SpineSteps ==
  ASSUME NEW h, NEW n \in Nodes, Rooted(h, n)
  PROVE  /\ Spine(h, n) \subseteq Reach(h, n) /\ n \in Spine(h, n)
         /\ \A m \in Spine(h, n) : Both(h, m) => h[m].left \in Spine(h, n)
         /\ \A x \in Spine(h, n) \ {n} : \E m \in Spine(h, n) : Both(h, m) /\ x = h[m].left
<1> DEFINE d == Down(h)
<1>1. /\ Rooted(d, n)
      /\ \A m \in Nodes : Children(d, m) = IF Both(h, m) THEN {h[m].left} ELSE {}
  BY DownLinks
<1>2. Spine(h, n) = Reach(d, n) /\ Spine(h, n) \subseteq Nodes
  BY ReachNodes DEF Spine
<1>3. n \in Spine(h, n) /\ Closed(d, Spine(h, n))
  BY <1>1, <1>2, ReachRoot, ReachClosed, NilNotNode
<1>4. \A m \in Spine(h, n) : Both(h, m) => h[m].left \in Spine(h, n)
  BY <1>1, <1>2, <1>3 DEF Closed
<1>5. ASSUME NEW x \in Spine(h, n) \ {n}
      PROVE  \E m \in Spine(h, n) : Both(h, m) /\ x = h[m].left
  <2>1. PICK m \in Reach(d, n) : x \in Children(d, m)
    BY <1>1, <1>2, HasOwner
  <2> QED
    BY <1>1, <1>2, <2>1
<1>6. Closed(d, Reach(h, n))
  <2>1. \A m \in Nodes : Children(d, m) \subseteq Children(h, m)
    BY <1>1 DEF Both, Children
  <2> QED
    BY <2>1, ReachClosed, ReachNodes DEF Closed
<1>7. Spine(h, n) \subseteq Reach(h, n)
  BY <1>2, <1>6, ReachRoot, ReachLeast, NilNotNode
<1> QED
  BY <1>3, <1>4, <1>5, <1>7

\* It stops at one node, the first that has not two children.
LEMMA SpineEnd ==
  ASSUME NEW h, NEW r, Rooted(h, r), Tree(h, r), NEW n \in Reach(h, r)
  PROVE  \E e \in Spine(h, n) : ~Both(h, e) /\ \A x \in Spine(h, n) \ {e} : Both(h, x)
<1> DEFINE d == Down(h)
           S == Spine(h, n)
<1>0. n \in Nodes /\ Rooted(h, n) /\ Reach(h, n) \subseteq Reach(h, r)
  BY ReachWithin, ReachNodes
<1>1. /\ Rooted(d, n)
      /\ \A m \in Nodes : Children(d, m) = IF Both(h, m) THEN {h[m].left} ELSE {}
  BY <1>0, DownLinks
<1>2. /\ S = Reach(d, n) /\ S \subseteq Reach(h, n) /\ n \in S /\ S \subseteq Nodes
      /\ \A m \in S : Both(h, m) => h[m].left \in S
  BY <1>0, SpineSteps, ReachNodes DEF Spine
<1>3. PICK e \in S : Children(h, e) \cap S = {}
  <2> HIDE DEF S
  <2> QED
    BY <1>0, <1>2, HasBottom
<1>4. ~Both(h, e)
  BY <1>2, <1>3 DEF Both, Children
<1>5. Children(d, e) = {}
  BY <1>1, <1>2, <1>4
<1> DEFINE T == {x \in S : e \in Reach(d, x)}
<1>6. n \in T
  BY <1>2
<1>7. Closed(d, T)
  <2> SUFFICES ASSUME NEW x \in T, NEW c \in Children(d, x) PROVE c \in T
    BY DEF Closed
  <2>1. x \in Nodes /\ Rooted(d, x) /\ c \in S
    BY <1>1, <1>2, ReachWithin, ReachClosed DEF Closed
  <2>2. x # e
    BY <1>5
  <2>3. d[x].right = Nil /\ d[x].left = c
    BY <1>1, <2>1 DEF Down, Children
  <2>4. Reach(d, x) = {x} \cup Reach(d, c)
    <3>1. Reach(d, x) = {x} \cup Reach(d, d[x].left) \cup Reach(d, d[x].right)
      BY <2>1, ReachUnfold
    <3> QED
      BY <2>3, <3>1, ReachNil
  <2> QED
    BY <2>1, <2>2, <2>4
<1>8. S \subseteq T
  BY <1>2, <1>6, <1>7, ReachLeast
<1>9. ASSUME NEW x \in S \ {e} PROVE Both(h, x)
  <2> SUFFICES ASSUME ~Both(h, x) PROVE FALSE
    OBVIOUS
  <2>1. Children(d, x) = {} /\ e \in Reach(d, x) /\ x \in Nodes /\ Rooted(d, x)
    BY <1>1, <1>2, <1>8, ReachWithin
  <2>2. PICK m \in Reach(d, x) : e \in Children(d, m)
    BY <2>1, HasOwner
  <2>3. Closed(d, {x})
    BY <2>1 DEF Closed
  <2>4. Reach(d, x) \subseteq {x}
    BY <2>3, ReachLeast
  <2> QED
    BY <2>1, <2>2, <2>4
<1> QED
  BY <1>4, <1>9
\* Of the nodes R of h, node a has got a new leaf u on side s.
LeafHung(h, g, R, a, s, u) ==
  /\ s \in Sides /\ a \in R /\ u \in Nodes /\ u \notin R
  /\ h[a][s] = Nil /\ g[a][s] = u /\ g[a][Rev(s)] = h[a][Rev(s)]
  /\ g[u].left = Nil /\ g[u].right = Nil
  /\ LinksKept(h, g, R \ {a})

\* Whoever reaches a in h reaches u as well in g.
Grown(h, g, r, a, u) ==
  /\ Reach(g, r) = Reach(h, r) \cup {u} /\ Tree(g, r)
  /\ \A x \in Reach(h, r) \cup {Nil} :
       Reach(g, x) = IF a \in Reach(h, x) THEN Reach(h, x) \cup {u} ELSE Reach(h, x)

LEMMA Attached ==
  ASSUME NEW h, NEW g, NEW r, Rooted(h, r), Rooted(g, r), Tree(h, r),
         NEW a, NEW s, NEW u, LeafHung(h, g, Reach(h, r), a, s, u)
  PROVE  Grown(h, g, r, a, u)
<1>a. /\ s \in Sides /\ a \in Reach(h, r) /\ u \in Nodes \ Reach(h, r)
      /\ h[a][s] = Nil /\ g[a][s] = u /\ g[a][Rev(s)] = h[a][Rev(s)]
      /\ g[u].left = Nil /\ g[u].right = Nil
      /\ LinksKept(h, g, Reach(h, r) \ {a})
  BY DEF LeafHung
<1> DEFINE R == Reach(h, r)
<1>0. a \in Nodes /\ u # Nil /\ u # a /\ u \notin R
  BY <1>a, ReachNodes, NilNotNode
<1>1. Children(g, a) = Children(h, a) \cup {u} /\ Children(g, u) = {}
      /\ (g[a].left = g[a].right => FALSE)
  <2>1. s = "left" \/ s = "right"
    BY <1>a DEF Sides
  <2>2. R \subseteq Nodes /\ Children(h, a) \subseteq R
    BY <1>a, ReachNodes, ReachClosed DEF Closed
  <2>3. CASE s = "left"
    BY <1>a, <1>0, <2>2, <2>3 DEF Children, Rev
  <2>4. CASE s = "right"
    BY <1>a, <1>0, <2>2, <2>4 DEF Children, Rev
  <2> QED
    BY <2>1, <2>3, <2>4
<1>2. \A m \in R \ {a} : Children(g, m) = Children(h, m)
  BY <1>a DEF LinksKept, Children
<1>3. \A m \in R : Children(h, m) \subseteq R
  BY ReachClosed DEF Closed
<1>4. ASSUME NEW x \in R
      PROVE  Reach(g, x) = IF a \in Reach(h, x) THEN Reach(h, x) \cup {u} ELSE Reach(h, x)
  <2>0. Rooted(h, x) /\ Rooted(g, x) /\ Reach(h, x) \subseteq R /\ x # Nil
    <3>1. Rooted(h, x) /\ Reach(h, x) \subseteq R /\ x \in Nodes
      BY ReachWithin, ReachNodes
    <3> QED
      BY <3>1, NilNotNode DEF Rooted
  <2>1. CASE a \notin Reach(h, x)
    <3>1. LinksKept(h, g, Reach(h, x))
      BY <1>a, <2>0, <2>1 DEF LinksKept
    <3> QED
      BY <2>0, <2>1, <3>1, ReachSame
  <2>2. CASE a \in Reach(h, x)
    <3>1. Closed(g, Reach(h, x) \cup {u})
      BY <1>1, <1>2, <2>0, ReachClosed DEF Closed
    <3>2. Reach(g, x) \subseteq Reach(h, x) \cup {u}
      BY <2>0, <3>1, ReachRoot, ReachLeast
    <3>3. Closed(h, Reach(g, x) \cap R)
      <4> SUFFICES ASSUME NEW m \in Reach(g, x) \cap R PROVE Children(h, m) \subseteq Reach(g, x) \cap R
        BY DEF Closed
      <4>1. Children(g, m) \subseteq Reach(g, x)
        BY <2>0, ReachClosed DEF Closed
      <4>2. Children(h, m) \subseteq Children(g, m)
        BY <1>1, <1>2
      <4> QED
        BY <1>3, <4>1, <4>2
    <3>4. Reach(h, x) \subseteq Reach(g, x)
      BY <2>0, <3>3, ReachRoot, ReachLeast
    <3>5. u \in Reach(g, x)
      BY <1>1, <2>0, <2>2, <3>4, ReachClosed DEF Closed
    <3> QED
      BY <2>2, <3>2, <3>4, <3>5
  <2> QED
    BY <2>1, <2>2
<1>5. r \in R /\ r # Nil
  BY <1>a, ReachRoot, ReachNil
<1>6. Reach(g, r) = R \cup {u}
  BY <1>a, <1>4, <1>5
<1>7. Tree(g, r)
  <2>1. \A m \in R \cup {u} : Children(g, m) \subseteq IF m = a THEN Children(h, a) \cup {u}
                                                      ELSE IF m = u THEN {} ELSE Children(h, m)
    BY <1>1, <1>2
  <2>2. \A n, m \in R \cup {u} : Children(g, n) \cap Children(g, m) # {} => n = m
    BY <1>0, <1>3, <2>1 DEF Tree
  <2>3. \A n \in R \cup {u} : g[n].left = g[n].right => g[n].left = Nil
    BY <1>a, <1>1 DEF Tree, LinksKept
  <2>4. \A n \in R \cup {u} : r \notin Children(g, n)
    BY <1>0, <1>5, <2>1 DEF Tree
  <2> HIDE DEF R
  <2> QED
    BY <1>6, <2>2, <2>3, <2>4 DEF Tree
<1> QED
  BY <1>4, <1>6, <1>7, ReachNil DEF Grown
-----------------------------------------------------------------------------
(***************************************************************************)
(* A leaf is cut off, or a node becomes its only child                     *)
(***************************************************************************)
\* A link, where e is gone.
Past(e, x) == IF x = e THEN Nil ELSE x

\* A leaf is cut off.
LEMMA LeafCut ==
  ASSUME NEW h, NEW g, NEW r, NEW e \in Reach(h, r), Rooted(h, r), Rooted(g, Past(e, r)), Tree(h, r),
         Leaf(h, e),
         \A m \in Reach(h, r) \ {e} : /\ g[m].left = Past(e, h[m].left)
                                      /\ g[m].right = Past(e, h[m].right)
  PROVE  Reach(g, Past(e, r)) = Reach(h, r) \ {e} /\ Tree(g, Past(e, r))
<1> DEFINE R == Reach(h, r)
           q == Past(e, r)
<1>0. /\ R \subseteq Nodes /\ r \in R /\ e # Nil /\ r # Nil
      /\ \A m \in R : Children(h, m) \subseteq R
  <2>1. r # Nil
    BY ReachNil
  <2> QED
    BY <2>1, ReachNodes, NilNotNode, ReachRoot, ReachClosed DEF Closed
<1>1. \A m \in R \ {e} : Children(g, m) = Children(h, m) \ {e}
  BY <1>0 DEF Past, Children
<1>2. Children(h, e) = {}
  BY DEF Leaf, Children
<1>3. Reach(g, q) \subseteq R \ {e}
  <2>1. Closed(g, R \ {e})
    BY <1>0, <1>1 DEF Closed
  <2>2. q \in (R \ {e}) \cup {Nil}
    BY <1>0 DEF Past
  <2> HIDE DEF R, q
  <2> QED
    BY <2>1, <2>2, ReachLeast
<1>4. R \subseteq Reach(g, q) \cup {e}
  <2>1. \A m \in Reach(g, q) : Children(g, m) \subseteq Reach(g, q)
    BY ReachClosed DEF Closed
  <2>2. \A m \in Reach(g, q) : Children(h, m) \subseteq Reach(g, q) \cup {e}
    BY <1>1, <1>3, <2>1
  <2>3. Closed(h, Reach(g, q) \cup {e})
    BY <1>2, <2>2 DEF Closed
  <2>4. r \in Reach(g, q) \cup {e}
    BY <1>0, ReachRoot DEF Past
  <2> QED
    BY <2>3, <2>4, ReachLeast
<1>5. Reach(g, q) = R \ {e}
  BY <1>3, <1>4
<1>6. /\ \A n, m \in R \ {e} : Children(g, n) \cap Children(g, m) # {} => n = m
      /\ \A n \in R \ {e} : g[n].left = g[n].right => g[n].left = Nil
      /\ \A n \in R \ {e} : q \notin Children(g, n)
  <2>1. \A n, m \in R \ {e} : Children(g, n) \cap Children(g, m) # {} => n = m
    BY <1>1 DEF Tree
  <2>2. \A n \in R \ {e} : g[n].left = g[n].right => g[n].left = Nil
    BY DEF Tree, Past
  <2>3. \A n \in R \ {e} : q \notin Children(g, n)
    BY <1>1 DEF Tree, Past, Children
  <2> QED
    BY <2>1, <2>2, <2>3
<1> HIDE DEF R, q
<1>7. Tree(g, q)
  BY <1>5, <1>6 DEF Tree
<1> QED
  BY <1>5, <1>7 DEF R, q

\* A node takes over the links of its only child.
LEMMA ChildPulled ==
  ASSUME NEW h, NEW g, NEW r, NEW e \in Reach(h, r), Rooted(h, r), Rooted(g, r), Tree(h, r),
         NEW c, Children(h, e) = {c},
         LinksKept(h, g, Reach(h, r) \ {e}), g[e].left = h[c].left, g[e].right = h[c].right
  PROVE  /\ c \in Reach(h, r) \ {e} /\ r # c
         /\ Reach(g, r) = Reach(h, r) \ {c} /\ Tree(g, r)
<1> DEFINE R == Reach(h, r)
<1>0. /\ R \subseteq Nodes /\ r \in R /\ r # Nil
      /\ \A m \in R : Children(h, m) \subseteq R
  <2>1. r # Nil
    BY ReachNil
  <2> QED
    BY <2>1, ReachNodes, NilNotNode, ReachRoot, ReachClosed DEF Closed
<1>1. c \in R /\ c \in Nodes /\ r # c /\ Rooted(h, c) /\ c # Nil
  BY <1>0, ReachWithin, NilNotNode DEF Tree
<1>2. c # e /\ c \notin Children(h, c)
  <2>1. c \in Reach(h, c)
    BY <1>1, ReachRoot
  <2>2. e \notin Reach(h, c)
    BY Acyclic
  <2>3. \A y \in Children(h, c) : c \notin Reach(h, y)
    BY <1>1, Acyclic
  <2> QED
    BY <1>1, <2>1, <2>2, <2>3
<1>3. /\ \A m \in R \ {e} : Children(g, m) = Children(h, m)
      /\ Children(g, e) = Children(h, c)
  BY DEF LinksKept, Children
<1>4. \A m \in R \ {c} : Children(g, m) \subseteq R \ {c}
  <2>1. \A m \in R \ {e} : c \notin Children(h, m)
    BY DEF Tree
  <2> QED
    BY <1>0, <1>1, <1>2, <1>3, <2>1
<1>5. Reach(g, r) \subseteq R \ {c}
  <2>1. Closed(g, R \ {c})
    BY <1>4 DEF Closed
  <2>2. r \in R \ {c}
    BY <1>0, <1>1
  <2> HIDE DEF R
  <2> QED
    BY <2>1, <2>2, ReachLeast
<1>6. \A m \in Reach(g, r) : Children(g, m) \subseteq Reach(g, r)
  BY ReachClosed DEF Closed
<1>7. r \in Reach(g, r)
  BY <1>0, ReachRoot
<1>8. e \in Reach(g, r)
  <2> SUFFICES ASSUME e \notin Reach(g, r) PROVE FALSE
    OBVIOUS
  <2>1. Closed(h, Reach(g, r))
    BY <1>3, <1>5, <1>6 DEF Closed
  <2>2. R \subseteq Reach(g, r)
    BY <1>7, <2>1, ReachLeast
  <2> QED
    BY <2>2
<1>9. R \subseteq Reach(g, r) \cup {c}
  <2>1. Closed(h, Reach(g, r) \cup {c})
    BY <1>3, <1>5, <1>6, <1>8 DEF Closed
  <2> QED
    BY <1>7, <2>1, ReachLeast
<1>10. Reach(g, r) = R \ {c}
  BY <1>5, <1>9
<1>11. \A n, m \in R \ {c} : Children(g, n) \cap Children(g, m) # {} => n = m
  <2> SUFFICES ASSUME NEW n \in R \ {c}, NEW m \in R \ {c}, NEW z \in Children(g, n), z \in Children(g, m)
               PROVE  n = m
    OBVIOUS
  <2>1. CASE n # e /\ m # e
    BY <1>3, <2>1 DEF Tree
  <2>2. CASE n = e /\ m # e
    BY <1>1, <1>3, <2>2 DEF Tree
  <2>3. CASE n # e /\ m = e
    BY <1>1, <1>3, <2>3 DEF Tree
  <2> QED
    BY <2>1, <2>2, <2>3
<1>12. \A n \in R \ {c} : g[n].left = g[n].right => g[n].left = Nil
  BY <1>1 DEF Tree, LinksKept
<1>13. \A n \in R \ {c} : r \notin Children(g, n)
  BY <1>1, <1>3 DEF Tree
<1> HIDE DEF R
<1>14. Tree(g, r)
  BY <1>10, <1>11, <1>12, <1>13 DEF Tree
<1> QED
  BY <1>1, <1>2, <1>10, <1>14 DEF R

\* The node at which remove_node stops, when it starts at node n.
Ends(h, n, e) == /\ e \in Spine(h, n) /\ ~Both(h, e)
                 /\ \A x \in Spine(h, n) \ {e} : Both(h, x)

\* The links and the pair that remove_node leaves in a node.
LEMMA RemoveNodeAt ==
  ASSUME NEW h, NEW n, NEW e, Ends(h, n, e), NEW m \in Nodes
  PROVE  /\ m \notin Spine(h, n) => RemoveNode(h, n)[m] = h[m]
         /\ m \in Spine(h, n) \ {e} => RemoveNode(h, n)[m] = PullUp(h, m)
         /\ m = e => RemoveNode(h, n)[m] = IF Leaf(h, e) THEN h[e] ELSE h[OnlyChild(h, e)]
<1>1. CASE m \notin Spine(h, n)
  BY <1>1 DEF RemoveNode, Ends
<1>2. CASE m \in Spine(h, n) \ {e}
  BY <1>2 DEF RemoveNode, Ends, Both, Leaf
<1>3. CASE m = e
  BY <1>3 DEF RemoveNode, Ends, CopyChild
<1> QED
  BY <1>1, <1>2, <1>3

\* How the nodes remove_node passes are linked in the tree.
LEMMA SpineLinks ==
  ASSUME NEW h, NEW r, Rooted(h, r), Tree(h, r), NEW n \in Reach(h, r), NEW e, Ends(h, n, e)
  PROVE  /\ Spine(h, n) \subseteq Reach(h, n) /\ Reach(h, n) \subseteq Reach(h, r)
         /\ n \in Spine(h, n) /\ (r \in Spine(h, n) => n = r)
         /\ \A m \in Spine(h, n) : n \notin Children(h, m)
         /\ \A m \in Spine(h, n) \ {e} :
              /\ h[m].left \in Spine(h, n) /\ h[m].left # n
              /\ h[m].right # n /\ h[m].right \notin Spine(h, n)
         /\ \A m \in Reach(h, r) \ Spine(h, n) : Children(h, m) \cap Spine(h, n) \subseteq {n}
         /\ Children(h, e) \cap Spine(h, n) = {}
<1> DEFINE S == Spine(h, n)
<1>0. n \in Nodes /\ Rooted(h, n) /\ Reach(h, n) \subseteq Reach(h, r)
  BY ReachWithin, ReachNodes
<1>1. /\ S \subseteq Reach(h, n) /\ n \in S
      /\ \A m \in S : Both(h, m) => h[m].left \in S
      /\ \A x \in S \ {n} : \E m \in S : Both(h, m) /\ x = h[m].left
  BY <1>0, SpineSteps
<1>2. \A m \in S : n \notin Children(h, m)
  <2> SUFFICES ASSUME NEW m \in S, n \in Children(h, m) PROVE FALSE
    OBVIOUS
  <2>1. m \notin Reach(h, n)
    BY <1>0, <1>1, Acyclic
  <2> QED
    BY <1>1, <2>1
<1>3. \A m \in S \ {e} : Both(h, m) /\ h[m].left \in Children(h, m) /\ h[m].right \in Children(h, m)
  BY DEF Ends, Both, Children
<1>4. ASSUME NEW m \in Reach(h, r), NEW x \in S \ {n}, x \in Children(h, m)
      PROVE  m \in S /\ Both(h, m) /\ x = h[m].left
  <2>1. PICK k \in S : Both(h, k) /\ x = h[k].left
    BY <1>1
  <2>2. x \in Children(h, k)
    BY <2>1 DEF Both, Children
  <2>3. m = k
    BY <1>0, <1>1, <1>4, <2>2 DEF Tree
  <2> QED
    BY <2>1, <2>3
<1>5. \A m \in S \ {e} : /\ h[m].left \in S /\ h[m].left # n
                         /\ h[m].right # n /\ h[m].right \notin S
  <2> SUFFICES ASSUME NEW m \in S \ {e}
               PROVE  /\ h[m].left \in S /\ h[m].left # n
                      /\ h[m].right # n /\ h[m].right \notin S
    OBVIOUS
  <2>1. h[m].left \in S /\ h[m].left # n /\ h[m].right # n
    BY <1>1, <1>2, <1>3
  <2>2. ASSUME h[m].right \in S PROVE FALSE
    <3>1. h[m].right = h[m].left
      BY <1>0, <1>1, <1>3, <1>4, <2>1, <2>2
    <3> QED
      BY <1>0, <1>1, <1>3, <3>1 DEF Tree, Both
  <2> QED
    BY <2>1, <2>2
<1>6. r \in S => n = r
  <2> SUFFICES ASSUME r \in S, n # r PROVE FALSE
    OBVIOUS
  <2>1. PICK k \in S : Both(h, k) /\ r = h[k].left
    BY <1>1
  <2> QED
    BY <1>0, <1>1, <2>1 DEF Tree, Both, Children
<1>7. \A m \in Reach(h, r) \ S : Children(h, m) \cap S \subseteq {n}
  BY <1>4
<1>8. Children(h, e) \cap S = {}
  BY <1>0, <1>1, <1>2, <1>4 DEF Ends
<1> QED
  BY <1>0, <1>1, <1>2, <1>5, <1>6, <1>7, <1>8

\* The links of g are those of h after remove_node at n, of which the owner of n has been told.
RemovedAt(h, g, r, q, n) ==
  /\ q = IF n = r THEN Unlinked(h, n) ELSE r
  /\ \A m \in Reach(h, r) :
       /\ g[m].left = IF h[m].left = n THEN Unlinked(h, n) ELSE RemoveNode(h, n)[m].left
       /\ g[m].right = IF h[m].right = n THEN Unlinked(h, n) ELSE RemoveNode(h, n)[m].right

\* Where remove_node takes the pair of a node from.
Source(h, n, m) == IF m \notin Spine(h, n) THEN m
                   ELSE IF Both(h, m) THEN h[m].left ELSE OnlyChild(h, m)

\* A leaf at the end of the way is cut off.
LEMMA RemovedLeaf ==
  ASSUME NEW h, NEW g, NEW r, NEW q, Rooted(h, r), Rooted(g, q), Tree(h, r), NEW n \in Reach(h, r),
         RemovedAt(h, g, r, q, n), NEW e, Ends(h, n, e), Leaf(h, e)
  PROVE  Reach(g, q) = Reach(h, r) \ {e} /\ Tree(g, q)
<1> DEFINE S == Spine(h, n)
           R == Reach(h, r)
<1>1. /\ S \subseteq R /\ n \in S /\ e \in S /\ R \subseteq Nodes /\ (r \in S => n = r)
      /\ \A m \in S : h[m].left # n /\ h[m].right # n
      /\ \A m \in S \ {e} : h[m].left \in S /\ h[m].right \notin S
      /\ \A m \in R \ S : /\ h[m].left \in S => h[m].left = n
                          /\ h[m].right \in S => h[m].right = n
  <2>1. n # Nil /\ \A x \in S : x # Nil
    BY SpineLinks, ReachNodes, NilNotNode
  <2>2. /\ \A m \in S : n \notin Children(h, m)
        /\ \A m \in R \ S : Children(h, m) \cap S \subseteq {n}
    BY SpineLinks
  <2>3. /\ \A m \in S : h[m].left # n /\ h[m].right # n
        /\ \A m \in R \ S : /\ h[m].left \in S => h[m].left = n
                            /\ h[m].right \in S => h[m].right = n
    BY <2>1, <2>2 DEF Children
  <2>4. /\ S \subseteq R /\ n \in S /\ e \in S /\ R \subseteq Nodes /\ (r \in S => n = r)
        /\ \A m \in S \ {e} : h[m].left \in S /\ h[m].right \notin S
    BY SpineLinks, ReachNodes DEF Ends
  <2> QED
    BY <2>3, <2>4
<1>2. \A x \in S : Unlinked(h, x) = Past(e, x)
  BY DEF Unlinked, Past, Ends, Both, Leaf
<1>3. q = Past(e, r)
  BY <1>1, <1>2 DEF RemovedAt, Past
<1>4. ASSUME NEW m \in R \ {e}
      PROVE  g[m].left = Past(e, h[m].left) /\ g[m].right = Past(e, h[m].right)
  <2>1. CASE m \in S
    <3>1. RemoveNode(h, n)[m] = PullUp(h, m)
      BY <1>1, <2>1, RemoveNodeAt
    <3>2. g[m].left = PullUp(h, m).left /\ g[m].right = PullUp(h, m).right
      BY <1>1, <2>1, <3>1 DEF RemovedAt
    <3>3. PullUp(h, m).left = Unlinked(h, h[m].left) /\ PullUp(h, m).right = h[m].right
      BY DEF PullUp
    <3> QED
      BY <1>1, <1>2, <2>1, <3>2, <3>3 DEF Past
  <2>2. CASE m \notin S
    <3>1. RemoveNode(h, n)[m] = h[m]
      BY <1>1, <2>2, RemoveNodeAt
    <3> QED
      BY <1>1, <1>2, <2>2, <3>1 DEF RemovedAt, Past
  <2> QED
    BY <2>1, <2>2
<1> QED
  BY <1>1, <1>3, <1>4, LeafCut

\* A node with one child at the end of the way becomes that child.
LEMMA RemovedChild ==
  ASSUME NEW h, NEW g, NEW r, NEW q, Rooted(h, r), Rooted(g, q), Tree(h, r), NEW n \in Reach(h, r),
         RemovedAt(h, g, r, q, n), NEW e, Ends(h, n, e), ~Leaf(h, e)
  PROVE  /\ OnlyChild(h, e) \in Reach(h, r) \ Spine(h, n) /\ OnlyChild(h, e) # n
         /\ OnlyChild(h, e) \in Children(h, e) /\ r # OnlyChild(h, e)
         /\ Reach(g, q) = Reach(h, r) \ {OnlyChild(h, e)} /\ Tree(g, q)
<1> DEFINE S == Spine(h, n)
           R == Reach(h, r)
           c == OnlyChild(h, e)
<1>1. /\ S \subseteq R /\ n \in S /\ e \in S /\ R \subseteq Nodes
      /\ \A m \in S : h[m].left # n /\ h[m].right # n
      /\ \A m \in S \ {e} : h[m].left \in S
  <2>1. n # Nil
    BY ReachNodes, NilNotNode
  <2>2. \A m \in S : n \notin Children(h, m)
    BY SpineLinks
  <2>3. \A m \in S : h[m].left # n /\ h[m].right # n
    BY <2>1, <2>2 DEF Children
  <2>4. /\ S \subseteq R /\ n \in S /\ e \in S /\ R \subseteq Nodes
        /\ \A m \in S \ {e} : h[m].left \in S
    BY SpineLinks, ReachNodes DEF Ends
  <2> QED
    BY <2>3, <2>4
<1>2. \A x \in S : Unlinked(h, x) = x
  BY DEF Unlinked, Ends, Both, Leaf
<1>3. q = r
  BY <1>1, <1>2 DEF RemovedAt
<1>4. Children(h, e) = {c}
  <2>1. \E x : Children(h, e) = {x}
    BY DEF Ends, Both, Leaf, Children
  <2> QED
    BY <2>1 DEF OnlyChild
<1>5. LinksKept(h, g, R \ {e})
  <2> SUFFICES ASSUME NEW m \in R \ {e}
               PROVE  g[m].left = h[m].left /\ g[m].right = h[m].right
    BY DEF LinksKept
  <2>1. CASE m \in S
    <3>1. RemoveNode(h, n)[m] = PullUp(h, m)
      BY <1>1, <2>1, RemoveNodeAt
    <3>2. g[m].left = PullUp(h, m).left /\ g[m].right = PullUp(h, m).right
      BY <1>1, <2>1, <3>1 DEF RemovedAt
    <3>3. PullUp(h, m).left = Unlinked(h, h[m].left) /\ PullUp(h, m).right = h[m].right
      BY DEF PullUp
    <3> QED
      BY <1>1, <1>2, <2>1, <3>2, <3>3
  <2>2. CASE m \notin S
    <3>1. RemoveNode(h, n)[m] = h[m]
      BY <1>1, <2>2, RemoveNodeAt
    <3> QED
      BY <1>1, <1>2, <2>2, <3>1 DEF RemovedAt
  <2> QED
    BY <2>1, <2>2
<1>6. g[e].left = h[c].left /\ g[e].right = h[c].right
  <2>1. RemoveNode(h, n)[e] = h[c]
    BY <1>1, RemoveNodeAt
  <2> QED
    BY <1>1, <2>1 DEF RemovedAt
<1>7. c \in R \ {e} /\ r # c /\ Reach(g, r) = R \ {c} /\ Tree(g, r)
  BY <1>1, <1>3, <1>4, <1>5, <1>6, ChildPulled
<1>8. c \notin S
  BY <1>4, SpineLinks
<1> QED
  BY <1>1, <1>3, <1>4, <1>7, <1>8

\* What it takes to be a bijection.
LEMMA BijectionIs ==
  ASSUME NEW S, NEW T, NEW f
  PROVE  f \in Bijection(S, T) <=> /\ f \in [S -> T]
                                   /\ \A a, b \in S : f[a] = f[b] => a = b
                                   /\ \A t \in T : \E a \in S : f[a] = t
  BY DEF Bijection, Injection, Surjection, IsInjective

\* The node that is no longer reached.
Gone(h, e) == IF Leaf(h, e) THEN e ELSE OnlyChild(h, e)

\* The pairs of the nodes that stay are those of all nodes but n.
LEMMA PairsShift ==
  ASSUME NEW h, NEW r, Rooted(h, r), Tree(h, r), NEW n \in Reach(h, r), NEW e, Ends(h, n, e),
         ~Leaf(h, e) => /\ OnlyChild(h, e) \in Reach(h, r) \ Spine(h, n)
                        /\ OnlyChild(h, e) # n /\ OnlyChild(h, e) \in Children(h, e)
  PROVE  \E src \in Bijection(Reach(h, r) \ {Gone(h, e)}, Reach(h, r) \ {n}) :
           \A m \in Reach(h, r) \ {Gone(h, e)} :
             /\ RemoveNode(h, n)[m].key = h[src[m]].key
             /\ RemoveNode(h, n)[m].val = h[src[m]].val
             /\ m \notin Spine(h, n) => src[m] = m
<1> DEFINE S == Spine(h, n)
           R == Reach(h, r)
           K == R \ {Gone(h, e)}
           L == R \ {n}
           src == [m \in K |-> Source(h, n, m)]
<1>1. /\ S \subseteq R /\ n \in S /\ e \in S /\ R \subseteq Nodes
      /\ \A m \in S : n \notin Children(h, m)
      /\ \A m \in S \ {e} : h[m].left \in S /\ h[m].left # n
      /\ \A m \in S \ {e} : Both(h, m)
      /\ ~Both(h, e)
  BY SpineLinks, ReachNodes DEF Ends
<1>2. \A x \in S \ {n} : \E m \in S : Both(h, m) /\ x = h[m].left
  BY <1>1, ReachWithin, SpineSteps
<1>3. Leaf(h, e) => Gone(h, e) = e
  BY DEF Gone
<1>4. ~Leaf(h, e) => Gone(h, e) = OnlyChild(h, e)
  BY DEF Gone
<1>5. \A m \in K \ S : Source(h, n, m) = m
  BY DEF Source
<1>6. \A m \in (K \cap S) \ {e} : /\ Source(h, n, m) = h[m].left /\ Source(h, n, m) \in S \ {n}
                                  /\ Source(h, n, m) \in Children(h, m)
  BY <1>1 DEF Source, Both, Children
<1>7. e \in K => /\ ~Leaf(h, e) /\ Source(h, n, e) = Gone(h, e)
                 /\ Source(h, n, e) \in R \ S /\ Source(h, n, e) # n
                 /\ Source(h, n, e) \in Children(h, e)
  BY <1>1, <1>3, <1>4 DEF Source
<1>8. \A m \in K : Source(h, n, m) \in L
  BY <1>1, <1>5, <1>6, <1>7
<1>9. \A m, k \in K : Source(h, n, m) = Source(h, n, k) => m = k
  <2> SUFFICES ASSUME NEW m \in K, NEW k \in K, Source(h, n, m) = Source(h, n, k) PROVE m = k
    OBVIOUS
  <2>1. CASE m \notin S /\ k \notin S
    BY <1>5, <2>1
  <2>2. CASE m \in S /\ k \in S
    <3>1. Source(h, n, m) \in Children(h, m) /\ Source(h, n, k) \in Children(h, k)
      BY <1>6, <1>7, <2>2
    <3> QED
      BY <3>1 DEF Tree
  <2>3. CASE m \in S /\ k \notin S
    BY <1>5, <1>6, <1>7, <2>3
  <2>4. CASE m \notin S /\ k \in S
    BY <1>5, <1>6, <1>7, <2>4
  <2> QED
    BY <2>1, <2>2, <2>3, <2>4
<1>10. \A x \in L : \E m \in K : Source(h, n, m) = x
  <2> SUFFICES ASSUME NEW x \in L PROVE \E m \in K : Source(h, n, m) = x
    OBVIOUS
  <2>1. CASE x \in S
    <3>1. PICK m \in S : Both(h, m) /\ x = h[m].left
      BY <1>2, <2>1
    <3>2. m # e /\ m \in K
      BY <1>1, <1>3, <1>4, <3>1
    <3> QED
      BY <1>6, <3>1, <3>2
  <2>2. CASE x \notin S /\ x # Gone(h, e)
    BY <1>5, <2>2
  <2>3. CASE x \notin S /\ x = Gone(h, e)
    <3>1. e \in K
      BY <1>1, <2>3
    <3> QED
      BY <1>7, <2>3, <3>1
  <2> QED
    BY <2>1, <2>2, <2>3
<1>11. src \in Bijection(K, L)
  <2> HIDE DEF K, L
  <2>1. src \in [K -> L]
    BY <1>8
  <2>2. \A m \in K : src[m] = Source(h, n, m)
    OBVIOUS
  <2> HIDE DEF src
  <2>3. \A m, k \in K : src[m] = src[k] => m = k
    BY <1>9, <2>2
  <2>4. \A x \in L : \E m \in K : src[m] = x
    BY <1>10, <2>2
  <2> QED
    BY <2>1, <2>3, <2>4, BijectionIs, Zenon
<1>12. ASSUME NEW m \in K
       PROVE  /\ RemoveNode(h, n)[m].key = h[Source(h, n, m)].key
              /\ RemoveNode(h, n)[m].val = h[Source(h, n, m)].val
  <2>1. CASE m \notin S
    BY <1>1, <1>5, <2>1, RemoveNodeAt
  <2>2. CASE m \in S /\ m # e
    <3>1. RemoveNode(h, n)[m] = PullUp(h, m)
      BY <1>1, <2>2, RemoveNodeAt
    <3>2. PullUp(h, m).key = h[h[m].left].key /\ PullUp(h, m).val = h[h[m].left].val
      BY DEF PullUp
    <3> QED
      BY <1>6, <2>2, <3>1, <3>2
  <2>3. CASE m = e
    <3>1. RemoveNode(h, n)[e] = h[OnlyChild(h, e)]
      BY <1>1, <1>7, <2>3, RemoveNodeAt
    <3> QED
      BY <1>4, <1>7, <2>3, <3>1
  <2> QED
    BY <2>1, <2>2, <2>3
<1>13. \A m \in K : /\ RemoveNode(h, n)[m].key = h[src[m]].key
                    /\ RemoveNode(h, n)[m].val = h[src[m]].val
                    /\ m \notin S => src[m] = m
  BY <1>5, <1>12
<1> HIDE DEF src
<1> QED
  BY <1>11, <1>13

\* One node is no longer reached and the pair of one node is gone, that of node n.
Removes(h, g, r, q, n, gone, src) ==
  /\ gone \in Reach(h, n) /\ gone \in Reach(h, r)
  /\ src \in Bijection(Reach(h, r) \ {gone}, Reach(h, r) \ {n})
  /\ Reach(g, q) = Reach(h, r) \ {gone} /\ Tree(g, q)
  /\ \A m \in Reach(h, r) \ {gone} :
       /\ RemoveNode(h, n)[m].key = h[src[m]].key
       /\ RemoveNode(h, n)[m].val = h[src[m]].val
       /\ m \notin Reach(h, n) => src[m] = m

\* This is what remove_node does, and the rest stays a tree.
LEMMA Removed ==
  ASSUME NEW h, NEW g, NEW r, NEW q, Rooted(h, r), Rooted(g, q), Tree(h, r), NEW n \in Reach(h, r),
         RemovedAt(h, g, r, q, n)
  PROVE  \E gone, src : Removes(h, g, r, q, n, gone, src)
<1>1. PICK e \in Spine(h, n) : ~Both(h, e) /\ \A x \in Spine(h, n) \ {e} : Both(h, x)
  BY SpineEnd
<1>2. Ends(h, n, e)
  BY <1>1 DEF Ends
<1>3. Spine(h, n) \subseteq Reach(h, n) /\ Reach(h, n) \subseteq Reach(h, r) /\ Rooted(h, n)
  BY <1>2, SpineLinks, ReachWithin
<1>4. ~Leaf(h, e) => /\ OnlyChild(h, e) \in Reach(h, r) \ Spine(h, n)
                     /\ OnlyChild(h, e) # n /\ OnlyChild(h, e) \in Children(h, e)
  BY <1>2, RemovedChild
<1>5. Gone(h, e) \in Reach(h, n)
  BY <1>1, <1>3, <1>4, ReachClosed DEF Gone, Closed
<1>6. Reach(g, q) = Reach(h, r) \ {Gone(h, e)} /\ Tree(g, q)
  <2>1. CASE Leaf(h, e)
    BY <1>2, <2>1, RemovedLeaf DEF Gone
  <2>2. CASE ~Leaf(h, e)
    BY <1>2, <2>2, RemovedChild DEF Gone
  <2> QED
    BY <2>1, <2>2
<1>7. PICK src \in Bijection(Reach(h, r) \ {Gone(h, e)}, Reach(h, r) \ {n}) :
        \A m \in Reach(h, r) \ {Gone(h, e)} :
          /\ RemoveNode(h, n)[m].key = h[src[m]].key
          /\ RemoveNode(h, n)[m].val = h[src[m]].val
          /\ m \notin Spine(h, n) => src[m] = m
  BY <1>2, <1>4, PairsShift
<1>8. \A m \in Reach(h, r) \ {Gone(h, e)} :
          /\ RemoveNode(h, n)[m].key = h[src[m]].key
          /\ RemoveNode(h, n)[m].val = h[src[m]].val
          /\ m \notin Reach(h, n) => src[m] = m
  BY <1>3, <1>7
<1>9. Gone(h, e) \in Reach(h, r)
  BY <1>3, <1>5
<1>10. Removes(h, g, r, q, n, Gone(h, e), src)
  BY <1>5, <1>6, <1>7, <1>8, <1>9 DEF Removes
<1> QED
  BY <1>10

\* The same sources, but that node p has the pair of n, whose own is gone.
Redirects(R, gone, n, p, src, to) ==
  /\ to \in Bijection(R \ {gone}, R \ {p}) /\ to[p] = n
  /\ \A m \in R \ {gone} : m # p => to[m] = src[m]

LEMMA Redirected ==
  ASSUME NEW R, NEW gone, NEW n, NEW p, n \in R, p \in R, p # gone, p # n,
         NEW src, src \in Bijection(R \ {gone}, R \ {n}), src[p] = p
  PROVE  \E to : Redirects(R, gone, n, p, src, to)
<1> DEFINE K == R \ {gone}
           L == R \ {n}
           M == R \ {p}
           to == [m \in K |-> IF m = p THEN n ELSE src[m]]
<1>0. src \in Bijection(K, L) /\ p \in K /\ n \in M /\ n \notin L /\ M = (L \ {p}) \cup {n}
  OBVIOUS
<1> HIDE DEF K, L, M
<1>1. /\ src \in [K -> L]
      /\ \A m, k \in K : src[m] = src[k] => m = k
      /\ \A x \in L : \E m \in K : src[m] = x
  BY <1>0, BijectionIs
<1>2. /\ \A m \in K : to[m] = IF m = p THEN n ELSE src[m]
      /\ to \in [K -> M]
  BY <1>0, <1>1
<1> HIDE DEF to
<1>3. \A m, k \in K : to[m] = to[k] => m = k
  BY <1>0, <1>1, <1>2
<1>4. \A x \in M : \E m \in K : to[m] = x
  <2> SUFFICES ASSUME NEW x \in M PROVE \E m \in K : to[m] = x
    OBVIOUS
  <2>1. CASE x = n
    BY <1>0, <1>2, <2>1
  <2>2. CASE x # n
    BY <1>0, <1>1, <1>2, <2>2
  <2> QED
    BY <2>1, <2>2
<1>5. to \in Bijection(K, M)
  BY <1>2, <1>3, <1>4, BijectionIs, Zenon
<1>6. to[p] = n /\ \A m \in K : m # p => to[m] = src[m]
  BY <1>0, <1>2
<1> QED
  BY <1>5, <1>6, Zenon DEF K, M, Redirects

\* What is counted over the nodes that stay is counted over their sources.
LEMMA Counted ==
  ASSUME NEW R, IsFiniteSet(R), NEW gone \in R, NEW lost \in R,
         NEW src \in Bijection(R \ {gone}, R \ {lost}),
         NEW A \in SUBSET (R \ {gone}), NEW B \in SUBSET R,
         \A m \in R \ {gone} : m \in A <=> src[m] \in B
  PROVE  Cardinality(A) = IF lost \in B THEN Cardinality(B) - 1 ELSE Cardinality(B)
<1> DEFINE f == [m \in A |-> src[m]]
           C == B \ {lost}
<1>0. src \in Bijection(R \ {gone}, R \ {lost})
  OBVIOUS
<1>1. /\ src \in [R \ {gone} -> R \ {lost}]
      /\ \A m, k \in R \ {gone} : src[m] = src[k] => m = k
      /\ \A x \in R \ {lost} : \E m \in R \ {gone} : src[m] = x
  BY <1>0, BijectionIs
<1>2. \A m \in A : src[m] \in C
  BY <1>1
<1>3. \A x \in C : \E m \in A : src[m] = x
  BY <1>1
<1>4. f \in Bijection(A, C)
  <2> HIDE DEF C
  <2>1. f \in [A -> C] /\ \A m \in A : f[m] = src[m]
    BY <1>2
  <2> HIDE DEF f
  <2> QED
    <3>1. \A a, b \in A : f[a] = f[b] => a = b
      BY <1>1, <2>1
    <3>2. \A t \in C : \E a \in A : f[a] = t
      BY <1>3, <2>1
    <3> QED
      BY <2>1, <3>1, <3>2, BijectionIs, Zenon
<1>5. IsFiniteSet(A) /\ IsFiniteSet(B)
  BY FS_Subset
<1>6. Cardinality(C) = Cardinality(A)
  BY <1>4, <1>5, FS_Bijection DEF ExistsBijection
<1> QED
  BY <1>5, <1>6, FS_RemoveElement
-----------------------------------------------------------------------------
(***************************************************************************)
(* The content of the nodes                                                *)
(***************************************************************************)
\* What get can find is right when every node is.
LEMMA EntriesOfNodes ==
  ASSUME NEW h, NEW r, \A n \in Nodes : h[n].val = Value(h[n].key)
  PROVE  \A e \in Entries(h, r) : e[2] = Value(e[1])
  BY ReachNodes DEF Entries

\* The link that led to a removed node is kept or taken.
LEMMA UnlinkedType == ASSUME NEW h, NEW n PROVE Unlinked(h, n) \in {n, Nil}
  BY DEF Unlinked

\* After remove_node a node is as before, or a copy of another node, or has the
\* pair of its left child.
LEMMA RemoveNodeShape ==
  ASSUME NEW h, NEW n \in Nodes, NEW m \in Nodes,
         \A k \in Nodes : h[k].left \in Nodes \cup {Nil} /\ h[k].right \in Nodes \cup {Nil}
  PROVE  \/ \E c \in Nodes : RemoveNode(h, n)[m] = h[c]
         \/ h[m].left \in Nodes /\ RemoveNode(h, n)[m] = PullUp(h, m)
<1>1. CASE m \notin Spine(h, n) \/ Leaf(h, m)
  BY <1>1 DEF RemoveNode
<1>2. CASE m \in Spine(h, n) /\ ~Leaf(h, m) /\ Both(h, m)
  BY <1>2 DEF RemoveNode, Both
<1>3. CASE m \in Spine(h, n) /\ ~Leaf(h, m) /\ ~Both(h, m)
  <2>1. RemoveNode(h, n)[m] = h[OnlyChild(h, m)]
    BY <1>3 DEF RemoveNode, CopyChild
  <2>2. Children(h, m) # {} /\ Children(h, m) \subseteq Nodes
    BY <1>3 DEF Leaf, Children
  <2>3. OnlyChild(h, m) \in Nodes
    BY <2>2 DEF OnlyChild
  <2> QED
    BY <2>1, <2>3
<1> QED
  BY <1>1, <1>2, <1>3
=============================================================================
