-------------------------- MODULE BodyBuilderProofs --------------------------
(* Proofs about BodyBuilder, for any tree of components, whatever the        *)
(* handlers of their events do and whatever is asked: the page that is sent  *)
(* is the one that the components show, what is posted is taken as it was    *)
(* posted, and the button or the form that is asked acts once.               *)
(* The first argument follows the calls in progress: a call has the texts of *)
(* the children it is done with, unless its component was told of a change   *)
(* since, and what a change reaches includes all those that call for the     *)
(* text that changed. The others follow what the round has not evaluated     *)
(* yet: in the first round it has no text, and is as the user saw it unless  *)
(* an event decided otherwise.                                               *)
EXTENDS BodyBuilder, SequenceTheorems, FiniteSetTheorems, TLAPS

(* The component c was adopted by p.                                         *)
IsChild(c, p) == \E i \in DOMAIN Children[p] : Children[p][i] = c

(* A set with all the children of those it has.                              *)
Closed(S) == \A p \in S, c \in Nodes : IsChild(c, p) => c \in S

(* What a component adopted is a component.                                  *)
LEMMA ChildIsNode ==
    ASSUME NEW p \in Nodes, NEW c, IsChild(c, p)
    PROVE  c \in Nodes
BY PageAssumption DEF IsChild, IsTree

(* Induction over the tree: what holds of the root, and of each child of a   *)
(* component of which it holds, holds of all.                                *)
LEMMA TreeInduction ==
    ASSUME NEW S \in SUBSET Nodes, Root \in S, Closed(S)
    PROVE  S = Nodes
<1>1. \A T \in SUBSET Nodes :
         /\ Root \in T
         /\ \A p \in T : \A i \in DOMAIN Children[p] : Children[p][i] \in T
         => T = Nodes
  BY PageAssumption DEF IsTree
<1>2. \A p \in S : \A i \in DOMAIN Children[p] : Children[p][i] \in S
  BY ChildIsNode DEF Closed, IsChild
<1> QED
  BY <1>1, <1>2

(* A component has been adopted once.                                        *)
LEMMA OneParent ==
    ASSUME NEW p \in Nodes, NEW q \in Nodes, NEW c \in Nodes, IsChild(c, p), IsChild(c, q)
    PROVE  p = q
BY PageAssumption DEF IsTree, IsChild

(* Nothing adopts the root.                                                  *)
LEMMA RootIsNoChild ==
    ASSUME NEW p \in Nodes
    PROVE  ~IsChild(Root, p)
BY PageAssumption DEF IsTree, IsChild

(* The parent is the one that adopted.                                       *)
LEMMA ParentOfChild ==
    ASSUME NEW p \in Nodes, NEW c \in Nodes, IsChild(c, p)
    PROVE  Parent(c) = p
<1>1. \E q \in Nodes : IsChild(c, q)
  OBVIOUS
<1>2. Parent(c) \in Nodes /\ IsChild(c, Parent(c))
  BY <1>1 DEF Parent, IsChild
<1> QED
  BY <1>2, OneParent

(* All but the root have a parent.                                           *)
LEMMA HasParent ==
    ASSUME NEW c \in Nodes, c # Root
    PROVE  Parent(c) \in Nodes /\ IsChild(c, Parent(c))
<1> DEFINE S == Nodes \ {c}
<1>1. Root \in S
  BY PageAssumption DEF IsTree
<1>2. ~Closed(S)
  BY <1>1, TreeInduction
<1>3. \E p \in S, d \in Nodes : IsChild(d, p) /\ d \notin S
  BY <1>2 DEF Closed
<1>4. \E p \in Nodes : IsChild(c, p)
  BY <1>3
<1> QED
  BY <1>4 DEF Parent, IsChild

(* The ancestors of a component: those that no set closed under the children *)
(* holds without it.                                                         *)
Above(n) == {m \in Nodes : \A S \in SUBSET Nodes : m \in S /\ Closed(S) => n \in S}

(* Nothing is above the root.                                                *)
LEMMA AboveRoot == Above(Root) = {Root}
<1> Root \in Nodes
  BY PageAssumption DEF IsTree
<1>1. Closed(Nodes \ {Root})
  BY RootIsNoChild DEF Closed
<1> QED
  BY <1>1 DEF Above

(* Above a child are its parent and those above it.                          *)
LEMMA AboveChild ==
    ASSUME NEW p \in Nodes, NEW c \in Nodes, IsChild(c, p)
    PROVE  Above(c) = {c} \cup Above(p)
<1>1. ASSUME NEW m \in Above(p) PROVE m \in Above(c)
  BY DEF Above, Closed
<1>2. ASSUME NEW m \in Above(c), m # c, m \notin Above(p) PROVE FALSE
  <2>1. PICK S \in SUBSET Nodes : m \in S /\ Closed(S) /\ p \notin S
    BY <1>2 DEF Above
  <2>2. Closed(S \ {c})
    BY <2>1, OneParent DEF Closed
  <2> QED
    BY <1>2, <2>1, <2>2 DEF Above
<1>3. c \in Above(c)
  BY DEF Above
<1> QED
  BY <1>1, <1>2, <1>3 DEF Above

(* The recursive function is what its definition says: the ancestors,        *)
(* defined with closed sets, satisfy the same equation, so there is a        *)
(* function that does.                                                       *)
LEMMA LineageIs == \A n \in Nodes : Lineage[n] = IF n = Root THEN {Root} ELSE {n} \cup Lineage[Parent(n)]
<1> DEFINE Good(f) == f = [n \in Nodes |-> IF n = Root THEN {Root} ELSE {n} \cup f[Parent(n)]]
           F == [n \in Nodes |-> Above(n)]
<1>1. ASSUME NEW n \in Nodes PROVE F[n] = IF n = Root THEN {Root} ELSE {n} \cup F[Parent(n)]
  BY AboveRoot, AboveChild, HasParent
<1>2. Good(F)
  BY <1>1
<1>3. Lineage = CHOOSE f : Good(f)
  BY DEF Lineage
<1>4. Good(Lineage)
  BY <1>2, <1>3
<1> QED
  BY <1>4

(* The lineage of the root is itself.                                        *)
LEMMA LineageRoot == Lineage[Root] = {Root}
BY LineageIs, PageAssumption DEF IsTree

(* The lineage of a child is the one of its parent, and itself.              *)
LEMMA LineageChild ==
    ASSUME NEW p \in Nodes, NEW c \in Nodes, IsChild(c, p)
    PROVE  Lineage[c] = {c} \cup Lineage[p] /\ c # Root
BY LineageIs, ParentOfChild, RootIsNoChild

(* The recursive definition and the one with closed sets agree.              *)
LEMMA LineageIsAbove == \A n \in Nodes : Lineage[n] = Above(n)
<1> DEFINE S == {n \in Nodes : Lineage[n] = Above(n)}
<1>1. Root \in S
  BY LineageRoot, AboveRoot, PageAssumption DEF IsTree
<1>2. Closed(S)
  <2>1. ASSUME NEW p \in S, NEW c \in Nodes, IsChild(c, p) PROVE c \in S
    <3>1. p \in Nodes /\ Lineage[p] = Above(p)
      OBVIOUS
    <3>2. Lineage[c] = {c} \cup Lineage[p]
      BY <2>1, <3>1, LineageChild
    <3>3. Above(c) = {c} \cup Above(p)
      BY <2>1, <3>1, AboveChild
    <3> QED
      BY <3>1, <3>2, <3>3
  <2> QED
    BY <2>1 DEF Closed
<1> QED
  BY <1>1, <1>2, TreeInduction

(* A lineage goes from the root to the component.                            *)
LEMMA LineageSelf ==
    ASSUME NEW n \in Nodes
    PROVE  n \in Lineage[n] /\ Lineage[n] \subseteq Nodes /\ Root \in Lineage[n]
<1>1. n \in Lineage[n] /\ Lineage[n] \subseteq Nodes
  BY LineageIsAbove DEF Above
<1>2. Root \in Lineage[n]
  <2>1. ASSUME NEW S \in SUBSET Nodes, Root \in S, Closed(S) PROVE n \in S
    BY <2>1, TreeInduction
  <2> QED
    BY <2>1, LineageIsAbove, PageAssumption DEF Above, IsTree
<1> QED
  BY <1>1, <1>2

(* What is above an ancestor is above.                                       *)
LEMMA LineageTrans ==
    ASSUME NEW n \in Nodes, NEW m \in Lineage[n], NEW k \in Lineage[m]
    PROVE  k \in Lineage[n]
BY LineageIsAbove DEF Above

(* A component is at least as deep as those it is in.                        *)
LEMMA LineageGrows ==
    ASSUME NEW n \in Nodes, NEW m \in Lineage[n]
    PROVE  Cardinality(Lineage[m]) <= Cardinality(Lineage[n])
<1> DEFINE S == {k \in Nodes : IsFiniteSet(Lineage[k])}
<1>1. Root \in S
  <2>1. Root \in Nodes
    BY PageAssumption DEF IsTree
  <2>2. IsFiniteSet({Root})
    BY FS_Singleton
  <2> QED
    BY <2>1, <2>2, LineageRoot
<1>2. Closed(S)
  <2>1. ASSUME NEW p \in S, NEW c \in Nodes, IsChild(c, p) PROVE c \in S
    <3>1. Lineage[c] = {c} \cup Lineage[p]
      BY <2>1, LineageChild
    <3> QED
      BY <3>1, FS_AddElement
  <2> QED
    BY <2>1 DEF Closed
<1>3. IsFiniteSet(Lineage[n])
  BY <1>1, <1>2, TreeInduction
<1>4. Lineage[m] \in SUBSET Lineage[n]
  BY LineageTrans
<1> QED
  BY <1>3, <1>4, FS_Subset

(* No component adopts itself.                                               *)
LEMMA NotOwnChild ==
    ASSUME NEW n \in Nodes
    PROVE  ~IsChild(n, n)
<1> DEFINE S == {m \in Nodes : ~IsChild(m, m)}
<1>1. Root \in S
  BY RootIsNoChild, PageAssumption DEF IsTree
<1>2. ASSUME NEW p \in S, NEW c \in Nodes, IsChild(c, p) PROVE c \in S
  BY <1>2, OneParent
<1>3. S = Nodes
  <2>1. Closed(S)
    BY <1>2 DEF Closed
  <2> QED
    BY <1>1, <2>1, TreeInduction
<1> QED
  BY <1>3

(* No two components are above each other.                                   *)
LEMMA NoCycle ==
    ASSUME NEW n \in Nodes, NEW m \in Lineage[n], n \in Lineage[m]
    PROVE  m = n
<1> DEFINE S == {k \in Nodes : \A j \in Lineage[k] : k \in Lineage[j] => j = k}
<1>1. Root \in S
  BY LineageRoot, PageAssumption DEF IsTree
<1>2. ASSUME NEW p \in S, NEW c \in Nodes, IsChild(c, p) PROVE c \in S
  <2> SUFFICES ASSUME NEW j \in Lineage[c], c \in Lineage[j], j # c PROVE FALSE
    OBVIOUS
  <2>1. Lineage[c] = {c} \cup Lineage[p] /\ c # p
    BY <1>2, LineageChild, NotOwnChild
  <2>2. j \in Lineage[p] /\ j \in Nodes
    BY <2>1, LineageSelf
  <2>3. p \in Lineage[c] /\ p \in Lineage[j]
    BY <2>1, <2>2, LineageSelf, LineageTrans
  <2>4. j = p
    BY <2>2, <2>3
  <2> QED
    BY <2>1, <2>3, <2>4
<1>3. S = Nodes
  <2>1. Closed(S)
    BY <1>2 DEF Closed
  <2> QED
    BY <1>1, <2>1, TreeInduction
<1> QED
  BY <1>3

(* A lineage is a chain.                                                     *)
LEMMA LineageChain ==
    ASSUME NEW n \in Nodes, NEW k \in Lineage[n], NEW m \in Lineage[n]
    PROVE  k \in Lineage[m] \/ m \in Lineage[k]
<1> DEFINE S == {j \in Nodes : \A x, y \in Lineage[j] : x \in Lineage[y] \/ y \in Lineage[x]}
<1>1. Root \in S
  BY LineageRoot, PageAssumption DEF IsTree
<1>2. ASSUME NEW p \in S, NEW c \in Nodes, IsChild(c, p) PROVE c \in S
  <2>1. Lineage[c] = {c} \cup Lineage[p]
    BY <1>2, LineageChild
  <2> SUFFICES ASSUME NEW x \in Lineage[c], NEW y \in Lineage[c]
               PROVE  x \in Lineage[y] \/ y \in Lineage[x]
    OBVIOUS
  <2> QED
    BY <2>1
<1>3. S = Nodes
  <2>1. Closed(S)
    BY <1>2 DEF Closed
  <2> QED
    BY <1>1, <2>1, TreeInduction
<1> QED
  BY <1>3

(* Between a component and one below there is a child of the first.          *)
LEMMA StepDown ==
    ASSUME NEW m \in Nodes, NEW n \in Lineage[m], n # m
    PROVE  \E c \in Nodes : IsChild(c, n) /\ c \in Lineage[m]
<1> DEFINE S == {k \in Nodes : \A j \in Lineage[k] : j # k =>
                     \E c \in Nodes : IsChild(c, j) /\ c \in Lineage[k]}
<1>1. Root \in S
  BY LineageRoot, PageAssumption DEF IsTree
<1>2. ASSUME NEW p \in S, NEW d \in Nodes, IsChild(d, p) PROVE d \in S
  <2>1. Lineage[d] = {d} \cup Lineage[p]
    BY <1>2, LineageChild
  <2> SUFFICES ASSUME NEW j \in Lineage[d], j # d
               PROVE  \E c \in Nodes : IsChild(c, j) /\ c \in Lineage[d]
    OBVIOUS
  <2>2. CASE j = p
    BY <1>2, <2>1, <2>2
  <2>3. CASE j # p
    BY <2>1, <2>3
  <2> QED
    BY <2>2, <2>3
<1>3. S = Nodes
  <2>1. Closed(S)
    BY <1>2 DEF Closed
  <2> QED
    BY <1>1, <2>1, TreeInduction
<1> QED
  BY <1>3

(* What is shown of a component and of those below it.                       *)
Vis(n) == {m \in Nodes : n \in Notified(m, visible)}

Text(n) == {Part(m) : m \in Vis(n)}

(* A hidden component shows nothing.                                         *)
LEMMA HiddenShowsNothing ==
    ASSUME NEW n \in Nodes, ~visible[n]
    PROVE  Text(n) = {}
BY LineageSelf DEF Text, Vis, Notified

(* What a visible component shows is itself and what its children show.      *)
LEMMA VisDescends ==
    ASSUME NEW n \in Nodes, visible[n]
    PROVE  Vis(n) = {n} \cup UNION {Vis(c) : c \in {d \in Nodes : IsChild(d, n)}}
<1>1. n \in Vis(n)
  <2>1. \A k \in Lineage[n] : n \in Lineage[k] => k = n
    BY NoCycle
  <2> QED
    BY <2>1, LineageSelf DEF Vis, Notified
<1>2. ASSUME NEW m \in Vis(n), m # n
      PROVE  \E c \in Nodes : IsChild(c, n) /\ m \in Vis(c)
  <2>1. m \in Nodes /\ n \in Lineage[m] /\ \A k \in Lineage[m] : n \in Lineage[k] => visible[k]
    BY DEF Vis, Notified
  <2>2. PICK c \in Nodes : IsChild(c, n) /\ c \in Lineage[m]
    BY <1>2, <2>1, StepDown
  <2>3. n \in Lineage[c]
    BY <2>2, LineageChild, LineageSelf
  <2>4. ASSUME NEW k \in Lineage[m], c \in Lineage[k] PROVE visible[k]
    BY <2>1, <2>3, <2>4, LineageTrans, LineageSelf
  <2> QED
    BY <2>1, <2>2, <2>4 DEF Vis, Notified
<1>3. ASSUME NEW c \in Nodes, IsChild(c, n), NEW m \in Vis(c)
      PROVE  m \in Vis(n)
  <2>1. m \in Nodes /\ c \in Lineage[m] /\ \A k \in Lineage[m] : c \in Lineage[k] => visible[k]
    BY DEF Vis, Notified
  <2>2. Lineage[c] = {c} \cup Lineage[n] /\ n \in Lineage[n]
    BY <1>3, LineageChild, LineageSelf
  <2>3. n \in Lineage[m]
    BY <2>1, <2>2, LineageTrans
  <2>4. ASSUME NEW k \in Lineage[m], n \in Lineage[k] PROVE visible[k]
    <3>1. k \in Nodes /\ (c \in Lineage[k] \/ k \in Lineage[c])
      BY <2>1, LineageChain, LineageSelf
    <3>2. CASE c \in Lineage[k]
      BY <2>1, <3>2
    <3>3. CASE k \in Lineage[c] /\ c \notin Lineage[k]
      <4>1. k \in Lineage[n]
        BY <2>2, <3>1, <3>3, LineageSelf
      <4> QED
        BY <2>4, <4>1, NoCycle
    <3> QED
      BY <3>1, <3>2, <3>3
  <2> QED
    BY <2>1, <2>3, <2>4 DEF Vis, Notified
<1> QED
  BY <1>1, <1>2, <1>3

(* The same of the parts of the page.                                        *)
LEMMA TextDescends ==
    ASSUME NEW n \in Nodes, visible[n]
    PROVE  Text(n) = {Part(n)} \cup UNION {Text(Children[n][j]) : j \in DOMAIN Children[n]}
<1>1. Vis(n) = {n} \cup UNION {Vis(c) : c \in {d \in Nodes : IsChild(d, n)}}
  BY VisDescends
<1>2. \A c \in Nodes : IsChild(c, n) => \E j \in DOMAIN Children[n] : c = Children[n][j]
  BY DEF IsChild
<1>3. \A j \in DOMAIN Children[n] : Children[n][j] \in Nodes /\ IsChild(Children[n][j], n)
  BY ChildIsNode DEF IsChild
<1> QED
  BY <1>1, <1>2, <1>3 DEF Text

(* What is visible with all its ancestors is what the root shows.            *)
LEMMA ShownFromRoot == {n \in Nodes : Shown(n)} = Vis(Root)
BY LineageSelf DEF Vis, Notified, Shown

(* The components that a pending event says have changed.                    *)
Announced(s) == {s[i].node : i \in {j \in DOMAIN s : s[j].do = "changed"}}

(* A component whose text is not to be used, or will not be.                 *)
Obsolete(n) == body_changed[n] \/ \E m \in Announced(todo) : n \in Notified(m, visible)

(* The calls to get_body_part in progress go from the root to the top.       *)
StackOK ==
    /\ stage # "building" => stack = <<>>
    /\ stack = <<>> => todo = <<>>
    /\ stack # <<>> => stack[1].node = Root
    /\ \A i \in 1..(Len(stack) - 1) :
          /\ stack[i].next - 1 \in DOMAIN Children[stack[i].node]
          /\ stack[i + 1].node = Children[stack[i].node][stack[i].next - 1]
    /\ \A i \in DOMAIN stack : stack[i].next = 0 => stack[i].text = {}
    /\ \A i, j \in DOMAIN stack : i < j =>
          stack[i].node \in Lineage[stack[j].node] /\ stack[i].node # stack[j].node

(* The children that a call is done with.                                    *)
Done(i) ==
    {j \in DOMAIN Children[stack[i].node] :
        j < stack[i].next /\ (i < Len(stack) => j # stack[i].next - 1)}

(* A call in progress has the texts of the children it is done with, unless  *)
(* its component is obsolete, as it is if it was hidden meanwhile, and then  *)
(* those that called it are obsolete too.                                    *)
FramesOK ==
    \A i \in DOMAIN stack : stack[i].next > 0 =>
        \/ Obsolete(stack[i].node)
        \/ stack[i].text = UNION {Text(Children[stack[i].node][j]) : j \in Done(i)}

(* A component that was hidden while it is evaluated was told so.            *)
HiddenOK ==
    \A i \in DOMAIN stack : stack[i].next > 0 =>
        visible[stack[i].node] \/ body_changed[stack[i].node]

(* Who called an obsolete component is obsolete: what changes below is told  *)
(* up to the first that is hidden.                                           *)
CallersOK ==
    \A i \in 1..(Len(stack) - 1) :
        stack[i + 1].next > 0 /\ Obsolete(stack[i + 1].node) => Obsolete(stack[i].node)

(* The components that were entered and have not returned.                   *)
InProgress == {stack[i].node : i \in {j \in DOMAIN stack : stack[j].next > 0}}

(* What is in a cache and may be used is what the component shows.           *)
CachesOK ==
    \A n \in Nodes \ InProgress :
        visible[n] /\ last_body[n].key = Key => Obsolete(n) \/ last_body[n].text = Text(n)

(* When the root has returned, the page is what is shown or another round is *)
(* due.                                                                      *)
PageOK ==
    stack = <<>> /\ (stage = "building" \/ (stage = "idle" /\ loop > 0)) =>
        \/ page = Text(Root)
        \/ stage = "building" /\ body_changed[Root]

(* The inductive invariant, and its parts.                                   *)
Invs == StackOK /\ FramesOK /\ HiddenOK /\ CallersOK /\ CachesOK /\ PageOK

IInv == TypeOK /\ Invs

-----------------------------------------------------------------------------
(* What reaches a component reaches its parent if it is visible.             *)
LEMMA NotifiedUp ==
    ASSUME NEW m \in Nodes, NEW c \in Nodes, NEW p \in Nodes, IsChild(c, p), NEW v,
           c \in Notified(m, v), v[p]
    PROVE  p \in Notified(m, v)
<1>1. c \in Lineage[m] /\ \A k \in Lineage[m] : c \in Lineage[k] => v[k]
  BY DEF Notified
<1>2. Lineage[c] = {c} \cup Lineage[p]
  BY LineageChild
<1>3. p \in Lineage[m]
  BY <1>1, <1>2, LineageSelf, LineageTrans
<1>4. ASSUME NEW k \in Lineage[m], p \in Lineage[k] PROVE v[k]
  <2>1. k \in Nodes /\ (c \in Lineage[k] \/ k \in Lineage[c])
    BY <1>1, LineageChain, LineageSelf
  <2>2. CASE c \in Lineage[k]
    BY <1>1, <2>2
  <2>3. CASE k = c
    BY <1>1, <2>3, LineageSelf
  <2>4. CASE k \in Lineage[p]
    BY <1>4, <2>1, <2>4, NoCycle
  <2> QED
    BY <1>2, <2>1, <2>2, <2>3, <2>4
<1> QED
  BY <1>3, <1>4 DEF Notified

(* What goes from a component past one of its ancestors is what this one     *)
(* tells.                                                                    *)
LEMMA NotifiedThrough ==
    ASSUME NEW m \in Nodes, NEW x \in Lineage[m], NEW n \in Lineage[x], NEW v,
           n \in Notified(m, v)
    PROVE  n \in Notified(x, v) /\ v[x]
<1>1. \A k \in Lineage[x] : k \in Lineage[m]
  BY LineageTrans
<1> QED
  BY <1>1 DEF Notified

(* A component is shown or hidden: nothing changes but for those it tells.   *)
LEMMA ShownOrHidden ==
    ASSUME TypeOK, NEW x \in Nodes, NEW b \in BOOLEAN, b # visible[x],
           visible' = [visible EXCEPT ![x] = b],
           NEW m \in Nodes, NEW n \in Nodes \ Notified(x, IF b THEN visible' ELSE visible)
    PROVE  n \in Notified(m, visible') <=> n \in Notified(m, visible)
<1>1. \A k \in Nodes : k # x => visible'[k] = visible[k]
  BY DEF TypeOK
<1>2. visible'[x] = b
  BY DEF TypeOK
<1>3. CASE x \in Lineage[m] /\ n \in Lineage[x]
  <2>1. CASE b
    <3>1. n \notin Notified(m, visible')
      BY <1>3, <2>1, NotifiedThrough
    <3>2. n \notin Notified(m, visible)
      BY <1>3, <2>1, NotifiedThrough
    <3> QED
      BY <3>1, <3>2
  <2>2. CASE ~b
    <3>1. n \notin Notified(m, visible)
      BY <1>3, <2>2, NotifiedThrough
    <3>2. n \notin Notified(m, visible')
      BY <1>2, <1>3, <2>2, NotifiedThrough
    <3> QED
      BY <3>1, <3>2
  <2> QED
    BY <2>1, <2>2
<1>4. CASE ~(x \in Lineage[m] /\ n \in Lineage[x])
  <2>1. \A k \in Lineage[m] : n \in Lineage[k] => k \in Nodes /\ visible'[k] = visible[k]
    BY <1>1, <1>4, LineageSelf
  <2> QED
    BY <2>1 DEF Notified
<1> QED
  BY <1>3, <1>4

(* The text of a component depends on the components it shows and on their   *)
(* parts.                                                                    *)
LEMMA SameText ==
    ASSUME NEW n \in Nodes,
           \A m \in Nodes : n \in Notified(m, visible') <=> n \in Notified(m, visible),
           \A m \in Nodes : n \in Notified(m, visible) => Part(m)' = Part(m)
    PROVE  Text(n)' = Text(n)
<1>1. Vis(n)' = Vis(n)
  BY DEF Vis
<1>2. \A m \in Vis(n) : Part(m)' = Part(m)
  BY DEF Vis
<1> QED
  BY <1>1, <1>2 DEF Text

-----------------------------------------------------------------------------
(* A field is a component.                                                   *)
LEMMA FieldsAreNodes == Fields \subseteq Nodes
BY DEF Fields

(* The handlers of an event announce no change by themselves: what they do   *)
(* may.                                                                      *)
LEMMA ActType ==
    ASSUME TypeOK, NEW n \in Nodes, NEW v \in Values
    PROVE  Act(n, v) \in Seq(Ops) /\ Announced(Act(n, v)) = {}
<1>1. reactions[n] \in Seq(Handlers)
  BY DEF TypeOK
<1>2. DOMAIN Act(n, v) = 1..Len(reactions[n]) /\ Len(reactions[n]) \in Nat
  BY <1>1 DEF Act
<1>3. ASSUME NEW i \in 1..Len(reactions[n])
      PROVE  Act(n, v)[i] \in Ops /\ Act(n, v)[i].do # "changed"
  <2>1. reactions[n][i] \in Handlers
    BY <1>1
  <2>2. (IF reactions[n][i].same THEN v ELSE 1 - v) \in Values
    BY DEF Values
  <2>3. Act(n, v)[i] = [do |-> reactions[n][i].do, node |-> reactions[n][i].node,
                        to |-> IF reactions[n][i].same THEN v ELSE 1 - v]
    BY <1>1 DEF Act
  <2> QED
    BY <2>1, <2>2, <2>3 DEF Handlers, Ops
<1>4. Act(n, v) \in [1..Len(reactions[n]) -> Ops]
  BY <1>2, <1>3 DEF Act
<1> QED
  BY <1>2, <1>3, <1>4, SeqDef DEF Announced

(* What follows the handlers of a field: its change is told, or the field is *)
(* locked.                                                                   *)
LEMMA ThenType ==
    ASSUME NEW f \in Fields
    PROVE  /\ Then("changed", f) \in Seq(Ops) /\ Announced(Then("changed", f)) = {f}
           /\ Then("lock", f) \in Seq(Ops) /\ Announced(Then("lock", f)) = {}
BY DEF Then, Ops, Values, Announced

(* What two lists of events announce is what each does.                      *)
LEMMA ConcatAnnounced ==
    ASSUME NEW s \in Seq(Ops), NEW t \in Seq(Ops)
    PROVE  s \o t \in Seq(Ops) /\ Announced(s \o t) = Announced(s) \cup Announced(t)
<1>1. s \o t \in Seq(Ops) /\ Len(s \o t) = Len(s) + Len(t)
  OBVIOUS
<1>2. \A i \in 1..Len(s) : (s \o t)[i] = s[i]
  OBVIOUS
<1>3. \A i \in 1..Len(t) : (s \o t)[Len(s) + i] = t[i] /\ Len(s) + i \in 1..Len(s \o t)
  OBVIOUS
<1>4. \A i \in 1..Len(s \o t) : i \in 1..Len(s) \/ i - Len(s) \in 1..Len(t)
  BY <1>1
<1>5. \A i \in 1..Len(s \o t) : i - Len(s) \in 1..Len(t) => (s \o t)[i] = t[i - Len(s)]
  BY <1>1
<1>6. DOMAIN s = 1..Len(s) /\ DOMAIN t = 1..Len(t) /\ DOMAIN (s \o t) = 1..Len(s \o t)
  BY <1>1
<1> QED
  <2>1. ASSUME NEW i \in DOMAIN s, s[i].do = "changed" PROVE s[i].node \in Announced(s \o t)
    <3>1. i \in DOMAIN (s \o t) /\ (s \o t)[i] = s[i]
      BY <1>1, <1>2, <1>6
    <3> QED
      BY <2>1, <3>1 DEF Announced
  <2>2. ASSUME NEW i \in DOMAIN t, t[i].do = "changed" PROVE t[i].node \in Announced(s \o t)
    <3>1. Len(s) + i \in DOMAIN (s \o t) /\ (s \o t)[Len(s) + i] = t[i]
      BY <1>3, <1>6
    <3> QED
      BY <2>2, <3>1 DEF Announced
  <2>3. ASSUME NEW i \in DOMAIN (s \o t), (s \o t)[i].do = "changed"
        PROVE  (s \o t)[i].node \in Announced(s) \cup Announced(t)
    <3>1. CASE i \in DOMAIN s
      BY <1>2, <1>6, <2>3, <3>1 DEF Announced
    <3>2. CASE i - Len(s) \in DOMAIN t
      <4>1. (s \o t)[i] = t[i - Len(s)]
        BY <1>5, <1>6, <3>2
      <4> QED
        BY <2>3, <3>2, <4>1 DEF Announced
    <3> QED
      BY <1>4, <1>6, <3>1, <3>2
  <2> QED
    BY <1>1, <2>1, <2>2, <2>3 DEF Announced

(* What a list of events announces, the first and the others.                *)
LEMMA TailAnnounced ==
    ASSUME NEW s \in Seq(Ops), s # <<>>
    PROVE  /\ Tail(s) \in Seq(Ops) /\ Head(s) \in Ops
           /\ Announced(s) = Announced(Tail(s)) \cup
                 (IF Head(s).do = "changed" THEN {Head(s).node} ELSE {})
<1>1. Tail(s) \in Seq(Ops) /\ Head(s) \in Ops /\ Len(Tail(s)) = Len(s) - 1 /\ Len(s) \in Nat \ {0}
  OBVIOUS
<1>2. Head(s) = s[1] /\ \A i \in 1..Len(Tail(s)) : Tail(s)[i] = s[i + 1]
  OBVIOUS
<1>3. DOMAIN s = 1..Len(s) /\ DOMAIN Tail(s) = 1..Len(Tail(s))
  BY <1>1
<1>4. \A i \in 1..Len(s) : i = 1 \/ (i - 1 \in 1..Len(Tail(s)) /\ s[i] = Tail(s)[i - 1])
  BY <1>1, <1>2
<1>5. \A i \in 1..Len(Tail(s)) : i + 1 \in 1..Len(s)
  BY <1>1
<1> QED
  <2>1. ASSUME NEW i \in DOMAIN Tail(s), Tail(s)[i].do = "changed"
        PROVE  Tail(s)[i].node \in Announced(s)
    <3>1. i + 1 \in DOMAIN s /\ s[i + 1] = Tail(s)[i]
      BY <1>2, <1>3, <1>5
    <3> QED
      BY <2>1, <3>1 DEF Announced
  <2>2. ASSUME NEW i \in DOMAIN s, s[i].do = "changed"
        PROVE  i = 1 \/ s[i].node \in Announced(Tail(s))
    <3>1. i = 1 \/ (i - 1 \in DOMAIN Tail(s) /\ s[i] = Tail(s)[i - 1])
      BY <1>3, <1>4
    <3> QED
      BY <2>2, <3>1 DEF Announced
  <2>3. 1 \in DOMAIN s
    BY <1>1, <1>3
  <2> QED
    BY <1>1, <1>2, <2>1, <2>2, <2>3 DEF Announced

-----------------------------------------------------------------------------
(* What is recorded of a call in progress.                                   *)
LEMMA FrameType ==
    ASSUME TypeOK, NEW i \in DOMAIN stack
    PROVE  stack[i].node \in Nodes /\ stack[i].next \in Nat /\ stack[i] \in Frames
<1>1. stack[i] \in Frames
  BY DEF TypeOK
<1> QED
  BY <1>1 DEF Frames

(* A step of the events, seen by the components of R only: what it tells     *)
(* goes up as long as components are visible, and the others show what they  *)
(* showed.                                                                   *)
LEMMA EventKeeps ==
    ASSUME TypeOK, Invs, stack # <<>>, NEW R \in SUBSET Nodes,
           UNCHANGED <<stack, last_body, request, stage, loop, page>>,
           \A c, p \in Nodes : IsChild(c, p) /\ c \in R /\ visible[p] => p \in R,
           \A k \in R : Obsolete(k)',
           \A k \in Nodes \ R : /\ Text(k)' = Text(k) /\ visible'[k] = visible[k]
                                /\ Obsolete(k)' <=> Obsolete(k),
           \A k \in Nodes : /\ Obsolete(k) => Obsolete(k)'
                            /\ body_changed[k] => body_changed'[k]
                            /\ visible[k] /\ ~visible'[k] => body_changed'[k]
    PROVE  Invs'
<1> Key' = Key
  BY DEF Key
<1> \A i \in DOMAIN stack : stack[i].node \in Nodes
  BY FrameType
<1> \A p \in Nodes : \A j \in DOMAIN Children[p] :
       Children[p][j] \in Nodes /\ IsChild(Children[p][j], p)
  BY ChildIsNode DEF IsChild
<1>1. StackOK'
  BY DEF Invs, StackOK
<1>2. HiddenOK'
  BY DEF Invs, HiddenOK
<1>3. FramesOK'
  <2> SUFFICES ASSUME NEW i \in DOMAIN stack, stack[i].next > 0, ~Obsolete(stack[i].node)'
               PROVE  stack[i].text
                        = UNION {Text(Children[stack[i].node][j])' : j \in Done(i)}
    BY DEF FramesOK, Done
  <2>1. ~Obsolete(stack[i].node) /\ stack[i].node \notin R
    OBVIOUS
  <2>2. visible[stack[i].node]
    BY <2>1 DEF Invs, HiddenOK, Obsolete
  <2>3. \A j \in DOMAIN Children[stack[i].node] :
           Text(Children[stack[i].node][j])' = Text(Children[stack[i].node][j])
    BY <2>1, <2>2
  <2>4. stack[i].text = UNION {Text(Children[stack[i].node][j]) : j \in Done(i)}
    BY <2>1 DEF Invs, FramesOK
  <2>5. \A j \in Done(i) : j \in DOMAIN Children[stack[i].node]
    BY DEF Done
  <2> QED
    BY <2>3, <2>4, <2>5
<1>4. CallersOK'
  <2> SUFFICES ASSUME NEW i \in 1..(Len(stack) - 1), stack[i + 1].next > 0,
                      Obsolete(stack[i + 1].node)'
               PROVE  Obsolete(stack[i].node)'
    BY DEF CallersOK
  <2>1. i \in DOMAIN stack /\ i + 1 \in DOMAIN stack
    BY DEF TypeOK
  <2>2. IsChild(stack[i + 1].node, stack[i].node) /\ stack[i].next > 0
    <3>1. stack[i].next - 1 \in DOMAIN Children[stack[i].node] /\ stack[i].next \in Nat
      BY <2>1, FrameType DEF Invs, StackOK
    <3>2. Children[stack[i].node] \in Seq(Nodes)
      BY <2>1, PageAssumption DEF IsTree
    <3>3. stack[i].next > 0
      BY <3>1, <3>2
    <3>4. stack[i + 1].node = Children[stack[i].node][stack[i].next - 1]
      BY DEF Invs, StackOK
    <3> QED
      BY <3>1, <3>3, <3>4 DEF IsChild
  <2>3. CASE stack[i + 1].node \notin R
    BY <2>1, <2>3 DEF Invs, CallersOK
  <2>4. CASE stack[i + 1].node \in R /\ visible[stack[i].node]
    BY <2>1, <2>2, <2>4
  <2>5. CASE ~visible[stack[i].node]
    BY <2>1, <2>2, <2>5 DEF Invs, HiddenOK, Obsolete
  <2> QED
    BY <2>3, <2>4, <2>5
<1>5. CachesOK'
  BY DEF Invs, CachesOK, InProgress
<1>6. PageOK'
  BY DEF PageOK
<1> QED
  BY <1>1, <1>2, <1>3, <1>4, <1>5, <1>6 DEF Invs

(* What a component tells when its part of the page changes.                 *)
LEMMA TellsUp ==
    ASSUME NEW x \in Nodes, NEW v
    PROVE  /\ Notified(x, v) \in SUBSET Nodes
           /\ \A c, p \in Nodes : IsChild(c, p) /\ c \in Notified(x, v) /\ v[p] =>
                 p \in Notified(x, v)
BY NotifiedUp, LineageSelf DEF Notified

(* The part of a field that did not change is the same.                      *)
LEMMA PartOfOther ==
    ASSUME NEW m \in Nodes,
           m \in Fields => value'[m] = value[m] /\ enabled'[m] = enabled[m]
    PROVE  Part(m)' = Part(m)
BY DEF Part

(* The text of a component depends on the parts of those it shows.           *)
LEMMA TextOfOther ==
    ASSUME UNCHANGED visible, NEW x \in Nodes,
           \A m \in Fields : m # x => value'[m] = value[m] /\ enabled'[m] = enabled[m],
           NEW n \in Nodes \ Notified(x, visible)
    PROVE  Text(n)' = Text(n)
<1>1. \A m \in Nodes : n \in Notified(m, visible) => Part(m)' = Part(m)
  BY PartOfOther
<1>2. \A m \in Nodes : n \in Notified(m, visible') <=> n \in Notified(m, visible)
  OBVIOUS
<1> QED
  BY <1>1, <1>2, SameText

(* The event that is acted next, and what is left to announce after it.      *)
LEMMA HeadOfTodo ==
    ASSUME TypeOK, Invs, todo # <<>>
    PROVE  /\ Head(todo) \in Ops /\ Tail(todo) \in Seq(Ops) /\ stack # <<>>
           /\ Head(todo).node \in Nodes
           /\ Head(todo).do # "visible" => Head(todo).node \in Fields
           /\ Head(todo).to \in Values
           /\ Head(todo).do = "changed" =>
                 Announced(todo) = Announced(Tail(todo)) \cup {Head(todo).node}
           /\ Head(todo).do # "changed" => Announced(todo) = Announced(Tail(todo))
<1>1. todo \in Seq(Ops) /\ stack # <<>>
  BY DEF TypeOK, Invs, StackOK
<1>2. Head(todo) \in Ops /\ Tail(todo) \in Seq(Ops)
  BY <1>1, TailAnnounced
<1>3. /\ Head(todo).node \in Nodes /\ Head(todo).to \in Values
      /\ Head(todo).do # "visible" => Head(todo).node \in Fields
  BY <1>2, FieldsAreNodes DEF Ops
<1> QED
  BY <1>1, <1>2, <1>3, TailAnnounced

(* What the events leave alone.                                              *)
Aside == UNCHANGED <<reactions, stage, request, loop, page, stack, seen, acted>>

(* Nothing that is shown changes, and what was announced is still told.      *)
LEMMA NothingShownChanges ==
    ASSUME TypeOK, Invs, todo # <<>>, Aside, UNCHANGED <<visible, last_body, value, enabled>>,
           \A k \in Nodes : (Obsolete(k)' <=> Obsolete(k)) /\ (body_changed[k] => body_changed'[k])
    PROVE  Invs'
<1>1. stack # <<>> /\ UNCHANGED <<stack, last_body, request, stage, loop, page>>
  BY DEF Invs, StackOK, Aside
<1>2. \A k \in Nodes : Text(k)' = Text(k)
  BY PartOfOther, SameText
<1> QED
  BY <1>1, <1>2, EventKeeps, SMTT(30)

(* A component is shown or hidden: those whose text changes are told before  *)
(* it is hidden, or after it is shown.                                       *)
LEMMA SetVisibleKeeps ==
    ASSUME TypeOK, Invs, todo # <<>>, SetVisible(Head(todo)), Aside
    PROVE  /\ Invs'
           /\ \A k \in Nodes : /\ Obsolete(k) => Obsolete(k)'
                               /\ body_changed[k] => body_changed'[k]
                               /\ visible'[k] /\ ~visible[k] => body_changed'[k]
                               /\ body_changed'[k] /\ ~body_changed[k] =>
                                     k \in Lineage[Head(todo).node]
           /\ \A c, p \in Nodes :
                 IsChild(c, p) /\ body_changed'[c] /\ ~body_changed[c] /\ visible'[p] =>
                     body_changed'[p]
<1> DEFINE x == Head(todo).node
           b == (Head(todo).to = 1)
           R == IF visible' = visible THEN {}
                ELSE Notified(x, IF b THEN visible' ELSE visible)
<1>1. /\ x \in Nodes /\ stack # <<>> /\ Announced(todo') = Announced(todo)
      /\ visible' = [visible EXCEPT ![x] = b]
  BY HeadOfTodo DEF SetVisible
<1>2. UNCHANGED <<stack, last_body, request, stage, loop, page, value, enabled>>
  BY DEF SetVisible, Aside, fields
<1>3. \A m \in Nodes : Part(m)' = Part(m)
  BY <1>2, PartOfOther
<1>4. CASE visible' = visible
  <2>1. UNCHANGED body_changed
    BY <1>4 DEF SetVisible
  <2>2. \A k \in Nodes : (Obsolete(k)' <=> Obsolete(k)) /\ Text(k)' = Text(k)
    BY <1>1, <1>3, <1>4, <2>1, SameText DEF Obsolete
  <2>3. Invs'
    BY <1>1, <1>2, <1>4, <2>1, <2>2, NothingShownChanges
  <2> QED
    BY <1>4, <2>1, <2>2, <2>3
<1>5. CASE visible' # visible
  <2>1. b \in BOOLEAN /\ b # visible[x] /\ visible \in [Nodes -> BOOLEAN]
    BY <1>1, <1>5 DEF TypeOK
  <2>2. visible' \in [Nodes -> BOOLEAN] /\ visible'[x] = b
        /\ \A k \in Nodes : k # x => visible'[k] = visible[k]
    BY <1>1, <2>1
  <2>3. \A k \in Nodes : body_changed'[k] <=> body_changed[k] \/ k \in R
    BY <1>5 DEF SetVisible, Mark, TypeOK
  <2>4. R \in SUBSET Nodes
    BY <1>1, <1>5, TellsUp
  <2>5. \A k \in Nodes \ R, m \in Nodes :
           k \in Notified(m, visible') <=> k \in Notified(m, visible)
    BY <1>1, <1>5, <2>1, ShownOrHidden, ZenonT(60)
  <2>6. \A c, p \in Nodes : IsChild(c, p) /\ c \in R /\ visible[p] => p \in R
    <3>1. \A p \in Nodes : visible[p] => (IF b THEN visible' ELSE visible)[p]
      BY <2>1, <2>2
    <3> QED
      BY <1>1, <1>5, <3>1, TellsUp
  <2>7. \A k \in Nodes \ R : Text(k)' = Text(k)
    BY <1>3, <2>5, SameText
  <2>8. Announced(todo) \subseteq Nodes
    BY FieldsAreNodes DEF Announced, TypeOK, Ops
  <2>9. \A k \in Nodes \ R : Obsolete(k)' <=> Obsolete(k)
    BY <1>1, <2>3, <2>5, <2>8, ZenonT(60) DEF Obsolete
  <2>10. \A k \in R : Obsolete(k)'
    BY <2>3, <2>4 DEF Obsolete
  <2>11. x \in Notified(x, visible) \/ b
    <3>1. ASSUME ~b, NEW k \in Lineage[x], x \in Lineage[k] PROVE visible[k]
      BY <1>1, <2>1, <3>1, NoCycle
    <3> QED
      BY <1>1, <3>1, LineageSelf DEF Notified
  <2>12. \A k \in Nodes : visible[k] /\ ~visible'[k] => body_changed'[k]
    BY <1>1, <1>5, <2>1, <2>2, <2>3, <2>11
  <2>13. \A k \in Nodes \ R : visible'[k] = visible[k]
    <3>1. x \in R
      <4>1. ASSUME b, NEW k \in Lineage[x], x \in Lineage[k] PROVE visible'[k]
        BY <1>1, <2>2, <4>1, NoCycle
      <4> QED
        BY <1>1, <1>5, <2>11, <4>1, LineageSelf DEF Notified
    <3> QED
      BY <2>2, <3>1
  <2>14. \A k \in Nodes : (Obsolete(k) => Obsolete(k)') /\ (body_changed[k] => body_changed'[k])
    BY <2>3, <2>9, <2>10 DEF Obsolete
  <2>15. \A k \in R : k \in Lineage[x]
    BY <1>5 DEF Notified
  <2>16. \A c, p \in Nodes : IsChild(c, p) /\ c \in R /\ visible'[p] => p \in R
    <3>1. \A p \in Nodes : visible'[p] => (IF b THEN visible' ELSE visible)[p]
      BY <2>1, <2>2
    <3> QED
      BY <1>1, <1>5, <3>1, TellsUp
  <2>17. \A k \in Nodes : visible'[k] /\ ~visible[k] => k \in R
    BY <2>13
  <2> HIDE DEF R
  <2>18. Invs'
    BY <1>1, <1>2, <2>4, <2>6, <2>7, <2>9, <2>10, <2>12, <2>13, <2>14, EventKeeps
  <2> QED
    BY <2>3, <2>14, <2>15, <2>16, <2>17, <2>18
<1> QED
  BY <1>4, <1>5

(* A field changes: it has announced it, or is about to.                     *)
LEMMA FieldChanges ==
    ASSUME TypeOK, Invs, todo # <<>>, NEW x \in Nodes,
           Aside, UNCHANGED <<visible, body_changed, last_body>>,
           \A m \in Fields : m # x => value'[m] = value[m] /\ enabled'[m] = enabled[m],
           Announced(todo') = Announced(todo) \cup {x}
    PROVE  Invs'
<1> DEFINE R == Notified(x, visible)
<1>1. stack # <<>>
  BY DEF Invs, StackOK
<1>2. \A k \in Nodes : Obsolete(k)' <=> Obsolete(k) \/ k \in R
  BY DEF Obsolete
<1>3. R \in SUBSET Nodes
  BY TellsUp
<1>4. \A c, p \in Nodes : IsChild(c, p) /\ c \in R /\ visible[p] => p \in R
  BY TellsUp
<1>5. \A k \in Nodes \ R : Text(k)' = Text(k)
  BY TextOfOther
<1>6. UNCHANGED <<stack, last_body, request, stage, loop, page>>
  BY DEF Aside
<1> HIDE DEF R
<1>7. /\ \A k \in R : Obsolete(k)'
      /\ \A k \in Nodes \ R : Obsolete(k)' <=> Obsolete(k)
      /\ \A k \in Nodes : Obsolete(k) => Obsolete(k)'
  BY <1>2, <1>3
<1> QED
  BY <1>1, <1>3, <1>4, <1>5, <1>6, <1>7, EventKeeps

(* What is left to do once a field has changed.                              *)
LEMMA FieldReacts ==
    ASSUME NEW f \in Fields, NEW act \in Seq(Ops), NEW lock \in Seq(Ops), NEW rest \in Seq(Ops),
           Announced(act) = {}, Announced(lock) = {}
    PROVE  /\ act \o Then("changed", f) \o lock \o rest \in Seq(Ops)
           /\ Announced(act \o Then("changed", f) \o lock \o rest) = Announced(rest) \cup {f}
<1>1. Then("changed", f) \in Seq(Ops) /\ Announced(Then("changed", f)) = {f}
  BY ThenType
<1>2. /\ act \o Then("changed", f) \in Seq(Ops)
      /\ Announced(act \o Then("changed", f)) = {f}
  BY <1>1, ConcatAnnounced
<1>3. /\ act \o Then("changed", f) \o lock \in Seq(Ops)
      /\ Announced(act \o Then("changed", f) \o lock) = {f}
  BY <1>2, ConcatAnnounced
<1>4. /\ act \o Then("changed", f) \o lock \o rest \in Seq(Ops)
      /\ Announced(act \o Then("changed", f) \o lock \o rest) = {f} \cup Announced(rest)
  BY <1>3, ConcatAnnounced
<1> QED
  BY <1>4

(* A field is set: the change is announced, behind what the handlers do.     *)
LEMMA SetValueKeeps ==
    ASSUME TypeOK, Invs, todo # <<>>, SetValue(Head(todo)), Aside
    PROVE  Invs' /\ todo' \in Seq(Ops)
<1>0. PICK x : x = Head(todo).node
  OBVIOUS
<1>1. /\ x \in Fields /\ x \in Nodes /\ Head(todo).to \in Values
      /\ Tail(todo) \in Seq(Ops) /\ Announced(Tail(todo)) = Announced(todo)
  BY <1>0, HeadOfTodo DEF SetValue
<1>2. /\ UNCHANGED <<visible, body_changed, last_body, enabled>>
      /\ \A m \in Fields : m # x => value'[m] = value[m]
  BY <1>0 DEF SetValue, tree, TypeOK
<1>3. CASE value' # value
  <2>1. todo' = Act(x, Head(todo).to) \o Then("changed", x) \o Then("lock", x) \o Tail(todo)
    BY <1>0, <1>3 DEF SetValue
  <2>2. todo' \in Seq(Ops) /\ Announced(todo') = Announced(todo) \cup {x}
    <3>1. /\ Act(x, Head(todo).to) \in Seq(Ops) /\ Announced(Act(x, Head(todo).to)) = {}
          /\ Then("lock", x) \in Seq(Ops) /\ Announced(Then("lock", x)) = {}
      BY <1>1, ActType, ThenType
    <3>2. PICK act, last, rest :
             act = Act(x, Head(todo).to) /\ last = Then("lock", x) /\ rest = Tail(todo)
      OBVIOUS
    <3>3. /\ act \in Seq(Ops) /\ Announced(act) = {} /\ rest \in Seq(Ops)
          /\ last \in Seq(Ops) /\ Announced(last) = {}
      BY <1>1, <3>1, <3>2
    <3>4. /\ act \o Then("changed", x) \o last \o rest \in Seq(Ops)
          /\ Announced(act \o Then("changed", x) \o last \o rest) = Announced(rest) \cup {x}
      BY <1>1, <3>3, FieldReacts
    <3>5. todo' = act \o Then("changed", x) \o last \o rest
      BY <2>1, <3>2
    <3> QED
      BY <1>1, <3>2, <3>4, <3>5
  <2> QED
    BY <1>1, <1>2, <2>2, FieldChanges
<1>4. CASE value' = value
  <2>1. todo' \in {Then("lock", x) \o Tail(todo), Tail(todo)}
    BY <1>0, <1>4 DEF SetValue
  <2>2. todo' \in Seq(Ops) /\ Announced(todo') = Announced(todo)
    <3>1. CASE todo' = Tail(todo)
      BY <1>1, <3>1
    <3>2. CASE todo' = Then("lock", x) \o Tail(todo)
      <4>1. Then("lock", x) \in Seq(Ops) /\ Announced(Then("lock", x)) = {}
        BY <1>1, ThenType
      <4>2. /\ todo' \in Seq(Ops)
            /\ Announced(todo') = Announced(Then("lock", x)) \cup Announced(Tail(todo))
        BY <1>1, <3>2, <4>1, ConcatAnnounced
      <4> QED
        BY <1>1, <4>1, <4>2
    <3> QED
      BY <2>1, <3>1, <3>2
  <2>3. \A k \in Nodes : Obsolete(k)' <=> Obsolete(k)
    BY <1>2, <2>2 DEF Obsolete
  <2> QED
    BY <1>2, <1>4, <2>2, <2>3, NothingShownChanges
<1> QED
  BY <1>3, <1>4

(* A field is enabled or disabled, and says so at once.                      *)
LEMMA SetEnabledKeeps ==
    ASSUME TypeOK, Invs, todo # <<>>, SetEnabled(Head(todo)), Aside
    PROVE  Invs' /\ todo' \in Seq(Ops)
<1>0. PICK x : x = Head(todo).node
  OBVIOUS
<1> DEFINE lock == IF Kind[x] = "radio" THEN <<>> ELSE Then("lock", x)
<1>1. /\ x \in Fields /\ x \in Nodes
      /\ Tail(todo) \in Seq(Ops) /\ Announced(Tail(todo)) = Announced(todo)
  BY <1>0, HeadOfTodo DEF SetEnabled
<1>2. /\ UNCHANGED <<visible, body_changed, last_body, value>> /\ value[x] \in Values
      /\ \A m \in Fields : m # x => enabled'[m] = enabled[m]
  BY <1>0, <1>1 DEF SetEnabled, tree, TypeOK
<1>3. CASE enabled' # enabled
  <2>1. todo' = Act(x, value[x]) \o Then("changed", x) \o lock \o Tail(todo)
    BY <1>0, <1>3 DEF SetEnabled
  <2>2. lock \in Seq(Ops) /\ Announced(lock) = {}
    <3>1. <<>> \in Seq(Ops) /\ Announced(<<>>) = {}
      BY DEF Announced
    <3> QED
      BY <1>1, <3>1, ThenType
  <2> HIDE DEF lock
  <2>3. todo' \in Seq(Ops) /\ Announced(todo') = Announced(todo) \cup {x}
    <3>1. Act(x, value[x]) \in Seq(Ops) /\ Announced(Act(x, value[x])) = {}
      BY <1>1, <1>2, ActType
    <3>2. PICK act, last, rest :
             act = Act(x, value[x]) /\ last = lock /\ rest = Tail(todo)
      OBVIOUS
    <3>3. /\ act \in Seq(Ops) /\ Announced(act) = {} /\ rest \in Seq(Ops)
          /\ last \in Seq(Ops) /\ Announced(last) = {}
      BY <1>1, <2>2, <3>1, <3>2
    <3>4. /\ act \o Then("changed", x) \o last \o rest \in Seq(Ops)
          /\ Announced(act \o Then("changed", x) \o last \o rest) = Announced(rest) \cup {x}
      BY <1>1, <3>3, FieldReacts
    <3>5. todo' = act \o Then("changed", x) \o last \o rest
      BY <2>1, <3>2
    <3> QED
      BY <1>1, <3>2, <3>4, <3>5
  <2> QED
    BY <1>1, <1>2, <2>3, FieldChanges
<1>4. CASE enabled' = enabled
  <2>1. todo' = Tail(todo)
    BY <1>0, <1>4 DEF SetEnabled
  <2>2. \A k \in Nodes : Obsolete(k)' <=> Obsolete(k)
    BY <1>1, <1>2, <2>1 DEF Obsolete
  <2> QED
    BY <1>1, <1>2, <1>4, <2>1, <2>2, NothingShownChanges
<1> QED
  BY <1>3, <1>4

(* The announced change is told.                                             *)
LEMMA HasChangedKeeps ==
    ASSUME TypeOK, Invs, todo # <<>>, HasChanged(Head(todo)), Aside
    PROVE  Invs'
<1>1. /\ Announced(todo) = Announced(todo') \cup {Head(todo).node}
      /\ UNCHANGED <<visible, last_body, value, enabled>>
  BY HeadOfTodo DEF HasChanged, fields
<1>2. \A k \in Nodes : body_changed'[k] <=> body_changed[k] \/ k \in Notified(Head(todo).node, visible)
  BY DEF HasChanged, Mark, TypeOK
<1>3. \A k \in Nodes : Obsolete(k)' <=> Obsolete(k)
  BY <1>1, <1>2 DEF Obsolete
<1> QED
  BY <1>1, <1>2, <1>3, NothingShownChanges

(* A field set by an event ignores what is posted: nothing changes that is   *)
(* shown.                                                                    *)
LEMMA LockKeeps ==
    ASSUME TypeOK, Invs, todo # <<>>, Lock(Head(todo)), Aside
    PROVE  Invs'
<1>1. /\ Announced(todo') = Announced(todo)
      /\ UNCHANGED <<visible, body_changed, last_body, value, enabled>>
  BY HeadOfTodo DEF Lock, tree
<1>2. \A k \in Nodes : Obsolete(k)' <=> Obsolete(k)
  BY <1>1 DEF Obsolete
<1> QED
  BY <1>1, <1>2, NothingShownChanges

-----------------------------------------------------------------------------
(* The stack of calls.                                                       *)
LEMMA TopType ==
    ASSUME TypeOK, stack # <<>>
    PROVE  /\ Len(stack) \in Nat \ {0} /\ DOMAIN stack = 1..Len(stack) /\ Len(stack) \in DOMAIN stack
           /\ Top = stack[Len(stack)] /\ Top \in Frames
           /\ Top.node \in Nodes /\ Top.next \in Nat /\ Top.text \subseteq Parts
           /\ Top.post \in BOOLEAN
<1>1. stack \in Seq(Frames)
  BY DEF TypeOK
<1>2. Len(stack) \in Nat \ {0} /\ DOMAIN stack = 1..Len(stack)
  BY <1>1
<1>3. Top = stack[Len(stack)] /\ Top \in Frames
  BY <1>1, <1>2 DEF Top
<1> QED
  BY <1>2, <1>3 DEF Frames

(* The calls below the top of the stack.                                     *)
LEMMA CallersType ==
    ASSUME TypeOK, stack # <<>>
    PROVE  /\ Callers \in Seq(Frames) /\ Len(Callers) = Len(stack) - 1
           /\ \A i \in 1..(Len(stack) - 1) : Callers[i] = stack[i]
<1>0. PICK L : L = Len(stack)
  OBVIOUS
<1>1. stack \in Seq(Frames) /\ L \in Nat \ {0}
  BY <1>0, TopType DEF TypeOK
<1>2. L - 1 \in Int /\ \A i \in 1..(L - 1) : i \in 1..L /\ stack[i] \in Frames
  BY <1>0, <1>1
<1>3. /\ SubSeq(stack, 1, L - 1) \in Seq(Frames)
      /\ Len(SubSeq(stack, 1, L - 1)) = IF 1 <= L - 1 THEN L - 1 - 1 + 1 ELSE 0
      /\ \A i \in 1..(L - 1 - 1 + 1) : SubSeq(stack, 1, L - 1)[i] = stack[1 + i - 1]
  BY <1>2, SubSeqProperties
<1> QED
  BY <1>0, <1>1, <1>3 DEF Callers

(* A call that returns adds its text to the one of its caller.               *)
LEMMA ReturnedTo ==
    ASSUME TypeOK, NEW text \in SUBSET Parts, Return(text), Len(stack) > 1, stack # <<>>
    PROVE  /\ stack' \in Seq(Frames) /\ Len(stack') = Len(stack) - 1 /\ page' = page
           /\ \A i \in 1..(Len(stack) - 1) :
                 /\ stack'[i].node = stack[i].node /\ stack'[i].next = stack[i].next
                 /\ stack'[i].post = stack[i].post
                 /\ stack'[i].text = IF i = Len(stack) - 1 THEN stack[i].text \cup text
                                     ELSE stack[i].text
<1> DEFINE last == Len(stack) - 1
           top == [Callers[last] EXCEPT !.text = @ \cup text]
<1>1. Len(stack) \in Nat /\ DOMAIN stack = 1..Len(stack) /\ last \in 1..last /\ last \in DOMAIN stack
  BY TopType
<1>2. Callers \in Seq(Frames) /\ Len(Callers) = last /\ \A i \in 1..last : Callers[i] = stack[i]
  BY CallersType
<1>3. stack' = [Callers EXCEPT ![last] = top] /\ page' = page
  BY <1>1, <1>2 DEF Return
<1>4. Callers[last] \in Frames
  BY <1>1, <1>2
<1>5. /\ top \in Frames /\ top.node = stack[last].node /\ top.next = stack[last].next
      /\ top.text = stack[last].text \cup text /\ top.post = stack[last].post
  BY <1>1, <1>2, <1>4 DEF Frames
<1> HIDE DEF top
<1> HIDE DEF last
<1>6. /\ stack' \in Seq(Frames) /\ Len(stack') = last
      /\ \A i \in 1..last : stack'[i] = IF i = last THEN top ELSE Callers[i]
  BY <1>1, <1>2, <1>3, <1>5, ExceptSeq
<1>7. \A i \in 1..last :
         /\ stack'[i].node = stack[i].node /\ stack'[i].next = stack[i].next
         /\ stack'[i].post = stack[i].post
         /\ stack'[i].text = IF i = last THEN stack[i].text \cup text ELSE stack[i].text
  <2> SUFFICES ASSUME NEW i \in 1..last
               PROVE  /\ stack'[i].node = stack[i].node /\ stack'[i].next = stack[i].next
                      /\ stack'[i].post = stack[i].post
                      /\ stack'[i].text = IF i = last THEN stack[i].text \cup text ELSE stack[i].text
    OBVIOUS
  <2>1. CASE i = last
    BY <1>5, <1>6, <2>1
  <2>2. CASE i # last
    BY <1>2, <1>6, <2>2
  <2> QED
    BY <2>1, <2>2
<1> QED
  BY <1>3, <1>6, <1>7 DEF last

(* Nothing is announced between two evaluations.                             *)
LEMMA AtRest ==
    /\ todo = <<>> => \A k \in Nodes : Obsolete(k) <=> body_changed[k]
    /\ todo' = <<>> => \A k \in Nodes : Obsolete(k)' <=> body_changed'[k]
BY DEF Obsolete, Announced

(* The calls in progress go down the tree.                                   *)
LEMMA CallsType ==
    ASSUME TypeOK, Invs, stack # <<>>
    PROVE  /\ \A i \in 1..Len(stack) : /\ stack[i].node \in Nodes /\ stack[i].next \in Nat
                                       /\ Children[stack[i].node] \in Seq(Nodes)
           /\ \A i \in 1..(Len(stack) - 1) :
                 /\ i \in 1..Len(stack) /\ i + 1 \in 1..Len(stack)
                 /\ stack[i].node # Top.node /\ stack[i].next > 0
                 /\ stack[i].next - 1 \in DOMAIN Children[stack[i].node]
                 /\ stack[i + 1].node = Children[stack[i].node][stack[i].next - 1]
                 /\ stack[i + 1].node \in Nodes /\ IsChild(stack[i + 1].node, stack[i].node)
<1>0. PICK L : L = Len(stack)
  OBVIOUS
<1>1. L \in Nat \ {0} /\ DOMAIN stack = 1..L /\ Top.node = stack[L].node
  BY <1>0, TopType
<1>2. \A i \in 1..L : stack[i].node \in Nodes /\ stack[i].next \in Nat
  BY <1>1, FrameType
<1>3. \A i \in 1..L : Children[stack[i].node] \in Seq(Nodes)
  BY <1>2, PageAssumption DEF IsTree
<1>4. ASSUME NEW i \in 1..(L - 1)
      PROVE  /\ i \in 1..L /\ i + 1 \in 1..L
             /\ stack[i].node # Top.node /\ stack[i].next > 0
             /\ stack[i].next - 1 \in DOMAIN Children[stack[i].node]
             /\ stack[i + 1].node = Children[stack[i].node][stack[i].next - 1]
             /\ stack[i + 1].node \in Nodes /\ IsChild(stack[i + 1].node, stack[i].node)
  <2>1. i \in 1..L /\ i + 1 \in 1..L /\ L \in 1..L /\ i < L
    BY <1>1
  <2>2. stack[i].node # Top.node
    BY <1>1, <2>1 DEF Invs, StackOK
  <2>3. /\ stack[i].next - 1 \in DOMAIN Children[stack[i].node]
        /\ stack[i + 1].node = Children[stack[i].node][stack[i].next - 1]
    BY <1>0 DEF Invs, StackOK
  <2>4. stack[i].next > 0
    <3>1. \A k \in DOMAIN Children[stack[i].node] : k \in Nat /\ k > 0
      BY <1>3, <2>1
    <3> QED
      BY <1>2, <2>1, <2>3, <3>1
  <2> QED
    BY <1>2, <2>1, <2>2, <2>3, <2>4 DEF IsChild
<1> QED
  BY <1>0, <1>2, <1>3, <1>4

(* The call for the root returns: its text is the page.                      *)
LEMMA PageReturned ==
    ASSUME TypeOK, Invs, stage = "building", todo = <<>>, stack # <<>>, Len(stack) = 1,
           NEW text \in SUBSET Parts, Return(text),
           UNCHANGED <<visible, value, enabled, stage, request, loop, todo>>,
           text = Text(Top.node) \/ body_changed'[Top.node] = TRUE
    PROVE  /\ StackOK' /\ FramesOK' /\ HiddenOK' /\ CallersOK' /\ PageOK'
           /\ InProgress' = InProgress \ {Top.node} /\ stack' \in Seq(Frames) /\ page' \subseteq Parts
<1>1. stack' = <<>> /\ page' = text
  BY DEF Return
<1>2. Top.node = Root /\ Root \in Nodes
  <2>1. Top = stack[1] /\ Top.node \in Nodes
    BY TopType
  <2> QED
    BY <2>1 DEF Invs, StackOK
<1>3. Text(Root)' = Text(Root)
  BY <1>2, PartOfOther, SameText
<1>4. StackOK'
  BY <1>1 DEF StackOK
<1>5. FramesOK' /\ HiddenOK' /\ CallersOK' /\ InProgress' = {}
  <2>1. DOMAIN stack' = {} /\ 1..(Len(stack') - 1) = {}
    BY <1>1
  <2> QED
    BY <2>1 DEF FramesOK, HiddenOK, CallersOK, InProgress
<1>6. PageOK'
  BY <1>1, <1>2, <1>3 DEF PageOK
<1>7. InProgress \subseteq {Top.node}
  <2>1. \A i \in DOMAIN stack : stack[i].node = Top.node
    BY TopType
  <2> QED
    BY <2>1 DEF InProgress
<1>8. stack' \in Seq(Frames)
  BY <1>1, EmptySeq
<1> QED
  BY <1>1, <1>4, <1>5, <1>6, <1>7, <1>8

(* Another call returns: the one that made it has the text of one child more.*)
LEMMA TextReturned ==
    ASSUME TypeOK, Invs, stage = "building", todo = <<>>, stack # <<>>, Len(stack) > 1,
           NEW text \in SUBSET Parts, Return(text),
           UNCHANGED <<visible, value, enabled, stage, request, loop, todo>>,
           \A k \in Nodes : k # Top.node => (body_changed'[k] <=> body_changed[k]),
           text = Text(Top.node) \/ (Top.next > 0 /\ body_changed[Top.node] = TRUE)
    PROVE  /\ StackOK' /\ FramesOK' /\ HiddenOK' /\ CallersOK' /\ PageOK'
           /\ InProgress' = InProgress \ {Top.node} /\ stack' \in Seq(Frames) /\ page' \subseteq Parts
<1>0. PICK L, n, s : L = Len(stack) /\ n = Top.node /\ s = stack'
  OBVIOUS
<1>1. /\ \A k \in Nodes : Obsolete(k) <=> body_changed[k]
      /\ \A k \in Nodes : Obsolete(k)' <=> body_changed'[k]
  BY AtRest
<1>2. \A k \in Nodes : Text(k)' = Text(k)
  BY PartOfOther, SameText
<1>3. /\ L \in Nat /\ L > 1 /\ DOMAIN stack = 1..L /\ n = stack[L].node /\ n \in Nodes
      /\ Top = stack[L]
  BY <1>0, TopType
<1>4. /\ \A i \in 1..L : /\ stack[i].node \in Nodes /\ stack[i].next \in Nat
                         /\ Children[stack[i].node] \in Seq(Nodes)
      /\ \A i \in 1..(L - 1) :
            /\ i \in 1..L /\ i + 1 \in 1..L
            /\ stack[i].node # n /\ stack[i].next > 0
            /\ stack[i].next - 1 \in DOMAIN Children[stack[i].node]
            /\ stack[i + 1].node = Children[stack[i].node][stack[i].next - 1]
  BY <1>0, CallsType
<1>5. /\ s \in Seq(Frames) /\ Len(s) = L - 1 /\ page' = page
      /\ \A i \in 1..(L - 1) :
            /\ s[i].node = stack[i].node /\ s[i].next = stack[i].next
            /\ s[i].text = IF i = L - 1 THEN stack[i].text \cup text ELSE stack[i].text
  BY <1>0, ReturnedTo, ZenonT(60)
<1>6. DOMAIN s = 1..(L - 1) /\ s # <<>> /\ 1 \in 1..(L - 1) /\ L - 1 \in 1..(L - 1)
  BY <1>3, <1>5
<1>7. ASSUME NEW i \in 1..(L - 1)
      PROVE  /\ Obsolete(stack[i].node) <=> body_changed[stack[i].node]
             /\ body_changed'[stack[i].node] <=> body_changed[stack[i].node]
             /\ Obsolete(s[i].node)' <=> body_changed[stack[i].node]
  <2>1. stack[i].node \in Nodes /\ stack[i].node # n
    BY <1>4
  <2>2. body_changed'[stack[i].node] <=> body_changed[stack[i].node]
    BY <1>0, <2>1
  <2>3. (s[i].node)' = stack[i].node
    BY <1>0, <1>5
  <2> QED
    BY <1>1, <2>1, <2>2, <2>3
<1>8. StackOK'
  <2>1. s[1].node = Root
    BY <1>0, <1>3, <1>5, <1>6 DEF Invs, StackOK
  <2>2. ASSUME NEW i \in 1..(L - 2)
        PROVE  /\ s[i].next - 1 \in DOMAIN Children[s[i].node]
               /\ s[i + 1].node = Children[s[i].node][s[i].next - 1]
    <3>1. i \in 1..(L - 1) /\ i + 1 \in 1..(L - 1)
      BY <1>3
    <3> QED
      BY <1>4, <1>5, <3>1
  <2>3. \A i \in 1..(L - 1) : s[i].next > 0
    BY <1>4, <1>5
  <2>4. ASSUME NEW i \in 1..(L - 1), NEW j \in 1..(L - 1), i < j
        PROVE  s[i].node \in Lineage[s[j].node] /\ s[i].node # s[j].node
    <3>1. i \in DOMAIN stack /\ j \in DOMAIN stack
      BY <1>3, <1>4
    <3>2. stack[i].node \in Lineage[stack[j].node] /\ stack[i].node # stack[j].node
      BY <2>4, <3>1 DEF Invs, StackOK
    <3> QED
      BY <1>5, <3>2
  <2>5. Len(s) - 1 = L - 2
    BY <1>3, <1>5
  <2>6. \A i \in DOMAIN s : s[i].next = 0 => s[i].text = {}
    BY <1>6, <2>3
  <2>7. \A i, j \in DOMAIN s : i < j => s[i].node \in Lineage[s[j].node] /\ s[i].node # s[j].node
    BY <1>6, <2>4
  <2>8. \A i \in 1..(Len(s) - 1) :
           /\ s[i].next - 1 \in DOMAIN Children[s[i].node]
           /\ s[i + 1].node = Children[s[i].node][s[i].next - 1]
    BY <2>2, <2>5
  <2>9. stage' = "building" /\ s # <<>>
    BY <1>6
  <2> QED
    BY <1>0, <2>1, <2>6, <2>7, <2>8, <2>9 DEF StackOK
<1>9. HiddenOK'
  <2> SUFFICES ASSUME NEW i \in 1..(L - 1)
               PROVE  visible[s[i].node] \/ body_changed'[s[i].node]
    BY <1>0, <1>6 DEF HiddenOK
  <2>1. i \in DOMAIN stack /\ stack[i].next > 0
    BY <1>3, <1>4
  <2>2. visible[stack[i].node] \/ body_changed[stack[i].node]
    BY <2>1 DEF Invs, HiddenOK
  <2> QED
    BY <1>5, <1>7, <2>2
<1>10. CallersOK'
  <2> SUFFICES ASSUME NEW i \in 1..(L - 2), Obsolete(s[i + 1].node)'
               PROVE  Obsolete(s[i].node)'
    <3>1. 1..(Len(s) - 1) = 1..(L - 2)
      BY <1>3, <1>5
    <3> QED
      BY <1>0, <3>1 DEF CallersOK
  <2>1. i \in 1..(L - 1) /\ i + 1 \in 1..(L - 1)
    BY <1>3
  <2>2. stack[i + 1].next > 0 /\ Obsolete(stack[i + 1].node)
    BY <1>4, <1>7, <2>1
  <2>3. Obsolete(stack[i].node)
    BY <1>0, <2>1, <2>2 DEF Invs, CallersOK
  <2> QED
    BY <1>7, <2>1, <2>3
<1>11. FramesOK'
  <2> SUFFICES ASSUME NEW i \in 1..(L - 1), ~Obsolete(s[i].node)'
               PROVE  s[i].text = UNION {Text(Children[s[i].node][j])' : j \in Done(i)'}
    BY <1>0, <1>6 DEF FramesOK
  <2>1. i \in DOMAIN stack /\ stack[i].next > 0 /\ stack[i].next \in Nat
    BY <1>3, <1>4
  <2>9. s[i].node = stack[i].node /\ s[i].next = stack[i].next
    BY <1>5
  <2>2. stack[i].text = UNION {Text(Children[stack[i].node][j]) : j \in Done(i)}
    BY <1>7, <2>1 DEF Invs, FramesOK
  <2>3. \A j \in DOMAIN Children[stack[i].node] : Children[stack[i].node][j] \in Nodes
    BY <1>4
  <2>4. \A j \in DOMAIN Children[stack[i].node] :
           Text(Children[s[i].node][j])' = Text(Children[stack[i].node][j])
    BY <1>2, <1>5, <2>3
  <2>5. Done(i)' = {j \in DOMAIN Children[stack[i].node] :
                       j < stack[i].next /\ (i < L - 1 => j # stack[i].next - 1)}
    BY <1>0, <1>5, <2>9 DEF Done
  <2>6. UNION {Text(Children[s[i].node][j])' : j \in Done(i)'}
          = UNION {Text(Children[stack[i].node][j]) : j \in Done(i)'}
    BY <2>4, <2>5
  <2>7. CASE i < L - 1
    <3>1. Done(i)' = Done(i)
      BY <1>0, <1>3, <2>5, <2>7 DEF Done
    <3>2. s[i].text = stack[i].text
      <4>1. i # L - 1
        BY <1>3, <2>7
      <4> QED
        BY <1>5, <4>1
    <3> QED
      BY <2>2, <2>6, <3>1, <3>2
  <2>8. CASE i = L - 1
    <3>1. Done(i)' = Done(i) \cup {stack[i].next - 1}
      <4>1. Done(i)' = {j \in DOMAIN Children[stack[i].node] : j < stack[i].next}
        BY <2>5, <2>8
      <4>2. Done(i) = {j \in DOMAIN Children[stack[i].node] :
                          j < stack[i].next /\ j # stack[i].next - 1}
        BY <1>0, <1>3, <2>8 DEF Done
      <4>3. stack[i].next - 1 \in DOMAIN Children[stack[i].node] /\ stack[i].next - 1 < stack[i].next
        BY <1>4, <2>1
      <4> QED
        BY <4>1, <4>2, <4>3
    <3>2. Children[stack[i].node][stack[i].next - 1] = n
      <4>1. i + 1 = L
        BY <1>3, <2>8
      <4> QED
        BY <1>3, <1>4, <4>1
    <3>3. text = Text(n)
      <4> SUFFICES ASSUME Top.next > 0, body_changed[n] = TRUE PROVE FALSE
        BY <1>0
      <4>1. i + 1 = L
        BY <1>3, <2>8
      <4>2. stack[i + 1].next > 0 /\ Obsolete(stack[i + 1].node)
        BY <1>1, <1>3, <4>1
      <4>3. Obsolete(stack[i].node)
        BY <1>0, <4>2 DEF Invs, CallersOK
      <4> QED
        BY <1>7, <4>3
    <3>4. s[i].text = stack[i].text \cup text
      BY <1>5, <2>8
    <3> QED
      BY <2>2, <2>6, <3>1, <3>2, <3>3, <3>4
  <2> QED
    BY <1>3, <2>7, <2>8
<1>12. PageOK'
  BY <1>0, <1>6 DEF PageOK
<1>13. InProgress' = InProgress \ {n}
  <2>1. InProgress' = {stack[i].node : i \in 1..(L - 1)}
    <3>1. InProgress' = {s[i].node : i \in {j \in 1..(L - 1) : s[j].next > 0}}
      BY <1>0, <1>6 DEF InProgress
    <3>2. {j \in 1..(L - 1) : s[j].next > 0} = 1..(L - 1)
      BY <1>4, <1>5
    <3>3. {s[i].node : i \in 1..(L - 1)} = {stack[i].node : i \in 1..(L - 1)}
      <4>1. \A i \in 1..(L - 1) : s[i].node = stack[i].node
        BY <1>5
      <4> QED
        BY <4>1
    <3> QED
      BY <3>1, <3>2, <3>3
  <2>2. InProgress = {stack[i].node : i \in {j \in 1..L : stack[j].next > 0}}
    BY <1>3 DEF InProgress
  <2>3. \A i \in 1..L : i \in 1..(L - 1) \/ i = L
    BY <1>3
  <2> QED
    BY <1>3, <1>4, <2>1, <2>2, <2>3
<1> QED
  BY <1>0, <1>5, <1>8, <1>9, <1>10, <1>11, <1>12, <1>13 DEF TypeOK

(* A call returns the text of its component, or the component is to be       *)
(* evaluated again, and then so are its callers.                             *)
LEMMA ReturnKeeps ==
    ASSUME TypeOK, Invs, stage = "building", todo = <<>>, stack # <<>>,
           NEW text \in SUBSET Parts, Return(text),
           UNCHANGED <<visible, value, enabled, stage, request, loop, todo>>,
           \A k \in Nodes : k # Top.node => (body_changed'[k] <=> body_changed[k]),
           text = Text(Top.node) \/ body_changed'[Top.node] = TRUE,
           text = Text(Top.node) \/ (Top.next > 0 /\ body_changed[Top.node] = TRUE)
    PROVE  /\ StackOK' /\ FramesOK' /\ HiddenOK' /\ CallersOK' /\ PageOK'
           /\ InProgress' = InProgress \ {Top.node} /\ stack' \in Seq(Frames) /\ page' \subseteq Parts
<1>1. Len(stack) = 1 \/ Len(stack) > 1
  BY TopType
<1>2. CASE Len(stack) = 1
  BY <1>2, PageReturned
<1>3. CASE Len(stack) > 1
  BY <1>3, TextReturned
<1> QED
  BY <1>1, <1>2, <1>3

-----------------------------------------------------------------------------
(* The steps of the evaluation.                                              *)
LEMMA NothingMoves ==
    ASSUME UNCHANGED <<visible, value, enabled>>
    PROVE  \A k \in Nodes : Text(k)' = Text(k)
BY PartOfOther, SameText

(* A component that is not entered yet is not in progress above itself.      *)
LEMMA TopNotEntered ==
    ASSUME TypeOK, Invs, stack # <<>>, Top.next = 0
    PROVE  Top.node \notin InProgress
<1>1. \A i \in 1..(Len(stack) - 1) : stack[i].node # Top.node
  BY CallsType
<1>2. Len(stack) \in Nat /\ DOMAIN stack = 1..Len(stack) /\ stack[Len(stack)].next = 0
  BY TopType
<1>3. \A i \in DOMAIN stack : stack[i].next > 0 => stack[i].node # Top.node
  BY <1>1, <1>2
<1> QED
  BY <1>3 DEF InProgress

(* A text taken from the cache is the one that the component shows.          *)
LEMMA FromCacheKeeps ==
    ASSUME TypeOK, Invs, FromCache
    PROVE  Invs' /\ stack' \in Seq(Frames) /\ page' \subseteq Parts
<1>0. PICK n, text : n = Top.node /\ text = IF visible[n] THEN last_body[n].text ELSE {}
  OBVIOUS
<1>1. /\ stage = "building" /\ todo = <<>> /\ stack # <<>> /\ Top.next = 0
      /\ last_body[n].key = Key /\ body_changed[n] = FALSE
  <2>1. n \in Nodes
    BY <1>0, TopType DEF FromCache, Begins
  <2> QED
    BY <1>0, <2>1 DEF FromCache, Begins, IsCached, TypeOK
<1>2. /\ Return(text)
      /\ UNCHANGED <<visible, body_changed, last_body, value, enabled, stage, request, loop, todo>>
  BY <1>0 DEF FromCache, tree, fields
<1>3. n \in Nodes /\ n \notin InProgress
  BY <1>0, <1>1, TopType, TopNotEntered
<1>4. text = Text(n)
  <2>1. CASE visible[n]
    <3>1. Obsolete(n) \/ last_body[n].text = Text(n)
      BY <1>1, <1>3, <2>1 DEF Invs, CachesOK
    <3> QED
      BY <1>0, <1>1, <1>3, <2>1, <3>1, AtRest
  <2>2. CASE ~visible[n]
    BY <1>0, <1>3, <2>2, HiddenShowsNothing
  <2> QED
    BY <2>1, <2>2
<1>5. text \in SUBSET Parts
  BY <1>0, <1>3 DEF TypeOK
<1>6. /\ StackOK' /\ FramesOK' /\ HiddenOK' /\ CallersOK' /\ PageOK'
      /\ InProgress' = InProgress \ {n} /\ stack' \in Seq(Frames) /\ page' \subseteq Parts
  <2>1. UNCHANGED <<visible, value, enabled, stage, request, loop, todo>>
    BY <1>2
  <2>2. \A k \in Nodes : k # Top.node => (body_changed'[k] <=> body_changed[k])
    BY <1>0, <1>2
  <2>3. text = Text(Top.node) \/ body_changed'[Top.node] = TRUE
    BY <1>0, <1>4
  <2>4. text = Text(Top.node) \/ (Top.next > 0 /\ body_changed[Top.node] = TRUE)
    BY <1>0, <1>4
  <2>5. Return(text)
    BY <1>2
  <2> QED
    BY <1>0, <1>1, <1>5, <2>1, <2>2, <2>3, <2>4, <2>5, ReturnKeeps
<1>7. CachesOK'
  <2>1. Key' = Key /\ \A k \in Nodes : Text(k)' = Text(k) /\ (Obsolete(k)' <=> Obsolete(k))
    BY <1>2, NothingMoves DEF Key, Obsolete
  <2> QED
    BY <1>2, <1>3, <1>6, <2>1 DEF Invs, CachesOK
<1> QED
  BY <1>6, <1>7 DEF Invs

(* A hidden component returns nothing.                                       *)
LEMMA SkipKeeps ==
    ASSUME TypeOK, Invs, Skip
    PROVE  Invs' /\ stack' \in Seq(Frames) /\ page' \subseteq Parts
<1>0. PICK n, text : n = Top.node /\ text = {}
  OBVIOUS
<1>1. /\ stage = "building" /\ todo = <<>> /\ stack # <<>> /\ Top.next = 0 /\ ~visible[n]
      /\ body_changed' = [body_changed EXCEPT ![n] = FALSE]
  BY <1>0 DEF Skip, Begins
<1>2. /\ Return(text) /\ text \in SUBSET Parts
      /\ UNCHANGED <<visible, last_body, value, enabled, stage, request, loop, todo>>
  BY <1>0 DEF Skip, fields
<1>3. n \in Nodes /\ n \notin InProgress
  BY <1>0, <1>1, TopType, TopNotEntered
<1>4. text = Text(n)
  BY <1>0, <1>1, <1>3, HiddenShowsNothing
<1>5. \A k \in Nodes : k # n => (body_changed'[k] <=> body_changed[k])
  BY <1>1 DEF TypeOK
<1>6. /\ StackOK' /\ FramesOK' /\ HiddenOK' /\ CallersOK' /\ PageOK'
      /\ InProgress' = InProgress \ {n} /\ stack' \in Seq(Frames) /\ page' \subseteq Parts
  <2>1. UNCHANGED <<visible, value, enabled, stage, request, loop, todo>>
    BY <1>2
  <2>2. \A k \in Nodes : k # Top.node => (body_changed'[k] <=> body_changed[k])
    BY <1>0, <1>5
  <2>3. text = Text(Top.node) \/ body_changed'[Top.node] = TRUE
    BY <1>0, <1>4
  <2>4. text = Text(Top.node) \/ (Top.next > 0 /\ body_changed[Top.node] = TRUE)
    BY <1>0, <1>4
  <2>5. Return(text)
    BY <1>2
  <2> QED
    BY <1>0, <1>1, <1>2, <2>1, <2>2, <2>3, <2>4, <2>5, ReturnKeeps
<1>7. CachesOK'
  <2>1. Key' = Key /\ \A k \in Nodes : Text(k)' = Text(k)
    BY <1>2, NothingMoves DEF Key
  <2>2. \A k \in Nodes : k # n => (Obsolete(k)' <=> Obsolete(k))
    BY <1>2, <1>5 DEF Obsolete
  <2> QED
    BY <1>1, <1>2, <1>3, <1>6, <2>1, <2>2 DEF Invs, CachesOK
<1> QED
  BY <1>6, <1>7 DEF Invs

(* The part of a component is one that a page may have.                      *)
LEMMA PartType ==
    ASSUME TypeOK, NEW n \in Nodes
    PROVE  Part(n) \in Parts
BY DEF TypeOK, Part, Parts

(* A component returns what its children returned and its own part, and      *)
(* keeps it when nothing changed meanwhile.                                  *)
LEMMA LeaveKeeps ==
    ASSUME TypeOK, Invs, Leave
    PROVE  Invs' /\ stack' \in Seq(Frames) /\ page' \subseteq Parts
<1>0. PICK n, text : n = Top.node /\ text = {Part(n)} \cup (IF visible[n] THEN Top.text ELSE {})
  OBVIOUS
<1>1. /\ stage = "building" /\ todo = <<>> /\ stack # <<>>
      /\ Top.next = Len(Children[n]) + (IF IsSubmitted THEN 2 ELSE 1)
      /\ last_body' = IF body_changed[n] THEN last_body
                      ELSE [last_body EXCEPT ![n] = [key |-> Key, text |-> text]]
      /\ Return(text)
      /\ UNCHANGED <<visible, body_changed, value, enabled, stage, request, loop, todo>>
  BY <1>0 DEF Leave
<1>2. n \in Nodes /\ Top = stack[Len(stack)] /\ Len(stack) \in DOMAIN stack /\ Top.text \subseteq Parts
  BY <1>0, <1>1, TopType
<1>3. Len(Children[n]) \in Nat /\ DOMAIN Children[n] = 1..Len(Children[n])
  BY <1>2, PageAssumption DEF IsTree
<1>4. Top.next > 0 /\ \A j \in DOMAIN Children[n] : j < Top.next
  <2>1. Top.next >= Len(Children[n]) + 1
    <3>1. CASE IsSubmitted
      BY <1>1, <1>3, <3>1
    <3>2. CASE ~IsSubmitted
      BY <1>1, <1>3, <3>2
    <3> QED
      BY <3>1, <3>2
  <2>2. Top.next \in Nat
    BY <1>1, TopType
  <2> QED
    BY <1>3, <2>1, <2>2
<1>5. text \in SUBSET Parts
  BY <1>0, <1>2, PartType
<1>6. text = Text(n) \/ body_changed[n] = TRUE
  <2> SUFFICES ASSUME ~body_changed[n] PROVE text = Text(n)
    BY <1>2 DEF TypeOK
  <2>1. visible[n]
    BY <1>0, <1>2, <1>4 DEF Invs, HiddenOK
  <2>2. ~Obsolete(n)
    BY <1>1, <1>2, AtRest
  <2>3. Top.text = UNION {Text(Children[n][j]) : j \in Done(Len(stack))}
    BY <1>0, <1>2, <1>4, <2>2 DEF Invs, FramesOK
  <2>4. Done(Len(stack)) = DOMAIN Children[n]
    BY <1>0, <1>2, <1>4 DEF Done
  <2>5. Text(n) = {Part(n)} \cup UNION {Text(Children[n][j]) : j \in DOMAIN Children[n]}
    BY <1>2, <2>1, TextDescends
  <2> QED
    BY <1>0, <2>1, <2>3, <2>4, <2>5
<1>7. /\ StackOK' /\ FramesOK' /\ HiddenOK' /\ CallersOK' /\ PageOK'
      /\ InProgress' = InProgress \ {n} /\ stack' \in Seq(Frames) /\ page' \subseteq Parts
  <2>1. UNCHANGED <<visible, value, enabled, stage, request, loop, todo>>
    BY <1>1
  <2>2. \A k \in Nodes : k # Top.node => (body_changed'[k] <=> body_changed[k])
    BY <1>0, <1>1
  <2>3. text = Text(Top.node) \/ body_changed'[Top.node] = TRUE
    BY <1>0, <1>1, <1>4, <1>6
  <2>4. text = Text(Top.node) \/ (Top.next > 0 /\ body_changed[Top.node] = TRUE)
    BY <1>0, <1>1, <1>4, <1>6
  <2>5. Return(text)
    BY <1>1
  <2> QED
    BY <1>0, <1>1, <1>5, <2>1, <2>2, <2>3, <2>4, <2>5, ReturnKeeps
<1>8. CachesOK'
  <2>1. Key' = Key /\ \A k \in Nodes : Text(k)' = Text(k) /\ (Obsolete(k)' <=> Obsolete(k))
    BY <1>1, NothingMoves DEF Key, Obsolete
  <2>2. \A k \in Nodes : k # n => last_body'[k] = last_body[k]
    BY <1>1 DEF TypeOK
  <2>3. body_changed[n] \/ last_body'[n].text = Text(n)
    BY <1>1, <1>2, <1>6 DEF TypeOK
  <2>4. body_changed[n] => Obsolete(n)
    BY DEF Obsolete
  <2> QED
    BY <1>1, <1>7, <2>1, <2>2, <2>3, <2>4 DEF Invs, CachesOK
<1> QED
  BY <1>7, <1>8 DEF Invs

(* The call on top goes on.                                                  *)
WithTop(f) == [stack EXCEPT ![Len(stack)] = f]

(* The call in progress goes on: the others stay.                            *)
LEMMA TopGoesOn ==
    ASSUME TypeOK, stack # <<>>, NEW f \in Frames, f.node = Top.node, f.text = Top.text
    PROVE  /\ WithTop(f) \in Seq(Frames) /\ Len(WithTop(f)) = Len(stack) /\ WithTop(f) # <<>>
           /\ \A i \in 1..Len(stack) : /\ WithTop(f)[i].node = stack[i].node
                                       /\ WithTop(f)[i].text = stack[i].text
           /\ WithTop(f)[Len(stack)].next = f.next
           /\ \A i \in 1..(Len(stack) - 1) : WithTop(f)[i].next = stack[i].next
<1>0. PICK L, s : L = Len(stack) /\ s = WithTop(f)
  OBVIOUS
<1>1. stack \in Seq(Frames) /\ L \in Nat \ {0} /\ L \in 1..L /\ Top = stack[L]
  BY <1>0, TopType DEF TypeOK
<1>2. /\ s \in Seq(Frames) /\ Len(s) = L
      /\ \A i \in 1..L : s[i] = IF i = L THEN f ELSE stack[i]
  BY <1>0, <1>1, ExceptSeq DEF WithTop
<1>3. s[L] = f /\ \A i \in 1..L : i # L => s[i] = stack[i]
  BY <1>1, <1>2
<1>4. \A i \in 1..(L - 1) : i \in 1..L /\ i # L
  BY <1>1
<1>5. \A i \in 1..L : s[i].node = stack[i].node /\ s[i].text = stack[i].text
  BY <1>1, <1>3
<1>6. s # <<>>
  BY <1>1, <1>2
<1> QED
  BY <1>0, <1>2, <1>3, <1>4, <1>5, <1>6

(* A component is evaluated: what may be obsolete then is told to all those  *)
(* that are being evaluated.                                                 *)
LEMMA EvaluationKeeps ==
    ASSUME TypeOK, Invs, stage = "building", stack # <<>>, todo = <<>>, Top.next = 0,
           visible[Top.node],
           UNCHANGED <<visible, last_body, stage, request, loop, page>>,
           stack' \in Seq(Frames), Len(stack') = Len(stack), stack' # <<>>,
           \A i \in 1..Len(stack) :
              stack'[i].node = stack[i].node /\ stack'[i].text = stack[i].text,
           stack'[Len(stack)].next = 1,
           \A i \in 1..(Len(stack) - 1) : stack'[i].next = stack[i].next,
           ~body_changed'[Top.node],
           \A k \in Nodes : k # Top.node => (body_changed'[k] <=> body_changed[k]),
           NEW R \in SUBSET Nodes, R = {} \/ Top.node \in R,
           \A c, p \in Nodes : IsChild(c, p) /\ c \in R /\ visible[p] => p \in R,
           \A k \in Nodes : Obsolete(k)' <=> body_changed'[k] \/ k \in R,
           \A k \in Nodes \ R : Text(k)' = Text(k)
    PROVE  Invs'
<1>0. PICK L, n, s : L = Len(stack) /\ n = Top.node /\ s = stack'
  OBVIOUS
<1>1. \A k \in Nodes : Obsolete(k) <=> body_changed[k]
  BY AtRest
<1>2. /\ L \in Nat \ {0} /\ DOMAIN stack = 1..L /\ n = stack[L].node /\ n \in Nodes
      /\ L \in 1..L /\ Top = stack[L] /\ stack[L].next = 0
  BY <1>0, TopType
<1>3. /\ \A i \in 1..L : /\ stack[i].node \in Nodes /\ stack[i].next \in Nat
                         /\ Children[stack[i].node] \in Seq(Nodes)
      /\ \A i \in 1..(L - 1) :
            /\ i \in 1..L /\ i + 1 \in 1..L
            /\ stack[i].node # n /\ stack[i].next > 0
            /\ stack[i].next - 1 \in DOMAIN Children[stack[i].node]
            /\ stack[i + 1].node = Children[stack[i].node][stack[i].next - 1]
            /\ stack[i + 1].node \in Nodes /\ IsChild(stack[i + 1].node, stack[i].node)
  BY <1>0, CallsType
<1>4. /\ s \in Seq(Frames) /\ Len(s) = L /\ s # <<>> /\ DOMAIN s = 1..L
      /\ \A i \in 1..L : s[i].node = stack[i].node /\ s[i].text = stack[i].text
      /\ s[L].next = 1 /\ \A i \in 1..(L - 1) : s[i].next = stack[i].next
  BY <1>0
<1>5. ASSUME NEW i \in 1..(L - 1)
      PROVE  /\ s[i].node = stack[i].node /\ s[i].text = stack[i].text
             /\ s[i].next = stack[i].next /\ i # L
             /\ visible[stack[i].node] \/ body_changed[stack[i].node]
             /\ body_changed'[stack[i].node] <=> body_changed[stack[i].node]
             /\ Obsolete(s[i].node)' <=> body_changed[stack[i].node] \/ stack[i].node \in R
  <2>1. i \in 1..L /\ i # L /\ stack[i].node \in Nodes /\ stack[i].node # n /\ stack[i].next > 0
    BY <1>2, <1>3
  <2>2. s[i].node = stack[i].node /\ s[i].text = stack[i].text /\ s[i].next = stack[i].next
    BY <1>4, <2>1
  <2>3. visible[stack[i].node] \/ body_changed[stack[i].node]
    BY <1>2, <2>1 DEF Invs, HiddenOK
  <2>4. body_changed'[stack[i].node] <=> body_changed[stack[i].node]
    BY <1>0, <2>1
  <2>5. Obsolete(s[i].node)' <=> body_changed[stack[i].node] \/ stack[i].node \in R
    BY <2>1, <2>2, <2>4
  <2> QED
    BY <2>1, <2>2, <2>3, <2>4, <2>5
<1>6. s[L].node = n /\ s[L].text = stack[L].text /\ s[L].next = 1
  BY <1>2, <1>4
<1>7. StackOK'
  <2>1. s[1].node = Root
    <3>1. 1 \in 1..L /\ stack[1].node = Root
      BY <1>2 DEF Invs, StackOK
    <3> QED
      BY <1>4, <3>1
  <2>2. ASSUME NEW i \in 1..(L - 1)
        PROVE  /\ s[i].next - 1 \in DOMAIN Children[s[i].node]
               /\ s[i + 1].node = Children[s[i].node][s[i].next - 1]
    <3>1. i + 1 \in 1..L
      BY <1>3
    <3>2. s[i + 1].node = stack[i + 1].node
      BY <1>4, <3>1
    <3> QED
      BY <1>3, <1>5, <3>2, SMTT(30)
  <2>3. \A i \in DOMAIN s : s[i].next = 0 => s[i].text = {}
    <3>1. \A i \in 1..L : i = L \/ i \in 1..(L - 1)
      BY <1>2
    <3> QED
      BY <1>3, <1>4, <1>5, <1>6, <3>1, SMTT(30)
  <2>4. \A i, j \in DOMAIN s : i < j => s[i].node \in Lineage[s[j].node] /\ s[i].node # s[j].node
    <3>1. \A i, j \in 1..L : i < j =>
             stack[i].node \in Lineage[stack[j].node] /\ stack[i].node # stack[j].node
      BY <1>2 DEF Invs, StackOK
    <3> QED
      BY <1>4, <3>1
  <2>5. stage' = "building" /\ s # <<>>
    BY <1>4
  <2>6. \A i \in 1..(Len(s) - 1) :
           /\ s[i].next - 1 \in DOMAIN Children[s[i].node]
           /\ s[i + 1].node = Children[s[i].node][s[i].next - 1]
    BY <1>4, <2>2
  <2> QED
    BY <1>0, <2>1, <2>3, <2>4, <2>5, <2>6 DEF StackOK
<1>8. HiddenOK'
  <2>1. ASSUME NEW i \in 1..L PROVE visible[s[i].node] \/ body_changed'[s[i].node]
    <3>1. CASE i = L
      BY <1>0, <1>6, <3>1
    <3>2. CASE i # L
      <4>1. i \in 1..(L - 1)
        BY <1>2, <3>2
      <4> QED
        BY <1>5, <4>1
    <3> QED
      BY <3>1, <3>2
  <2> QED
    BY <1>0, <1>4, <2>1 DEF HiddenOK
<1>9. CallersOK'
  <2> SUFFICES ASSUME NEW i \in 1..(L - 1), Obsolete(s[i + 1].node)'
               PROVE  Obsolete(s[i].node)'
    BY <1>0, <1>4 DEF CallersOK
  <2>1. PICK p, c : p = stack[i].node /\ c = stack[i + 1].node
    OBVIOUS
  <2>2. p \in Nodes /\ c \in Nodes /\ IsChild(c, p) /\ i + 1 \in 1..L /\ i \in 1..L
    BY <1>3, <2>1
  <2>3. body_changed'[c] \/ c \in R
    BY <1>4, <2>1, <2>2
  <2>4. CASE c \in R
    <3>1. p \in R \/ body_changed[p]
      BY <1>5, <2>1, <2>2, <2>4
    <3> QED
      BY <1>5, <2>1, <3>1
  <2>5. CASE c \notin R /\ body_changed'[c]
    <3>1. CASE i + 1 = L
      <4>1. c = n
        BY <1>2, <2>1, <3>1
      <4> QED
        BY <1>0, <2>5, <4>1
    <3>2. CASE i + 1 # L
      <4>1. i + 1 \in 1..(L - 1)
        BY <1>2, <2>2, <3>2
      <4>2. stack[i + 1].next > 0 /\ body_changed[c]
        BY <1>3, <1>5, <2>1, <2>5, <4>1
      <4>3. Obsolete(p)
        BY <1>0, <1>1, <2>1, <2>2, <4>2 DEF Invs, CallersOK
      <4> QED
        BY <1>1, <1>5, <2>1, <2>2, <4>3
    <3> QED
      BY <3>1, <3>2
  <2> QED
    BY <2>3, <2>4, <2>5
<1>10. FramesOK'
  <2> SUFFICES ASSUME NEW i \in 1..L, ~Obsolete(s[i].node)'
               PROVE  s[i].text = UNION {Text(Children[s[i].node][j])' : j \in Done(i)'}
    <3>1. DOMAIN s = 1..L
      BY <1>4
    <3> QED
      BY <1>0, <3>1 DEF FramesOK
  <2>1. CASE i = L
    <3>1. Done(i)' = {}
      <4>1. Done(i)' = {j \in DOMAIN Children[n] : j < 1 /\ (i < L => j # 1 - 1)}
        <5>1. s[i].node = n /\ s[i].next = 1 /\ Len(s) = L
          BY <1>4, <1>6, <2>1
        <5> QED
          BY <1>0, <5>1 DEF Done
      <4>2. \A j \in DOMAIN Children[n] : j \in Nat /\ j > 0
        <5>1. Children[n] \in Seq(Nodes)
          BY <1>2, <1>3
        <5> QED
          BY <5>1
      <4> QED
        BY <4>1, <4>2
    <3>2. stack[L].text = {}
      BY <1>2 DEF Invs, StackOK
    <3> QED
      BY <1>6, <2>1, <3>1, <3>2
  <2>2. CASE i # L
    <3>1. i \in 1..(L - 1)
      BY <1>2, <2>2
    <3>2. PICK p : p = stack[i].node
      OBVIOUS
    <3>3. /\ p \in Nodes /\ i \in DOMAIN stack /\ stack[i].next > 0 /\ Children[p] \in Seq(Nodes)
          /\ s[i].node = p /\ s[i].text = stack[i].text /\ s[i].next = stack[i].next
      BY <1>2, <1>3, <1>5, <3>1, <3>2
    <3>4. p \notin R /\ ~body_changed[p] /\ visible[p]
      BY <1>5, <3>1, <3>2
    <3>5. stack[i].text = UNION {Text(Children[p][j]) : j \in Done(i)}
      BY <1>1, <3>2, <3>3, <3>4 DEF Invs, FramesOK
    <3>6. \A j \in DOMAIN Children[p] : Text(Children[p][j])' = Text(Children[p][j])
      <4> SUFFICES ASSUME NEW j \in DOMAIN Children[p]
                   PROVE  Text(Children[p][j])' = Text(Children[p][j])
        OBVIOUS
      <4>1. Children[p][j] \in Nodes /\ IsChild(Children[p][j], p)
        BY <3>3 DEF IsChild
      <4> QED
        BY <3>3, <3>4, <4>1
    <3>7. Done(i)' = Done(i) /\ Done(i) \subseteq DOMAIN Children[p]
      <4>1. Len(s) = L
        BY <1>4
      <4> QED
        BY <1>0, <3>2, <3>3, <4>1 DEF Done
    <3> QED
      BY <3>3, <3>5, <3>6, <3>7
  <2> QED
    BY <2>1, <2>2
<1>11. InProgress' = InProgress \cup {n}
  <2>1. InProgress' = {s[i].node : i \in {j \in 1..L : s[j].next > 0}}
    BY <1>0, <1>4 DEF InProgress
  <2>2. InProgress = {stack[i].node : i \in {j \in 1..L : stack[j].next > 0}}
    BY <1>2 DEF InProgress
  <2>3. \A i \in 1..L : s[i].node = stack[i].node /\ (s[i].next > 0 <=> (i = L \/ stack[i].next > 0))
    BY <1>4
  <2> QED
    BY <1>2, <2>1, <2>2, <2>3
<1>12. CachesOK'
  <2>1. Key' = Key
    BY DEF Key
  <2> SUFFICES ASSUME NEW k \in Nodes \ InProgress, k # n, visible[k], last_body[k].key = Key,
                      ~Obsolete(k)'
               PROVE  last_body[k].text = Text(k)'
    BY <1>11, <2>1 DEF CachesOK
  <2>2. k \notin R /\ ~body_changed[k]
    BY <1>0
  <2>3. last_body[k].text = Text(k)
    BY <1>1, <2>2 DEF Invs, CachesOK
  <2> QED
    BY <2>2, <2>3
<1>13. PageOK'
  BY DEF PageOK
<1> QED
  BY <1>7, <1>8, <1>9, <1>10, <1>12, <1>13 DEF Invs

(* A component is entered: from here on what changes is told to it.          *)
LEMMA EnterKeeps ==
    ASSUME TypeOK, Invs, Enter
    PROVE  Invs' /\ stack' \in Seq(Frames) /\ todo' \in Seq(Ops)
<1>0. PICK n, f : n = Top.node /\ f = [Top EXCEPT !.next = 1, !.post = @ /\ PostIsFor(n)]
  OBVIOUS
<1>1. /\ stage = "building" /\ todo = <<>> /\ stack # <<>> /\ Top.next = 0 /\ visible[n]
      /\ body_changed' = [body_changed EXCEPT ![n] = FALSE]
      /\ UNCHANGED <<visible, last_body, enabled, stage, request, loop, page>>
      /\ stack' = [stack EXCEPT ![Len(stack)].next = 1, ![Len(stack)].post = @ /\ PostIsFor(n)]
  BY <1>0 DEF Enter, Begins, build
<1>2. n \in Nodes /\ Top = stack[Len(stack)] /\ Top \in Frames /\ Len(stack) \in DOMAIN stack
  BY <1>0, <1>1, TopType
<1>3. f \in Frames /\ f.node = n /\ f.text = Top.text /\ f.next = 1
  <2>1. (Top.post /\ PostIsFor(n)) \in BOOLEAN
    BY <1>1, TopType DEF PostIsFor
  <2> QED
    BY <1>0, <1>2, <2>1 DEF Frames
<1>4. stack' = WithTop(f)
  BY <1>0, <1>1, <1>2 DEF WithTop
<1>5. /\ stack' \in Seq(Frames) /\ Len(stack') = Len(stack) /\ stack' # <<>>
      /\ \A i \in 1..Len(stack) : stack'[i].node = stack[i].node /\ stack'[i].text = stack[i].text
      /\ stack'[Len(stack)].next = 1
      /\ \A i \in 1..(Len(stack) - 1) : stack'[i].next = stack[i].next
  <2>1. stack # <<>> /\ f \in Frames /\ f.node = Top.node /\ f.text = Top.text
    BY <1>0, <1>1, <1>3
  <2>2. PICK s : s = WithTop(f)
    OBVIOUS
  <2>3. /\ s \in Seq(Frames) /\ Len(s) = Len(stack) /\ s # <<>>
        /\ \A i \in 1..Len(stack) : s[i].node = stack[i].node /\ s[i].text = stack[i].text
        /\ s[Len(stack)].next = f.next
        /\ \A i \in 1..(Len(stack) - 1) : s[i].next = stack[i].next
    BY <2>1, <2>2, TopGoesOn
  <2>4. stack' = s /\ f.next = 1
    BY <1>3, <1>4, <2>2
  <2> QED
    BY <2>3, <2>4
<1>6. ~body_changed'[n] /\ \A k \in Nodes : k # n => (body_changed'[k] <=> body_changed[k])
  BY <1>1, <1>2 DEF TypeOK
<1>7. CASE n \in Fields /\ TakesPost(n) /\ Posted(n) # value[n]
  <2>1. /\ value' = [value EXCEPT ![n] = Posted(n)]
        /\ todo' = Act(n, Posted(n)) \o Then("changed", n)
    BY <1>0, <1>7 DEF Enter
  <2>2. Posted(n) \in Values
    <3>1. \A k \in DOMAIN request.posted : request.posted[k] \in Values
      BY DEF TypeOK, Forms
    <3> QED
      BY <1>7, <3>1 DEF Posted, TypeOK, Values
  <2>3. /\ Act(n, Posted(n)) \in Seq(Ops) /\ Announced(Act(n, Posted(n))) = {}
        /\ Then("changed", n) \in Seq(Ops) /\ Announced(Then("changed", n)) = {n}
    BY <1>2, <1>7, <2>2, ActType, ThenType
  <2>4. todo' \in Seq(Ops) /\ Announced(todo') = {n}
    <3>1. PICK a, b : a = Act(n, Posted(n)) /\ b = Then("changed", n)
      OBVIOUS
    <3>2. a \in Seq(Ops) /\ b \in Seq(Ops) /\ Announced(a) = {} /\ Announced(b) = {n}
      BY <2>3, <3>1
    <3>3. a \o b \in Seq(Ops) /\ Announced(a \o b) = Announced(a) \cup Announced(b)
      BY <3>2, ConcatAnnounced
    <3> QED
      BY <2>1, <3>1, <3>2, <3>3
  <2>5. PICK R : R = Notified(n, visible)
    OBVIOUS
  <2>6. R \in SUBSET Nodes /\ \A c, p \in Nodes : IsChild(c, p) /\ c \in R /\ visible[p] => p \in R
    BY <1>2, <2>5, TellsUp
  <2>7. n \in R
    <3>1. \A k \in Lineage[n] : n \in Lineage[k] => k = n
      BY <1>2, NoCycle
    <3> QED
      BY <1>1, <1>2, <2>5, <3>1, LineageSelf DEF Notified
  <2>8. \A k \in Nodes : Obsolete(k)' <=> body_changed'[k] \/ k \in R
    BY <1>1, <2>4, <2>5 DEF Obsolete
  <2>9. \A m \in Fields : m # n => value'[m] = value[m] /\ enabled'[m] = enabled[m]
    BY <1>1, <2>1 DEF TypeOK
  <2>10. \A k \in Nodes \ R : Text(k)' = Text(k)
    BY <1>1, <1>2, <2>5, <2>9, TextOfOther
  <2>11. Invs'
    BY <1>0, <1>1, <1>5, <1>6, <2>6, <2>7, <2>8, <2>10, EvaluationKeeps
  <2> QED
    BY <1>5, <2>4, <2>11
<1>8. CASE ~(n \in Fields /\ TakesPost(n) /\ Posted(n) # value[n])
  <2>1. UNCHANGED value /\ todo' \in {<<>>, Act(n, 1)}
    BY <1>0, <1>1, <1>8 DEF Enter
  <2>2. todo' \in Seq(Ops) /\ Announced(todo') = {}
    <3>1. CASE todo' = <<>>
      BY <3>1, EmptySeq DEF Announced
    <3>2. CASE todo' = Act(n, 1)
      <4>1. 1 \in Values
        BY DEF Values
      <4> QED
        BY <1>2, <3>2, <4>1, ActType
    <3> QED
      BY <2>1, <3>1, <3>2
  <2>3. \A k \in Nodes : Obsolete(k)' <=> body_changed'[k] \/ k \in {}
    BY <2>2 DEF Obsolete
  <2>4. \A k \in Nodes \ {} : Text(k)' = Text(k)
    BY <1>1, <2>1, NothingMoves
  <2>5. PICK R : R = {}
    OBVIOUS
  <2>6. /\ R \in SUBSET Nodes
        /\ \A c, p \in Nodes : IsChild(c, p) /\ c \in R /\ visible[p] => p \in R
        /\ \A k \in Nodes : Obsolete(k)' <=> body_changed'[k] \/ k \in R
        /\ \A k \in Nodes \ R : Text(k)' = Text(k)
    BY <2>3, <2>4, <2>5
  <2>7. Invs'
    BY <1>0, <1>1, <1>5, <1>6, <2>5, <2>6, EvaluationKeeps
  <2> QED
    BY <1>5, <2>2, <2>7
<1> QED
  BY <1>7, <1>8

(* The call for the root begins.                                             *)
LEMMA FirstCall ==
    ASSUME TypeOK, NEW b \in BOOLEAN, stack' = <<Call(Root, b)>>, stage' = "building", todo' = <<>>
    PROVE  /\ StackOK' /\ FramesOK' /\ HiddenOK' /\ CallersOK' /\ PageOK'
           /\ InProgress' = {} /\ stack' \in Seq(Frames)
<1>0. PICK f : f = Call(Root, b)
  OBVIOUS
<1>1. f \in Frames /\ f.node = Root /\ f.next = 0 /\ f.text = {}
  BY <1>0, PageAssumption DEF Call, Frames, IsTree
<1>2. stack' = <<f>> /\ DOMAIN stack' = {1} /\ Len(stack') = 1 /\ stack'[1] = f /\ stack' # <<>>
  BY <1>0
<1>3. stack' \in Seq(Frames)
  BY <1>1, <1>2
<1>4. 1..(Len(stack') - 1) = {}
  BY <1>2
<1>5. StackOK'
  BY <1>1, <1>2, <1>4 DEF StackOK
<1>6. FramesOK' /\ HiddenOK' /\ CallersOK'
  BY <1>1, <1>2, <1>4 DEF FramesOK, HiddenOK, CallersOK
<1>7. PageOK'
  BY <1>2 DEF PageOK
<1>8. InProgress' = {}
  BY <1>1, <1>2 DEF InProgress
<1> QED
  BY <1>3, <1>5, <1>6, <1>7, <1>8

(* A request is received: every cache is obsolete.                           *)
LEMMA GetBodyPartKeeps ==
    ASSUME TypeOK, Invs, NEW r \in Requests, GetBodyPart(r)
    PROVE  Invs' /\ stack' \in Seq(Frames)
<1>1. /\ stage' = "building" /\ body_changed' = [n \in Nodes |-> TRUE] /\ UNCHANGED todo
      /\ stack' = <<Call(Root, r.method = "POST")>> /\ stage = "idle"
  BY DEF GetBodyPart
<1>2. todo' = <<>> /\ (r.method = "POST") \in BOOLEAN
  BY <1>1 DEF Invs, StackOK
<1>3. /\ StackOK' /\ FramesOK' /\ HiddenOK' /\ CallersOK' /\ PageOK'
      /\ InProgress' = {} /\ stack' \in Seq(Frames)
  BY <1>1, <1>2, FirstCall
<1>4. CachesOK'
  BY <1>1 DEF CachesOK, Obsolete
<1> QED
  BY <1>3, <1>4 DEF Invs

(* The root has returned: another round starts if something changed.         *)
LEMMA EndRoundKeeps ==
    ASSUME TypeOK, Invs, EndRound
    PROVE  Invs' /\ stack' \in Seq(Frames)
<1>1. /\ stage = "building" /\ todo = <<>> /\ todo' = <<>> /\ stack = <<>>
      /\ UNCHANGED <<visible, body_changed, last_body, value, enabled, page>>
      /\ request' = NextRequest
  BY DEF EndRound, tree, fields
<1>2. Key' = Key
  BY <1>1 DEF Key, NextRequest, TypeOK
<1>3. /\ \A k \in Nodes : Text(k)' = Text(k) /\ (Obsolete(k)' <=> Obsolete(k))
      /\ Root \in Nodes /\ (body_changed[Root] => Obsolete(Root))
  BY <1>1, NothingMoves, PageAssumption DEF Obsolete, IsTree
<1>4. InProgress = {}
  BY <1>1 DEF InProgress
<1>5. InProgress' = {} => CachesOK'
  BY <1>1, <1>2, <1>3, <1>4 DEF Invs, CachesOK
<1>6. CASE stack' = <<>> /\ stage' # "building"
  <2>1. DOMAIN stack' = {} /\ 1..(Len(stack') - 1) = {} /\ stack' \in Seq(Frames)
    BY <1>6, EmptySeq
  <2>2. StackOK' /\ FramesOK' /\ HiddenOK' /\ CallersOK' /\ InProgress' = {}
    BY <1>1, <1>6, <2>1 DEF StackOK, FramesOK, HiddenOK, CallersOK, InProgress
  <2>3. PageOK'
    <3>1. stage' = "idle" => ~body_changed[Root]
      BY DEF EndRound
    <3> QED
      BY <1>1, <1>3, <1>6, <3>1 DEF PageOK, Invs
  <2> QED
    BY <1>5, <2>1, <2>2, <2>3 DEF Invs
<1>7. CASE stack' = <<Call(Root, request'.method = "POST")>> /\ stage' = "building"
  <2>1. (request'.method = "POST") \in BOOLEAN
    OBVIOUS
  <2>2. PICK b \in BOOLEAN : b = (request'.method = "POST")
    BY <2>1
  <2>3. stack' = <<Call(Root, b)>>
    BY <1>7, <2>2
  <2>4. /\ StackOK' /\ FramesOK' /\ HiddenOK' /\ CallersOK' /\ PageOK'
        /\ InProgress' = {} /\ stack' \in Seq(Frames)
    BY <1>1, <1>7, <2>3, FirstCall
  <2> QED
    BY <1>5, <2>4 DEF Invs
<1> QED
  BY <1>1, <1>6, <1>7 DEF EndRound

(* No call is in progress at the beginning.                                  *)
LEMMA InitKeeps ==
    ASSUME Init
    PROVE  Invs
<1>1. /\ stack = <<>> /\ todo = <<>> /\ stage = "idle" /\ loop = 0
      /\ body_changed = [n \in Nodes |-> TRUE]
  BY DEF Init
<1>2. DOMAIN stack = {} /\ 1..(Len(stack) - 1) = {}
  BY <1>1
<1>3. StackOK /\ FramesOK /\ HiddenOK /\ CallersOK /\ PageOK
  BY <1>1, <1>2 DEF StackOK, FramesOK, HiddenOK, CallersOK, PageOK
<1>4. CachesOK
  BY <1>1 DEF CachesOK, Obsolete
<1> QED
  BY <1>3, <1>4 DEF Invs

(* A step that changes nothing keeps the invariant.                          *)
LEMMA StutterKeeps ==
    ASSUME TypeOK, Invs, UNCHANGED vars
    PROVE  TypeOK' /\ Invs'
<1>1. UNCHANGED <<reactions, visible, body_changed, last_body, value, enabled, value_set,
                  stage, request, loop, page, stack, todo, seen, decided, acted>>
  BY DEF vars, tree, fields, build, history
<1>2. TypeOK'
  BY <1>1 DEF TypeOK
<1>3. Key' = Key /\ \A k \in Nodes : Text(k)' = Text(k) /\ (Obsolete(k)' <=> Obsolete(k))
  BY <1>1, NothingMoves DEF Key, Obsolete
<1>4. StackOK' /\ HiddenOK'
  BY <1>1 DEF StackOK, HiddenOK, Invs
<1>5. FramesOK'
  <2> SUFFICES ASSUME NEW i \in DOMAIN stack, stack[i].next > 0, ~Obsolete(stack[i].node)
               PROVE  stack[i].text = UNION {Text(Children[stack[i].node][j])' : j \in Done(i)'}
    BY <1>1, <1>3, FrameType DEF FramesOK
  <2>1. stack[i].text = UNION {Text(Children[stack[i].node][j]) : j \in Done(i)}
    BY DEF Invs, FramesOK
  <2>2. Done(i)' = Done(i) /\ Done(i) \subseteq DOMAIN Children[stack[i].node]
    BY <1>1 DEF Done
  <2>3. \A j \in DOMAIN Children[stack[i].node] : Children[stack[i].node][j] \in Nodes
    BY FrameType, PageAssumption DEF IsTree
  <2>4. \A j \in Done(i) :
           Text(Children[stack[i].node][j])' = Text(Children[stack[i].node][j])
    BY <1>1, <1>3, <2>2, <2>3
  <2> QED
    BY <2>1, <2>2, <2>4
<1>6. CallersOK'
  <2> SUFFICES ASSUME NEW i \in 1..(Len(stack) - 1), stack[i + 1].next > 0,
                      Obsolete(stack[i + 1].node)'
               PROVE  Obsolete(stack[i].node)'
    BY <1>1 DEF CallersOK
  <2>1. i \in DOMAIN stack /\ i + 1 \in DOMAIN stack
    BY DEF TypeOK
  <2>2. stack[i].node \in Nodes /\ stack[i + 1].node \in Nodes
    BY <2>1, FrameType
  <2> QED
    BY <1>1, <1>3, <2>2 DEF Invs, CallersOK
<1>7. CachesOK'
  BY <1>1, <1>3 DEF CachesOK, InProgress, Invs
<1>8. PageOK'
  BY <1>1, <1>3, PageAssumption DEF PageOK, Invs, IsTree
<1> QED
  BY <1>2, <1>4, <1>5, <1>6, <1>7, <1>8 DEF Invs

(* The next child is called.                                                 *)
LEMMA DescendKeeps ==
    ASSUME TypeOK, Invs, Descend
    PROVE  Invs' /\ stack' \in Seq(Frames)
<1>0. PICK n, L, x, c, s, t, f :
         /\ n = Top.node /\ L = Len(stack) /\ x = Top.next /\ s = stack' /\ c = Children[n][x]
         /\ f = [Top EXCEPT !.next = x + 1] /\ t = WithTop(f)
  <2>1. PICK n, x, f : n = Top.node /\ x = Top.next /\ f = [Top EXCEPT !.next = x + 1]
    OBVIOUS
  <2> QED
    BY <2>1
<1>1. /\ stage = "building" /\ todo = <<>> /\ stack # <<>> /\ x \in DOMAIN Children[n]
      /\ s = Append([stack EXCEPT ![L].next = @ + 1], Call(c, Top.post))
      /\ UNCHANGED <<visible, body_changed, last_body, value, enabled, stage, request, loop, page, todo>>
  BY <1>0 DEF Descend, tree, fields, build
<1>2. /\ n \in Nodes /\ Top = stack[L] /\ Top \in Frames /\ L \in DOMAIN stack /\ x \in Nat
      /\ L \in Nat \ {0} /\ DOMAIN stack = 1..L /\ n = stack[L].node /\ L \in 1..L
  BY <1>0, <1>1, TopType
<1>3. Children[n] \in Seq(Nodes) /\ c \in Nodes /\ IsChild(c, n) /\ x > 0
  <2>1. Children[n] \in Seq(Nodes)
    BY <1>2, PageAssumption DEF IsTree
  <2> QED
    BY <1>0, <1>1, <2>1 DEF IsChild
<1>4. f \in Frames /\ f.node = Top.node /\ f.text = Top.text /\ f.next = x + 1
  BY <1>0, <1>2 DEF Frames
<1>5. /\ t \in Seq(Frames) /\ Len(t) = L /\ t # <<>>
      /\ \A i \in 1..L : t[i].node = stack[i].node /\ t[i].text = stack[i].text
      /\ t[L].next = x + 1
      /\ \A i \in 1..(L - 1) : t[i].next = stack[i].next
  BY <1>0, <1>1, <1>4, TopGoesOn
<1>6. PICK d : d = Call(c, Top.post)
  OBVIOUS
<1>7. d \in Frames /\ d.node = c /\ d.next = 0 /\ d.text = {}
  BY <1>1, <1>3, <1>6, TopType DEF Call, Frames
<1>8. s = Append(t, d)
  <2>1. [stack EXCEPT ![L].next = @ + 1] = t
    BY <1>0, <1>2 DEF WithTop
  <2> QED
    BY <1>1, <1>6, <2>1
<1>9. /\ s \in Seq(Frames) /\ Len(s) = L + 1 /\ DOMAIN s = 1..(L + 1) /\ s # <<>>
      /\ s[L + 1] = d /\ \A i \in 1..L : s[i] = t[i]
  BY <1>2, <1>5, <1>7, <1>8
<1>10. /\ \A i \in 1..L : s[i].node = stack[i].node /\ s[i].text = stack[i].text
       /\ s[L].next = x + 1 /\ s[L].node = n /\ s[L].text = stack[L].text /\ stack[L].next = x
       /\ \A i \in 1..(L - 1) : s[i].next = stack[i].next /\ i \in 1..L
       /\ s[L + 1].node = c /\ s[L + 1].next = 0 /\ s[L + 1].text = {}
  <2>1. \A i \in 1..(L - 1) : s[i].next = stack[i].next /\ i \in 1..L
    <3>1. \A i \in 1..(L - 1) : i \in 1..L
      BY <1>2
    <3> QED
      BY <1>5, <1>9, <3>1
  <2>2. \A i \in 1..L : s[i].node = stack[i].node /\ s[i].text = stack[i].text
    BY <1>5, <1>9
  <2>3. s[L].next = x + 1 /\ s[L].node = n /\ s[L].text = stack[L].text /\ stack[L].next = x
    <3>1. s[L].next = x + 1
      BY <1>2, <1>5, <1>9
    <3> QED
      BY <1>0, <1>2, <2>2, <3>1
  <2>4. s[L + 1].node = c /\ s[L + 1].next = 0 /\ s[L + 1].text = {}
    BY <1>7, <1>9
  <2> QED
    BY <2>1, <2>2, <2>3, <2>4
<1>11. /\ \A i \in 1..L : /\ stack[i].node \in Nodes /\ stack[i].next \in Nat
                          /\ Children[stack[i].node] \in Seq(Nodes)
       /\ \A i \in 1..(L - 1) :
             /\ i \in 1..L /\ i + 1 \in 1..L
             /\ stack[i].node # n /\ stack[i].next > 0
             /\ stack[i].next - 1 \in DOMAIN Children[stack[i].node]
             /\ stack[i + 1].node = Children[stack[i].node][stack[i].next - 1]
  BY <1>0, <1>1, CallsType
<1>12. /\ \A k \in Nodes : Obsolete(k) <=> body_changed[k]
       /\ \A k \in Nodes : Obsolete(k)' <=> body_changed[k]
       /\ \A k \in Nodes : Text(k)' = Text(k)
       /\ Key' = Key
  BY <1>1, AtRest, NothingMoves DEF Key
<1>13. StackOK'
  <2>1. s[1].node = Root
    BY <1>1, <1>2, <1>10 DEF Invs, StackOK
  <2>2. ASSUME NEW i \in 1..L
        PROVE  /\ s[i].next - 1 \in DOMAIN Children[s[i].node]
               /\ s[i + 1].node = Children[s[i].node][s[i].next - 1]
    <3>1. CASE i = L
      <4>1. s[i].node = n /\ s[i].next = x + 1 /\ (x + 1) - 1 = x /\ s[i + 1].node = c
        BY <1>2, <1>10, <3>1
      <4> QED
        BY <1>0, <1>1, <4>1
    <3>2. CASE i # L
      <4>1. i \in 1..(L - 1) /\ i + 1 \in 1..L
        BY <1>2, <3>2
      <4>2. s[i].node = stack[i].node /\ s[i].next = stack[i].next /\ s[i + 1].node = stack[i + 1].node
        BY <1>10, <4>1
      <4> QED
        BY <1>11, <4>1, <4>2
    <3> QED
      BY <3>1, <3>2
  <2>3. \A i \in 1..(Len(s) - 1) :
           /\ s[i].next - 1 \in DOMAIN Children[s[i].node]
           /\ s[i + 1].node = Children[s[i].node][s[i].next - 1]
    <3>1. 1..(Len(s) - 1) = 1..L
      BY <1>2, <1>9
    <3> QED
      BY <2>2, <3>1
  <2>4. \A i \in DOMAIN s : i \in 1..(L - 1) \/ i = L \/ i = L + 1
    BY <1>2, <1>9
  <2>5. \A i \in DOMAIN s : s[i].next = 0 => s[i].text = {}
    <3>1. x + 1 # 0
      BY <1>2
    <3>2. \A i \in 1..(L - 1) : s[i].next # 0
      BY <1>10, <1>11
    <3> QED
      BY <1>10, <2>4, <3>1, <3>2
  <2>6. \A i, j \in 1..L : i < j => s[i].node \in Lineage[s[j].node] /\ s[i].node # s[j].node
    <3>1. \A i, j \in 1..L : i < j =>
             stack[i].node \in Lineage[stack[j].node] /\ stack[i].node # stack[j].node
      BY <1>2 DEF Invs, StackOK
    <3> QED
      BY <1>10, <3>1
  <2>7. ASSUME NEW i \in 1..L PROVE s[i].node \in Lineage[c] /\ s[i].node # c
    <3>1. Lineage[c] = {c} \cup Lineage[n]
      BY <1>2, <1>3, LineageChild
    <3>2. s[i].node \in Lineage[n]
      <4>1. CASE i = L
        BY <1>2, <1>10, <4>1, LineageSelf
      <4>2. CASE i # L
        <5>1. i < L
          BY <1>2, <4>2
        <5> QED
          BY <1>2, <1>10, <2>6, <5>1
      <4> QED
        BY <4>1, <4>2
    <3>3. c \notin Lineage[n]
      <4> SUFFICES ASSUME c \in Lineage[n] PROVE FALSE
        OBVIOUS
      <4>1. n \in Lineage[c]
        BY <1>2, <3>1, LineageSelf
      <4>2. c = n
        BY <1>2, <4>1, NoCycle
      <4> QED
        BY <1>2, <1>3, <4>2, NotOwnChild
    <3> QED
      BY <3>1, <3>2, <3>3
  <2>8. \A i, j \in DOMAIN s : i < j => s[i].node \in Lineage[s[j].node] /\ s[i].node # s[j].node
    <3> SUFFICES ASSUME NEW i \in DOMAIN s, NEW j \in DOMAIN s, i < j
                 PROVE  s[i].node \in Lineage[s[j].node] /\ s[i].node # s[j].node
      OBVIOUS
    <3>1. i \in 1..L
      BY <1>2, <1>9
    <3>2. CASE j = L + 1
      BY <1>10, <2>7, <3>1, <3>2
    <3>3. CASE j # L + 1
      <4>1. j \in 1..L
        BY <1>2, <1>9, <3>3
      <4> QED
        BY <2>6, <3>1, <4>1
    <3> QED
      BY <3>2, <3>3
  <2>9. stage' = "building" /\ s # <<>>
    BY <1>1, <1>9
  <2> QED
    BY <1>0, <2>1, <2>3, <2>5, <2>8, <2>9 DEF StackOK
<1>14. ASSUME NEW i \in DOMAIN s, s[i].next > 0
       PROVE  /\ i \in 1..L /\ i \in DOMAIN stack /\ stack[i].next > 0 /\ stack[i].node \in Nodes
              /\ s[i].node = stack[i].node /\ s[i].text = stack[i].text
              /\ Done(i)' = Done(i) /\ Done(i) \subseteq DOMAIN Children[stack[i].node]
  <2>1. i # L + 1
    BY <1>10, <1>14
  <2>2. i \in 1..L
    BY <1>2, <1>9, <2>1
  <2>3. s[i].node = stack[i].node /\ s[i].text = stack[i].text /\ stack[i].node \in Nodes
    BY <1>10, <1>11, <2>2
  <2>4. Done(i) \subseteq DOMAIN Children[stack[i].node]
    BY DEF Done
  <2>5. CASE i = L
    <3>1. Done(i)' = {j \in DOMAIN Children[n] : j < x + 1 /\ j # x}
      <4>1. s[i].node = n /\ s[i].next = x + 1 /\ Len(s) = L + 1 /\ i < L + 1 /\ (x + 1) - 1 = x
        BY <1>2, <1>9, <1>10, <2>5
      <4>2. Done(i)' = {j \in DOMAIN Children[s[i].node] : j < s[i].next /\ (i < Len(s) => j # s[i].next - 1)}
        BY <1>0 DEF Done
      <4> QED
        BY <4>1, <4>2
    <3>2. Done(i) = {j \in DOMAIN Children[n] : j < x}
      <4>1. ~(i < L)
        BY <1>2, <2>5
      <4> QED
        BY <1>0, <1>2, <1>10, <2>5, <4>1 DEF Done
    <3>3. \A j \in DOMAIN Children[n] : (j < x + 1 /\ j # x) <=> j < x
      <4>1. \A j \in DOMAIN Children[n] : j \in Nat
        BY <1>3
      <4> QED
        BY <1>2, <4>1
    <3> QED
      BY <1>2, <1>3, <2>2, <2>3, <2>4, <2>5, <3>1, <3>2, <3>3, <1>10
  <2>6. CASE i # L
    <3>1. i \in 1..(L - 1) /\ i < L /\ i < L + 1
      BY <1>2, <2>2, <2>6
    <3>2. s[i].next = stack[i].next /\ stack[i].next > 0
      BY <1>10, <1>11, <3>1
    <3>3. Done(i)' = Done(i)
      <4>1. Done(i)' = {j \in DOMAIN Children[s[i].node] : j < s[i].next /\ (i < Len(s) => j # s[i].next - 1)}
        BY <1>0 DEF Done
      <4> QED
        BY <1>0, <1>9, <2>3, <3>1, <3>2, <4>1 DEF Done
    <3> QED
      BY <1>2, <2>2, <2>3, <2>4, <3>2, <3>3
  <2> QED
    BY <2>5, <2>6
<1>15. FramesOK'
  <2> SUFFICES ASSUME NEW i \in DOMAIN s, s[i].next > 0, ~Obsolete(s[i].node)'
               PROVE  s[i].text = UNION {Text(Children[s[i].node][j])' : j \in Done(i)'}
    BY <1>0 DEF FramesOK
  <2>1. PICK p : p = s[i].node
    OBVIOUS
  <2>2. /\ p = stack[i].node /\ p \in Nodes /\ i \in DOMAIN stack /\ stack[i].next > 0
        /\ s[i].text = stack[i].text /\ Done(i)' = Done(i) /\ Done(i) \subseteq DOMAIN Children[p]
    BY <1>14, <2>1
  <2>3. ~Obsolete(p)
    BY <1>12, <2>1, <2>2
  <2>4. stack[i].text = UNION {Text(Children[p][j]) : j \in Done(i)}
    BY <2>2, <2>3 DEF Invs, FramesOK
  <2>5. \A j \in DOMAIN Children[p] : Children[p][j] \in Nodes
    BY <2>2, PageAssumption DEF IsTree
  <2>6. \A j \in Done(i) : Text(Children[p][j])' = Text(Children[p][j])
    BY <1>12, <2>2, <2>5
  <2> QED
    BY <2>1, <2>2, <2>4, <2>6
<1>16. HiddenOK'
  <2> SUFFICES ASSUME NEW i \in DOMAIN s, s[i].next > 0
               PROVE  visible[s[i].node] \/ body_changed[s[i].node]
    BY <1>0, <1>1 DEF HiddenOK
  <2> QED
    BY <1>14 DEF Invs, HiddenOK
<1>17. CallersOK'
  <2> SUFFICES ASSUME NEW i \in 1..(Len(s) - 1), s[i + 1].next > 0, Obsolete(s[i + 1].node)'
               PROVE  Obsolete(s[i].node)'
    BY <1>0 DEF CallersOK
  <2>1. i \in 1..L /\ i + 1 \in DOMAIN s
    BY <1>2, <1>9
  <2>2. /\ i + 1 \in 1..L /\ stack[i + 1].next > 0 /\ stack[i + 1].node \in Nodes
        /\ s[i + 1].node = stack[i + 1].node
    BY <1>14, <2>1
  <2>3. i \in 1..(L - 1) /\ s[i].node = stack[i].node /\ stack[i].node \in Nodes
    BY <1>2, <1>10, <1>11, <2>1, <2>2
  <2>4. Obsolete(stack[i + 1].node)
    BY <1>12, <2>2
  <2>5. Obsolete(stack[i].node)
    BY <1>0, <2>2, <2>3, <2>4 DEF Invs, CallersOK
  <2> QED
    BY <1>12, <2>3, <2>5
<1>18. CachesOK'
  <2>1. InProgress \subseteq InProgress'
    <3>1. \A i \in DOMAIN stack : stack[i].next > 0 => s[i].next > 0 /\ s[i].node = stack[i].node /\ i \in DOMAIN s
      <4> SUFFICES ASSUME NEW i \in 1..L, stack[i].next > 0
                   PROVE  s[i].next > 0 /\ s[i].node = stack[i].node /\ i \in DOMAIN s
        BY <1>2
      <4>1. i = L \/ i \in 1..(L - 1)
        BY <1>2
      <4>2. x + 1 > 0 /\ i \in DOMAIN s
        BY <1>2, <1>9
      <4> QED
        BY <1>10, <4>1, <4>2
    <3> QED
      BY <1>0, <3>1 DEF InProgress
  <2>2. InProgress' \subseteq InProgress
    <3> QED
      BY <1>0, <1>14 DEF InProgress
  <2> QED
    BY <1>1, <1>12, <2>1, <2>2 DEF CachesOK, Invs
<1>19. PageOK'
  BY <1>0, <1>9 DEF PageOK
<1> QED
  BY <1>0, <1>9, <1>13, <1>15, <1>16, <1>17, <1>18, <1>19 DEF Invs

(* The form whose content was posted sends its event.                        *)
LEMMA ActChangedKeeps ==
    ASSUME TypeOK, Invs, ActChanged
    PROVE  Invs' /\ stack' \in Seq(Frames) /\ todo' \in Seq(Ops)
<1>0. PICK n, L, x, s, f :
         /\ n = Top.node /\ L = Len(stack) /\ x = Top.next /\ s = stack'
         /\ f = [Top EXCEPT !.next = x + 1]
  <2>1. PICK x : x = Top.next
    OBVIOUS
  <2>2. PICK f : f = [Top EXCEPT !.next = x + 1]
    OBVIOUS
  <2> QED
    BY <2>1, <2>2
<1>1. /\ stage = "building" /\ todo = <<>> /\ stack # <<>> /\ x = Len(Children[n]) + 1
      /\ s = [stack EXCEPT ![L].next = @ + 1] /\ todo' = Act(n, 1)
      /\ UNCHANGED <<visible, body_changed, last_body, value, enabled, stage, request, loop, page>>
  BY <1>0 DEF ActChanged, tree, fields, build
<1>2. /\ n \in Nodes /\ Top = stack[L] /\ Top \in Frames /\ x \in Nat
      /\ L \in Nat \ {0} /\ DOMAIN stack = 1..L /\ n = stack[L].node /\ L \in 1..L /\ stack[L].next = x
  BY <1>0, <1>1, TopType
<1>3. DOMAIN Children[n] = 1..Len(Children[n]) /\ Len(Children[n]) \in Nat
  BY <1>2, PageAssumption DEF IsTree
<1>4. f \in Frames /\ f.node = Top.node /\ f.text = Top.text /\ f.next = x + 1
  BY <1>0, <1>2 DEF Frames
<1>5. s = WithTop(f)
  BY <1>0, <1>1, <1>2 DEF WithTop
<1>6. /\ s \in Seq(Frames) /\ Len(s) = L /\ s # <<>> /\ DOMAIN s = 1..L
      /\ \A i \in 1..L : s[i].node = stack[i].node /\ s[i].text = stack[i].text
      /\ s[L].next = x + 1
      /\ \A i \in 1..(L - 1) : s[i].next = stack[i].next
  <2>1. PICK t : t = WithTop(f)
    OBVIOUS
  <2>2. /\ t \in Seq(Frames) /\ Len(t) = Len(stack) /\ t # <<>>
        /\ \A i \in 1..Len(stack) : t[i].node = stack[i].node /\ t[i].text = stack[i].text
        /\ t[Len(stack)].next = f.next
        /\ \A i \in 1..(Len(stack) - 1) : t[i].next = stack[i].next
    BY <1>1, <1>4, <2>1, TopGoesOn
  <2>3. s = t /\ DOMAIN t = 1..Len(t)
    BY <1>5, <2>1, <2>2
  <2> QED
    BY <1>0, <1>4, <2>2, <2>3
<1>7. todo' \in Seq(Ops) /\ Announced(todo') = {}
  <2>1. 1 \in Values
    BY DEF Values
  <2> QED
    BY <1>1, <1>2, <2>1, ActType
<1>8. /\ \A k \in Nodes : Obsolete(k) <=> body_changed[k]
      /\ \A k \in Nodes : Obsolete(k)' <=> body_changed[k]
      /\ \A k \in Nodes : Text(k)' = Text(k)
      /\ Key' = Key
  <2>1. \A k \in Nodes : Obsolete(k)' <=> body_changed[k]
    BY <1>1, <1>7 DEF Obsolete
  <2> QED
    BY <1>1, <2>1, AtRest, NothingMoves DEF Key
<1>9. ASSUME NEW i \in 1..L
      PROVE  /\ s[i].node = stack[i].node /\ s[i].text = stack[i].text
             /\ stack[i].node \in Nodes /\ stack[i].next > 0 /\ s[i].next > 0
             /\ i # L => s[i].next = stack[i].next
             /\ Done(i)' = Done(i) /\ Done(i) \subseteq DOMAIN Children[stack[i].node]
  <2>1. s[i].node = stack[i].node /\ s[i].text = stack[i].text /\ stack[i].node \in Nodes
    BY <1>0, <1>1, <1>6, CallsType
  <2>2. Done(i) \subseteq DOMAIN Children[stack[i].node]
    BY DEF Done
  <2>3. Done(i)' = {j \in DOMAIN Children[s[i].node] : j < s[i].next /\ (i < Len(s) => j # s[i].next - 1)}
    BY <1>0 DEF Done
  <2>4. Done(i) = {j \in DOMAIN Children[stack[i].node] : j < stack[i].next /\ (i < L => j # stack[i].next - 1)}
    BY <1>0 DEF Done
  <2>5. CASE i = L
    <3>1. s[i].node = n /\ stack[i].node = n /\ ~(i < L) /\ Len(s) = L /\ s[i].next = x + 1 /\ stack[i].next = x
      BY <1>2, <1>6, <2>5
    <3>2. \A j \in DOMAIN Children[n] : j < x + 1 /\ j < x
      BY <1>1, <1>3
    <3>3. Done(i)' = DOMAIN Children[n] /\ Done(i) = DOMAIN Children[n]
      BY <2>3, <2>4, <3>1, <3>2
    <3> QED
      BY <1>1, <1>3, <2>1, <2>2, <2>5, <3>1, <3>3
  <2>6. CASE i # L
    <3>1. i \in 1..(L - 1)
      BY <1>2, <2>6
    <3>2. s[i].next = stack[i].next /\ stack[i].next > 0
      BY <1>0, <1>1, <1>6, <3>1, CallsType
    <3>3. Done(i)' = Done(i)
      BY <1>6, <2>1, <2>3, <2>4, <3>2
    <3> QED
      BY <2>1, <2>2, <3>2, <3>3
  <2> QED
    BY <2>5, <2>6
<1>10. StackOK'
  <2>1. s[1].node = Root
    <3>1. 1 \in 1..L /\ stack[1].node = Root
      BY <1>1, <1>2 DEF Invs, StackOK
    <3> QED
      BY <1>6, <3>1
  <2>2. ASSUME NEW i \in 1..(L - 1)
        PROVE  /\ s[i].next - 1 \in DOMAIN Children[s[i].node]
               /\ s[i + 1].node = Children[s[i].node][s[i].next - 1]
    <3>1. /\ i \in 1..L /\ i + 1 \in 1..L /\ i # L
          /\ stack[i].next - 1 \in DOMAIN Children[stack[i].node]
          /\ stack[i + 1].node = Children[stack[i].node][stack[i].next - 1]
      BY <1>0, <1>1, <1>2, CallsType
    <3>2. s[i].node = stack[i].node /\ s[i].next = stack[i].next /\ s[i + 1].node = stack[i + 1].node
      BY <1>6, <3>1
    <3> QED
      BY <3>1, <3>2
  <2>3. \A i \in 1..(Len(s) - 1) :
           /\ s[i].next - 1 \in DOMAIN Children[s[i].node]
           /\ s[i + 1].node = Children[s[i].node][s[i].next - 1]
    BY <1>6, <2>2
  <2>4. \A i \in DOMAIN s : s[i].next = 0 => s[i].text = {}
    <3>1. \A i \in 1..L : s[i].next # 0
      <4> SUFFICES ASSUME NEW i \in 1..L, s[i].next = 0 PROVE FALSE
        OBVIOUS
      <4>1. s[i].next > 0
        BY <1>9
      <4> QED
        BY <4>1
    <3> QED
      BY <1>6, <3>1
  <2>5. \A i, j \in DOMAIN s : i < j => s[i].node \in Lineage[s[j].node] /\ s[i].node # s[j].node
    <3>1. \A i, j \in 1..L : i < j =>
             stack[i].node \in Lineage[stack[j].node] /\ stack[i].node # stack[j].node
      BY <1>2 DEF Invs, StackOK
    <3> QED
      BY <1>6, <3>1
  <2>6. stage' = "building" /\ s # <<>>
    BY <1>1, <1>6
  <2> QED
    BY <1>0, <2>1, <2>3, <2>4, <2>5, <2>6 DEF StackOK
<1>11. FramesOK'
  <2> SUFFICES ASSUME NEW i \in 1..L, ~Obsolete(s[i].node)'
               PROVE  s[i].text = UNION {Text(Children[s[i].node][j])' : j \in Done(i)'}
    BY <1>0, <1>6 DEF FramesOK
  <2>1. PICK p : p = s[i].node
    OBVIOUS
  <2>2. /\ p = stack[i].node /\ p \in Nodes /\ i \in DOMAIN stack /\ stack[i].next > 0
        /\ s[i].text = stack[i].text /\ Done(i)' = Done(i) /\ Done(i) \subseteq DOMAIN Children[p]
    BY <1>2, <1>9, <2>1
  <2>3. ~Obsolete(p)
    BY <1>8, <2>1, <2>2
  <2>4. stack[i].text = UNION {Text(Children[p][j]) : j \in Done(i)}
    BY <2>2, <2>3 DEF Invs, FramesOK
  <2>5. \A j \in DOMAIN Children[p] : Children[p][j] \in Nodes
    BY <2>2, PageAssumption DEF IsTree
  <2>6. \A j \in Done(i) : Text(Children[p][j])' = Text(Children[p][j])
    BY <1>8, <2>2, <2>5
  <2> QED
    BY <2>1, <2>2, <2>4, <2>6
<1>12. HiddenOK'
  <2> SUFFICES ASSUME NEW i \in 1..L PROVE visible[s[i].node] \/ body_changed[s[i].node]
    BY <1>0, <1>1, <1>6 DEF HiddenOK
  <2>1. stack[i].next > 0 /\ i \in DOMAIN stack /\ s[i].node = stack[i].node
    BY <1>2, <1>9
  <2> QED
    BY <2>1 DEF Invs, HiddenOK
<1>13. CallersOK'
  <2> SUFFICES ASSUME NEW i \in 1..(L - 1), Obsolete(s[i + 1].node)'
               PROVE  Obsolete(s[i].node)'
    BY <1>0, <1>6 DEF CallersOK
  <2>1. i \in 1..L /\ i + 1 \in 1..L
    BY <1>2
  <2>2. /\ stack[i + 1].next > 0 /\ stack[i + 1].node \in Nodes /\ s[i + 1].node = stack[i + 1].node
        /\ s[i].node = stack[i].node /\ stack[i].node \in Nodes
    BY <1>9, <2>1
  <2>3. Obsolete(stack[i + 1].node)
    BY <1>8, <2>2
  <2>4. Obsolete(stack[i].node)
    BY <1>0, <2>2, <2>3 DEF Invs, CallersOK
  <2> QED
    BY <1>8, <2>2, <2>4
<1>14. CachesOK'
  <2>1. InProgress' = InProgress
    <3>1. \A i \in 1..L : s[i].node = stack[i].node /\ stack[i].next > 0 /\ s[i].next > 0
      BY <1>9
    <3>2. InProgress' = {s[i].node : i \in {j \in 1..L : s[j].next > 0}}
      BY <1>0, <1>6 DEF InProgress
    <3>3. InProgress = {stack[i].node : i \in {j \in 1..L : stack[j].next > 0}}
      BY <1>2 DEF InProgress
    <3> QED
      BY <3>1, <3>2, <3>3
  <2> QED
    BY <1>1, <1>8, <2>1 DEF CachesOK, Invs
<1>15. PageOK'
  BY <1>0, <1>6 DEF PageOK
<1> QED
  BY <1>0, <1>6, <1>7, <1>10, <1>11, <1>12, <1>13, <1>14, <1>15 DEF Invs

-----------------------------------------------------------------------------
(* The types, action by action.                                              *)
LEMMA MarkType ==
    ASSUME TypeOK, NEW x, NEW v, Mark(x, v)
    PROVE  body_changed' \in [Nodes -> BOOLEAN]
BY DEF Mark, TypeOK

(* What is recorded of the decisions of events.                              *)
LEMMA DecideType ==
    ASSUME TypeOK, NEW how \in {"visible", "set", "lock"}, NEW S \in SUBSET Nodes, Decide(how, S)
    PROVE  decided' \subseteq {"visible", "set", "lock"} \X Nodes
BY DEF Decide, TypeOK

(* An event is acted.                                                        *)
LEMMA ReactKeeps ==
    ASSUME TypeOK, Invs, React
    PROVE  TypeOK' /\ Invs'
<1>0. PICK op, x : op = Head(todo) /\ x = op.node
  OBVIOUS
<1>1. /\ todo # <<>> /\ Aside
      /\ \/ SetVisible(op) \/ SetValue(op) \/ SetEnabled(op) \/ HasChanged(op) \/ Lock(op)
  BY <1>0 DEF React, Aside, build
<1>2. /\ x \in Nodes /\ Tail(todo) \in Seq(Ops) /\ op.to \in Values
      /\ op.do # "visible" => x \in Fields
  BY <1>0, <1>1, HeadOfTodo
<1>3. CASE SetVisible(op)
  <2>1. Invs'
    BY <1>0, <1>1, <1>3, SetVisibleKeeps
  <2>2. visible' \in [Nodes -> BOOLEAN]
    BY <1>0, <1>2, <1>3 DEF SetVisible, TypeOK
  <2>3. body_changed' \in [Nodes -> BOOLEAN]
    <3>1. body_changed' = body_changed \/ Mark(x, visible') \/ Mark(x, visible)
      BY <1>0, <1>3 DEF SetVisible
    <3> QED
      BY <3>1, MarkType DEF TypeOK
  <2>4. decided' \subseteq {"visible", "set", "lock"} \X Nodes
    BY <1>3, DecideType DEF SetVisible, Below
  <2>5. todo' \in Seq(Ops) /\ UNCHANGED <<last_body, value, enabled, value_set>>
    BY <1>0, <1>2, <1>3 DEF SetVisible, fields
  <2> QED
    BY <1>1, <2>1, <2>2, <2>3, <2>4, <2>5 DEF TypeOK, Aside
<1>4. CASE SetValue(op)
  <2>1. Invs' /\ todo' \in Seq(Ops)
    BY <1>0, <1>1, <1>4, SetValueKeeps
  <2>2. x \in Fields /\ value' = [value EXCEPT ![x] = op.to]
    BY <1>0, <1>2, <1>4 DEF SetValue
  <2>3. value' \in [Fields -> Values]
    BY <1>2, <2>2 DEF TypeOK
  <2>4. decided' \subseteq {"visible", "set", "lock"} \X Nodes
    BY <1>0, <1>2, <1>4, DecideType DEF SetValue
  <2>5. UNCHANGED <<visible, body_changed, last_body, enabled, value_set>>
    BY <1>4 DEF SetValue, tree
  <2> QED
    BY <1>1, <2>1, <2>3, <2>4, <2>5 DEF TypeOK, Aside
<1>5. CASE SetEnabled(op)
  <2>1. Invs' /\ todo' \in Seq(Ops)
    BY <1>0, <1>1, <1>5, SetEnabledKeeps
  <2>2. x \in Fields /\ enabled' = [enabled EXCEPT ![x] = op.to = 1]
    BY <1>0, <1>2, <1>5 DEF SetEnabled
  <2>3. enabled' \in [Fields -> BOOLEAN]
    BY <2>2 DEF TypeOK
  <2>4. decided' \subseteq {"visible", "set", "lock"} \X Nodes
    BY <1>0, <1>2, <1>5, DecideType DEF SetEnabled
  <2>5. UNCHANGED <<visible, body_changed, last_body, value, value_set>>
    BY <1>5 DEF SetEnabled, tree
  <2> QED
    BY <1>1, <2>1, <2>3, <2>4, <2>5 DEF TypeOK, Aside
<1>6. CASE HasChanged(op)
  <2>1. Invs'
    BY <1>0, <1>1, <1>6, HasChangedKeeps
  <2>2. body_changed' \in [Nodes -> BOOLEAN]
    BY <1>6, MarkType DEF HasChanged
  <2>3. todo' \in Seq(Ops) /\ UNCHANGED <<visible, last_body, value, enabled, value_set, decided>>
    BY <1>0, <1>2, <1>6 DEF HasChanged, fields
  <2> QED
    BY <1>1, <2>1, <2>2, <2>3 DEF TypeOK, Aside
<1>7. CASE Lock(op)
  <2>1. Invs'
    BY <1>0, <1>1, <1>7, LockKeeps
  <2>2. value_set' \in [Fields -> BOOLEAN]
    BY <1>7 DEF Lock, TypeOK
  <2>3. decided' \subseteq {"visible", "set", "lock"} \X Nodes
    BY <1>0, <1>2, <1>7, DecideType DEF Lock
  <2>4. todo' \in Seq(Ops) /\ UNCHANGED <<visible, body_changed, last_body, value, enabled>>
    BY <1>0, <1>2, <1>7 DEF Lock, tree
  <2> QED
    BY <1>1, <2>1, <2>2, <2>3, <2>4 DEF TypeOK, Aside
<1> QED
  BY <1>1, <1>3, <1>4, <1>5, <1>6, <1>7

(* What a cached text is valid for.                                          *)
LEMMA KeyType ==
    ASSUME TypeOK
    PROVE  Key \in Nodes \X Forms
BY DEF TypeOK, Key

(* A step of the evaluation of the tree.                                     *)
LEMMA EvaluateKeeps ==
    ASSUME TypeOK, Invs, Evaluate
    PROVE  TypeOK' /\ Invs'
<1>1. CASE FromCache
  <2>1. Invs' /\ stack' \in Seq(Frames) /\ page' \subseteq Parts
    BY <1>1, FromCacheKeeps
  <2>2. UNCHANGED <<reactions, visible, body_changed, last_body, value, enabled, value_set,
                    stage, request, loop, todo, seen, decided, acted>>
    BY <1>1 DEF FromCache, tree, fields, history
  <2> QED
    BY <2>1, <2>2 DEF TypeOK
<1>2. CASE Skip
  <2>1. Invs' /\ stack' \in Seq(Frames) /\ page' \subseteq Parts
    BY <1>2, SkipKeeps
  <2>2. UNCHANGED <<reactions, visible, last_body, value, enabled, value_set,
                    stage, request, loop, todo, seen, decided, acted>>
    BY <1>2 DEF Skip, fields, history
  <2>3. body_changed' \in [Nodes -> BOOLEAN]
    BY <1>2 DEF Skip, TypeOK
  <2> QED
    BY <2>1, <2>2, <2>3 DEF TypeOK
<1>3. CASE Enter
  <2>1. Invs' /\ stack' \in Seq(Frames) /\ todo' \in Seq(Ops)
    BY <1>3, EnterKeeps
  <2>2. UNCHANGED <<reactions, visible, last_body, enabled, value_set,
                    stage, request, loop, page, seen, decided>>
    BY <1>3 DEF Enter, build
  <2>3. body_changed' \in [Nodes -> BOOLEAN]
    BY <1>3 DEF Enter, TypeOK
  <2>4. acted' \in Nat
    BY <1>3 DEF Enter, TypeOK
  <2>5. value' \in [Fields -> Values]
    <3>1. PICK n : n = Top.node
      OBVIOUS
    <3>2. \/ value' = value
          \/ n \in Fields /\ TakesPost(n) /\ value' = [value EXCEPT ![n] = Posted(n)]
      BY <1>3, <3>1 DEF Enter
    <3>3. ASSUME n \in Fields PROVE Posted(n) \in Values
      <4>1. \A k \in DOMAIN request.posted : request.posted[k] \in Values
        BY DEF TypeOK, Forms
      <4> QED
        BY <3>3, <4>1 DEF Posted, TypeOK, Values
    <3> QED
      BY <3>2, <3>3 DEF TypeOK
  <2> QED
    BY <2>1, <2>2, <2>3, <2>4, <2>5 DEF TypeOK
<1>4. CASE Descend
  <2>1. Invs' /\ stack' \in Seq(Frames)
    BY <1>4, DescendKeeps
  <2>2. UNCHANGED <<reactions, visible, body_changed, last_body, value, enabled, value_set,
                    stage, request, loop, page, todo, seen, decided, acted>>
    BY <1>4 DEF Descend, tree, fields, build, history
  <2> QED
    BY <2>1, <2>2 DEF TypeOK
<1>5. CASE ActChanged
  <2>1. Invs' /\ stack' \in Seq(Frames) /\ todo' \in Seq(Ops)
    BY <1>5, ActChangedKeeps
  <2>2. UNCHANGED <<reactions, visible, body_changed, last_body, value, enabled, value_set,
                    stage, request, loop, page, seen, decided>>
    BY <1>5 DEF ActChanged, tree, fields, build
  <2>3. acted' \in Nat
    BY <1>5 DEF ActChanged, TypeOK
  <2> QED
    BY <2>1, <2>2, <2>3 DEF TypeOK
<1>6. CASE Leave
  <2>1. Invs' /\ stack' \in Seq(Frames) /\ page' \subseteq Parts
    BY <1>6, LeaveKeeps
  <2>2. UNCHANGED <<reactions, visible, body_changed, value, enabled,
                    stage, request, loop, todo, seen, decided, acted>>
    BY <1>6 DEF Leave, history
  <2>3. value_set' \in [Fields -> BOOLEAN]
    BY <1>6 DEF Leave, Unlock, TypeOK
  <2>4. last_body' \in [Nodes -> [key : {<<>>} \cup (Nodes \X Forms), text : SUBSET Parts]]
    <3>1. PICK n, text : n = Top.node /\ text = {Part(n)} \cup (IF visible[n] THEN Top.text ELSE {})
      OBVIOUS
    <3>2. last_body' = IF body_changed[n] THEN last_body
                       ELSE [last_body EXCEPT ![n] = [key |-> Key, text |-> text]]
      BY <1>6, <3>1 DEF Leave
    <3>3. n \in Nodes /\ Top.text \subseteq Parts
      BY <1>6, <3>1, TopType DEF Leave
    <3>4. text \subseteq Parts /\ Key \in Nodes \X Forms
      BY <3>1, <3>3, PartType, KeyType
    <3> QED
      BY <3>2, <3>3, <3>4 DEF TypeOK
  <2> QED
    BY <2>1, <2>2, <2>3, <2>4 DEF TypeOK
<1>7. CASE EndRound
  <2>1. Invs' /\ stack' \in Seq(Frames)
    BY <1>7, EndRoundKeeps
  <2>2. UNCHANGED <<reactions, visible, body_changed, last_body, value, enabled, value_set,
                    page, todo, seen, decided, acted>>
    BY <1>7 DEF EndRound, tree, fields, history
  <2>3. request' \in [method : {"GET", "POST"}, target : Nodes, posted : Forms]
    BY <1>7 DEF EndRound, NextRequest, TypeOK
  <2>4. /\ loop' \in 0..MaxLoop /\ stage' \in {"idle", "building", "bug"}
        /\ (stage' = "building" => loop' < MaxLoop)
    BY <1>7, PageAssumption DEF EndRound, TypeOK
  <2> QED
    BY <2>1, <2>2, <2>3, <2>4 DEF TypeOK
<1> QED
  BY <1>1, <1>2, <1>3, <1>4, <1>5, <1>6, <1>7 DEF Evaluate

(* A request is received, and the types.                                     *)
LEMMA RequestKeeps ==
    ASSUME TypeOK, Invs, NEW r \in Requests, GetBodyPart(r)
    PROVE  TypeOK' /\ Invs'
<1>1. Invs' /\ stack' \in Seq(Frames)
  BY GetBodyPartKeeps
<1>2. UNCHANGED <<reactions, visible, last_body, value, enabled, value_set, page, todo>>
  BY DEF GetBodyPart, fields
<1>3. /\ stage' = "building" /\ request' = r /\ loop' = 0 /\ acted' = 0
      /\ body_changed' = [n \in Nodes |-> TRUE]
  BY DEF GetBodyPart
<1>4. seen' \subseteq Emitters
  BY DEF GetBodyPart
<1>5. decided' \subseteq {"visible", "set", "lock"} \X Nodes
  BY FieldsAreNodes DEF GetBodyPart
<1>6. /\ request' \in [method : {"GET", "POST"}, target : Nodes, posted : Forms]
      /\ loop' \in 0..MaxLoop /\ loop' < MaxLoop /\ stage' \in {"idle", "building", "bug"}
      /\ acted' \in Nat /\ body_changed' \in [Nodes -> BOOLEAN]
  BY <1>3, PageAssumption
<1> QED
  BY <1>1, <1>2, <1>4, <1>5, <1>6 DEF TypeOK

(* The variables have their types at the beginning.                          *)
LEMMA InitType ==
    ASSUME Init
    PROVE  TypeOK
<1>1. /\ reactions \in [Nodes -> Seq(Handlers)] /\ visible \in [Nodes -> BOOLEAN]
      /\ body_changed \in [Nodes -> BOOLEAN]
  BY PageAssumption DEF Init
<1>2. last_body \in [Nodes -> [key : {<<>>} \cup (Nodes \X Forms), text : SUBSET Parts]]
  BY DEF Init, NoText
<1>3. /\ value \in [Fields -> Values] /\ enabled \in [Fields -> BOOLEAN]
      /\ value_set \in [Fields -> BOOLEAN]
  BY DEF Init, Values
<1>4. /\ stage \in {"idle", "building", "bug"} /\ stage # "building"
      /\ loop \in 0..MaxLoop
  BY PageAssumption DEF Init
<1>5. request \in [method : {"GET", "POST"}, target : Nodes, posted : Forms]
  BY PageAssumption DEF Init
<1>6. /\ stack \in Seq(Frames) /\ todo \in Seq(Ops) /\ page \subseteq Parts
      /\ seen \subseteq Emitters /\ acted \in Nat
      /\ decided \subseteq {"visible", "set", "lock"} \X Nodes
  BY EmptySeq DEF Init
<1> QED
  BY <1>1, <1>2, <1>3, <1>4, <1>5, <1>6 DEF TypeOK

(* The invariant is inductive.                                               *)
THEOREM Invariance == Spec => []IInv
<1>1. Init => IInv
  BY InitType, InitKeeps DEF IInv
<1>2. IInv /\ [Next]_vars => IInv'
  <2> SUFFICES ASSUME IInv, [Next]_vars
               PROVE  IInv'
    OBVIOUS
  <2>1. TypeOK /\ Invs
    BY DEF IInv
  <2>2. CASE React
    BY <2>1, <2>2, ReactKeeps DEF IInv
  <2>3. CASE Evaluate
    BY <2>1, <2>3, EvaluateKeeps DEF IInv
  <2>4. ASSUME NEW r \in Requests, GetBodyPart(r)
        PROVE  IInv'
    BY <2>1, <2>4, RequestKeeps DEF IInv
  <2>5. CASE UNCHANGED vars
    BY <2>1, <2>5, StutterKeeps DEF IInv
  <2> QED
    BY <2>2, <2>3, <2>4, <2>5 DEF Next
<1> QED
  BY <1>1, <1>2, PTL DEF Spec

(* The variables keep their types.                                           *)
THEOREM TypeCorrect == Spec => []TypeOK
<1>1. IInv => TypeOK
  BY DEF IInv
<1> QED
  BY <1>1, Invariance, PTL

(* The page that is sent is the one that the components would show now: no   *)
(* cache hides a change, whatever the tree is and whatever the events of its *)
(* components do to each other (body_builder.cpp, my_body_part_has_changed   *)
(* and get_body_part_or_cache). The rounds may not end, which is the state   *)
(* of the model left aside: the code throws WEBDAR_BUG after maxloop rounds. *)
THEOREM PageStable == Spec => [](stage # "bug" => PageIsStable)
<1>1. IInv => (stage # "bug" => PageIsStable)
  <2> SUFFICES ASSUME IInv, stage = "idle", loop > 0
               PROVE  page = {Part(n) : n \in {m \in Nodes : Shown(m)}}
    BY DEF PageIsStable
  <2>1. stack = <<>>
    BY DEF IInv, Invs, StackOK
  <2>2. page = Text(Root)
    BY <2>1 DEF IInv, Invs, PageOK
  <2>3. {n \in Nodes : Shown(n)} = Vis(Root)
    BY ShownFromRoot
  <2> QED
    BY <2>2, <2>3 DEF Text
<1> QED
  BY <1>1, Invariance, PTL

-----------------------------------------------------------------------------
(* What a list of calls in progress says of the components: those that are   *)
(* called, that are entered, that are given a POST, whose form is submitted, *)
(* and those that the round has not evaluated yet.                           *)
Called(s) == {s[i].node : i \in DOMAIN s}

Entered(s) == {s[i].node : i \in {j \in DOMAIN s : s[j].next > 0}}

Posting(s) == {s[i].node : i \in {j \in DOMAIN s : s[j].post}}

Submits(f) == f.next > Len(Children[f.node]) + 1

Submitted(s) == {s[i].node : i \in {j \in DOMAIN s : Submits(s[j])}}

Ahead(f) ==
    IF f.next = 0 THEN Below(f.node)
    ELSE UNION {Below(Children[f.node][j]) :
                   j \in {k \in DOMAIN Children[f.node] : k >= f.next}}

Unvisited(s) == UNION {Ahead(s[i]) : i \in DOMAIN s}

(* One call more.                                                            *)
LEMMA OneCallMore ==
    ASSUME NEW s \in Seq(Frames), NEW f \in Frames
    PROVE  /\ Append(s, f) \in Seq(Frames) /\ Append(s, f) # <<>>
           /\ Called(Append(s, f)) = Called(s) \cup {f.node}
           /\ Entered(Append(s, f)) = Entered(s) \cup (IF f.next > 0 THEN {f.node} ELSE {})
           /\ Posting(Append(s, f)) = Posting(s) \cup (IF f.post THEN {f.node} ELSE {})
           /\ Submitted(Append(s, f)) = Submitted(s) \cup (IF Submits(f) THEN {f.node} ELSE {})
           /\ Unvisited(Append(s, f)) = Unvisited(s) \cup Ahead(f)
<1>0. PICK t, L : t = Append(s, f) /\ L = Len(s)
  OBVIOUS
<1>1. /\ t \in Seq(Frames) /\ t # <<>> /\ L \in Nat /\ DOMAIN s = 1..L /\ DOMAIN t = 1..(L + 1)
      /\ \A i \in 1..L : t[i] = s[i]
      /\ t[L + 1] = f
  BY <1>0
<1>2. \A i \in DOMAIN t : (i \in DOMAIN s /\ t[i] = s[i]) \/ (i = L + 1 /\ t[i] = f)
  BY <1>1
<1>3. \A i \in DOMAIN s : i \in DOMAIN t /\ t[i] = s[i]
  BY <1>1
<1>4. L + 1 \in DOMAIN t /\ t[L + 1] = f
  BY <1>1
<1>5. Called(t) = Called(s) \cup {f.node}
  BY <1>2, <1>3, <1>4 DEF Called
<1>6. Entered(t) = Entered(s) \cup (IF f.next > 0 THEN {f.node} ELSE {})
  BY <1>2, <1>3, <1>4 DEF Entered
<1>7. Posting(t) = Posting(s) \cup (IF f.post THEN {f.node} ELSE {})
  BY <1>2, <1>3, <1>4 DEF Posting
<1>8. Submitted(t) = Submitted(s) \cup (IF Submits(f) THEN {f.node} ELSE {})
  BY <1>2, <1>3, <1>4 DEF Submitted
<1>9. Unvisited(t) = Unvisited(s) \cup Ahead(f)
  BY <1>2, <1>3, <1>4 DEF Unvisited
<1> QED
  BY <1>0, <1>1, <1>5, <1>6, <1>7, <1>8, <1>9

(* The texts do not matter.                                                  *)
LEMMA SameCalls ==
    ASSUME NEW s \in Seq(Frames), NEW t \in Seq(Frames), Len(s) = Len(t),
           \A i \in 1..Len(s) : t[i].node = s[i].node /\ t[i].next = s[i].next /\ t[i].post = s[i].post
    PROVE  /\ Called(t) = Called(s) /\ Entered(t) = Entered(s) /\ Posting(t) = Posting(s)
           /\ Submitted(t) = Submitted(s) /\ Unvisited(t) = Unvisited(s)
<1>1. DOMAIN s = DOMAIN t /\ DOMAIN s = 1..Len(s)
  OBVIOUS
<1>2. ASSUME NEW i \in DOMAIN s PROVE Ahead(t[i]) = Ahead(s[i]) /\ (Submits(t[i]) <=> Submits(s[i]))
  <2>1. t[i].node = s[i].node /\ t[i].next = s[i].next
    BY <1>1
  <2>2. Ahead(t[i]) = Ahead(s[i])
    BY <2>1 DEF Ahead
  <2>3. Submits(t[i]) <=> Submits(s[i])
    BY <2>1 DEF Submits
  <2> QED
    BY <2>2, <2>3
<1> QED
  BY <1>1, <1>2 DEF Called, Entered, Posting, Submitted, Unvisited

(* Nothing is called.                                                        *)
LEMMA NoCalls ==
    /\ Called(<<>>) = {} /\ Entered(<<>>) = {} /\ Posting(<<>>) = {}
    /\ Submitted(<<>>) = {} /\ Unvisited(<<>>) = {}
BY DEF Called, Entered, Posting, Submitted, Unvisited

(* The calls that wait, and the one in progress.                             *)
LEMMA CallersAndTop ==
    ASSUME TypeOK, stack # <<>>
    PROVE  /\ Callers \in Seq(Frames) /\ stack = Append(Callers, Top)
           /\ \A f \in Frames : WithTop(f) = Append(Callers, f)
<1>0. PICK L, c : L = Len(stack) /\ c = Callers
  OBVIOUS
<1>1. /\ c \in Seq(Frames) /\ Len(c) = L - 1 /\ \A i \in 1..(L - 1) : c[i] = stack[i]
  BY <1>0, CallersType
<1>2. stack \in Seq(Frames) /\ L \in Nat \ {0} /\ Top = stack[L] /\ Top \in Frames /\ DOMAIN stack = 1..L
  BY <1>0, TopType DEF TypeOK
<1>3. ASSUME NEW f \in Frames PROVE WithTop(f) = Append(c, f)
  <2>1. PICK t, u : t = WithTop(f) /\ u = Append(c, f)
    OBVIOUS
  <2>2. t \in Seq(Frames) /\ Len(t) = L /\ \A i \in 1..L : t[i] = IF i = L THEN f ELSE stack[i]
    BY <1>0, <1>2, <2>1, ExceptSeq DEF WithTop
  <2>3. /\ u \in Seq(Frames) /\ Len(u) = (L - 1) + 1 /\ u[(L - 1) + 1] = f
        /\ \A i \in 1..(L - 1) : u[i] = c[i]
    BY <1>1, <2>1
  <2>4. \A i \in 1..L : t[i] = u[i]
    <3> SUFFICES ASSUME NEW i \in 1..L PROVE t[i] = u[i]
      OBVIOUS
    <3>1. CASE i = L
      BY <1>2, <2>2, <2>3, <3>1
    <3>2. CASE i # L
      <4>1. i \in 1..(L - 1)
        BY <1>2, <3>2
      <4> QED
        BY <1>1, <2>2, <2>3, <3>2, <4>1
    <3> QED
      BY <3>1, <3>2
  <2>5. Len(u) = L
    BY <1>2, <2>3
  <2> QED
    BY <2>1, <2>2, <2>3, <2>4, <2>5, SeqEqual
<1>4. WithTop(Top) = stack
  BY <1>0, <1>2 DEF WithTop
<1> QED
  BY <1>0, <1>1, <1>2, <1>3, <1>4

-----------------------------------------------------------------------------
(* What is below two children of a component are different components.       *)
LEMMA ChildrenApart ==
    ASSUME NEW p \in Nodes, NEW i \in DOMAIN Children[p], NEW j \in DOMAIN Children[p], i # j
    PROVE  Below(Children[p][i]) \cap Below(Children[p][j]) = {}
<1> SUFFICES ASSUME NEW m \in Below(Children[p][i]) \cap Below(Children[p][j]) PROVE FALSE
  OBVIOUS
<1>0. PICK c, d : c = Children[p][i] /\ d = Children[p][j]
  OBVIOUS
<1>1. c # d /\ c \in Nodes /\ d \in Nodes /\ IsChild(c, p) /\ IsChild(d, p)
  BY <1>0, PageAssumption DEF IsTree, IsChild
<1>2. m \in Nodes /\ c \in Lineage[m] /\ d \in Lineage[m]
  BY <1>0 DEF Below
<1>3. ASSUME NEW x \in Nodes, NEW y \in Nodes, IsChild(x, p), IsChild(y, p), x # y
      PROVE  x \notin Lineage[y]
  <2>1. Lineage[y] = {y} \cup Lineage[p] /\ p \in Lineage[x] /\ x # p
    BY <1>3, LineageChild, LineageSelf, NotOwnChild
  <2>2. x \notin Lineage[p]
    BY <2>1, NoCycle
  <2> QED
    BY <1>3, <2>1, <2>2
<1> QED
  BY <1>1, <1>2, <1>3, LineageChain

(* Below a component are itself and what is below its children.              *)
LEMMA BelowDescends ==
    ASSUME NEW n \in Nodes
    PROVE  /\ Below(n) = {n} \cup UNION {Below(Children[n][j]) : j \in DOMAIN Children[n]}
           /\ \A j \in DOMAIN Children[n] :
                 n \notin Below(Children[n][j]) /\ Below(Children[n][j]) \subseteq Below(n)
<1>1. \A j \in DOMAIN Children[n] : Children[n][j] \in Nodes /\ IsChild(Children[n][j], n)
  BY ChildIsNode DEF IsChild
<1>2. ASSUME NEW j \in DOMAIN Children[n]
      PROVE  n \notin Below(Children[n][j]) /\ Below(Children[n][j]) \subseteq Below(n)
  <2>0. PICK c : c = Children[n][j]
    OBVIOUS
  <2>1. c \in Nodes /\ n \in Lineage[c] /\ c # n
    BY <1>1, <2>0, LineageChild, LineageSelf, NotOwnChild
  <2>2. c \notin Lineage[n]
    BY <2>1, NoCycle
  <2>3. \A m \in Nodes : c \in Lineage[m] => n \in Lineage[m]
    BY <2>1, LineageTrans
  <2> QED
    BY <2>0, <2>2, <2>3 DEF Below
<1>3. ASSUME NEW m \in Below(n), m # n
      PROVE  \E j \in DOMAIN Children[n] : m \in Below(Children[n][j])
  <2>1. m \in Nodes /\ n \in Lineage[m]
    BY DEF Below
  <2>2. PICK c \in Nodes : IsChild(c, n) /\ c \in Lineage[m]
    BY <1>3, <2>1, StepDown
  <2> QED
    BY <2>1, <2>2 DEF IsChild, Below
<1>4. n \in Below(n)
  BY LineageSelf DEF Below
<1> QED
  BY <1>2, <1>3, <1>4

(* The calls that wait are for components above the one in progress, they    *)
(* are at one of their children, and this round has not evaluated what is    *)
(* ahead of them.                                                            *)
LEMMA CallersWait ==
    ASSUME TypeOK, Invs, stack # <<>>
    PROVE  /\ Entered(Callers) = Called(Callers) /\ Top.node \notin Called(Callers)
           /\ Submitted(Callers) = {} /\ Posting(Callers) \subseteq Called(Callers)
           /\ Called(Callers) \subseteq Lineage[Top.node]
           /\ Unvisited(Callers) \cap Below(Top.node) = {}
<1>0. PICK L, c, n : L = Len(stack) /\ c = Callers /\ n = Top.node
  OBVIOUS
<1>1. /\ c \in Seq(Frames) /\ DOMAIN c = 1..(L - 1) /\ \A i \in 1..(L - 1) : c[i] = stack[i]
  <2>1. c \in Seq(Frames) /\ Len(c) = L - 1 /\ \A i \in 1..(L - 1) : c[i] = stack[i]
    BY <1>0, CallersType
  <2> QED
    BY <2>1
<1>2. L \in Nat \ {0} /\ DOMAIN stack = 1..L /\ L \in 1..L /\ n = stack[L].node /\ n \in Nodes
  BY <1>0, TopType
<1>3. /\ \A i \in 1..L : /\ stack[i].node \in Nodes /\ stack[i].next \in Nat
                         /\ Children[stack[i].node] \in Seq(Nodes)
      /\ \A i \in 1..(L - 1) :
            /\ i \in 1..L /\ i + 1 \in 1..L
            /\ stack[i].node # n /\ stack[i].next > 0
            /\ stack[i].next - 1 \in DOMAIN Children[stack[i].node]
            /\ stack[i + 1].node = Children[stack[i].node][stack[i].next - 1]
            /\ stack[i + 1].node \in Nodes /\ IsChild(stack[i + 1].node, stack[i].node)
  BY <1>0, CallsType
<1>4. \A i, j \in 1..L : i < j => stack[i].node \in Lineage[stack[j].node]
  BY <1>2 DEF Invs, StackOK
<1>5. ASSUME NEW i \in 1..(L - 1)
      PROVE  ~Submits(stack[i])
  <2>1. \A k \in DOMAIN Children[stack[i].node] : k <= Len(Children[stack[i].node])
    BY <1>3
  <2>2. Len(Children[stack[i].node]) \in Nat /\ stack[i].next \in Nat
    BY <1>3
  <2> QED
    BY <1>3, <2>1, <2>2 DEF Submits
<1>6. ASSUME NEW i \in 1..(L - 1)
      PROVE  stack[i].node \in Lineage[n] /\ Ahead(stack[i]) \cap Below(n) = {}
  <2>1. i < L /\ i + 1 \in 1..L /\ (i + 1 < L \/ i + 1 = L)
    BY <1>2
  <2>2. stack[i].node \in Lineage[n] /\ stack[i + 1].node \in Lineage[n]
    BY <1>2, <1>4, <2>1, LineageSelf
  <2>3. PICK p, k : p = stack[i].node /\ k = stack[i].next - 1
    OBVIOUS
  <2>4. /\ p \in Nodes /\ k \in DOMAIN Children[p] /\ stack[i].next \in Nat
        /\ stack[i].next > 0 /\ stack[i + 1].node = Children[p][k]
    BY <1>3, <2>3
  <2>5. Below(n) \subseteq Below(Children[p][k])
    BY <2>2, <2>4, LineageTrans DEF Below
  <2>6. \A j \in DOMAIN Children[p] : j >= stack[i].next =>
           Below(Children[p][j]) \cap Below(Children[p][k]) = {}
    <3> SUFFICES ASSUME NEW j \in DOMAIN Children[p], j >= stack[i].next
                 PROVE  Below(Children[p][j]) \cap Below(Children[p][k]) = {}
      OBVIOUS
    <3>1. j \in Nat
      <4>1. Children[p] \in Seq(Nodes)
        BY <1>3, <2>3
      <4> QED
        BY <4>1
    <3>2. j # k
      BY <2>3, <2>4, <3>1
    <3> QED
      BY <2>4, <3>2, ChildrenApart
  <2>7. Ahead(stack[i]) = UNION {Below(Children[p][j]) :
                                    j \in {h \in DOMAIN Children[p] : h >= stack[i].next}}
    BY <2>3, <2>4 DEF Ahead
  <2> QED
    BY <2>2, <2>5, <2>6, <2>7
<1>7. Entered(c) = Called(c) /\ n \notin Called(c) /\ Posting(c) \subseteq Called(c)
  BY <1>1, <1>3 DEF Entered, Called, Posting
<1>8. Submitted(c) = {}
  BY <1>1, <1>5 DEF Submitted
<1>9. Called(c) \subseteq Lineage[n] /\ Unvisited(c) \cap Below(n) = {}
  BY <1>1, <1>6 DEF Called, Unvisited
<1> QED
  BY <1>0, <1>7, <1>8, <1>9

-----------------------------------------------------------------------------
(* What the calls say, from those that wait and from the one in progress.    *)
LEMMA CallsNow ==
    ASSUME TypeOK, Invs, stack # <<>>, NEW n, n = Top.node
    PROVE  /\ Called(stack) = Called(Callers) \cup {n}
           /\ Entered(stack) = Entered(Callers) \cup (IF Top.next > 0 THEN {n} ELSE {})
           /\ Posting(stack) = Posting(Callers) \cup (IF Top.post THEN {n} ELSE {})
           /\ Submitted(stack) = IF Submits(Top) THEN {n} ELSE {}
           /\ Unvisited(stack) = Unvisited(Callers) \cup Ahead(Top)
           /\ Ahead(Top) \subseteq Below(n) /\ (Top.next = 0 => Ahead(Top) = Below(n))
<1>1. Callers \in Seq(Frames) /\ stack = Append(Callers, Top)
  BY CallersAndTop
<1>2. Top \in Frames /\ n \in Nodes
  BY TopType
<1>3. Submitted(Callers) = {}
  BY CallersWait
<1>4. Ahead(Top) \subseteq Below(n) /\ (Top.next = 0 => Ahead(Top) = Below(n))
  BY <1>2, BelowDescends DEF Ahead
<1>5. PICK c, f : c = Callers /\ f = Top
  OBVIOUS
<1>6. /\ Called(stack) = Called(c) \cup {f.node}
      /\ Entered(stack) = Entered(c) \cup (IF f.next > 0 THEN {f.node} ELSE {})
      /\ Posting(stack) = Posting(c) \cup (IF f.post THEN {f.node} ELSE {})
      /\ Submitted(stack) = Submitted(c) \cup (IF Submits(f) THEN {f.node} ELSE {})
      /\ Unvisited(stack) = Unvisited(c) \cup Ahead(f)
  BY <1>1, <1>2, <1>5, OneCallMore
<1> QED
  BY <1>3, <1>4, <1>5, <1>6

(* A call returns: its component is done with, and all those below.          *)
LEMMA Returns ==
    ASSUME TypeOK, Invs, stack # <<>>, NEW n, n = Top.node, NEW text \in SUBSET Parts, Return(text)
    PROVE  /\ Called(stack') = Called(stack) \ {n} /\ Entered(stack') = Entered(stack) \ {n}
           /\ Posting(stack') = Posting(stack) \ {n} /\ Submitted(stack') = {}
           /\ Unvisited(stack') = Unvisited(stack) \ Below(n)
           /\ stack' # <<>> => (Top.node)' \in Nodes /\ IsChild(n, (Top.node)')
<1>0. PICK s, c, L : s = stack' /\ c = Callers /\ L = Len(stack)
  OBVIOUS
<1>1. /\ Called(s) = Called(c) /\ Entered(s) = Entered(c) /\ Posting(s) = Posting(c)
      /\ Submitted(s) = Submitted(c) /\ Unvisited(s) = Unvisited(c)
      /\ s # <<>> => (Top.node)' \in Nodes /\ IsChild(n, (Top.node)')
  <2>1. L \in Nat \ {0} /\ c \in Seq(Frames) /\ Len(c) = L - 1 /\ DOMAIN stack = 1..L
        /\ n = stack[L].node
    BY <1>0, TopType, CallersType
  <2>2. CASE L = 1
    <3>1. c = <<>> /\ s = <<>>
      BY <1>0, <2>1, <2>2 DEF Return
    <3> QED
      BY <3>1
  <2>3. CASE L > 1
    <3>1. /\ s \in Seq(Frames) /\ Len(s) = L - 1
          /\ \A i \in 1..(L - 1) : /\ s[i].node = stack[i].node /\ s[i].next = stack[i].next
                                  /\ s[i].post = stack[i].post
      <4>1. /\ stack' \in Seq(Frames) /\ Len(stack') = L - 1
            /\ \A i \in 1..(L - 1) : /\ stack'[i].node = stack[i].node
                                    /\ stack'[i].next = stack[i].next
                                    /\ stack'[i].post = stack[i].post
        BY <1>0, <2>3, ReturnedTo, ZenonT(60)
      <4> QED
        BY <1>0, <4>1
    <3>2. \A i \in 1..(L - 1) : c[i] = stack[i]
      BY <1>0, CallersType
    <3>3. \A i \in 1..Len(c) : /\ s[i].node = c[i].node /\ s[i].next = c[i].next
                                /\ s[i].post = c[i].post
      BY <2>1, <3>1, <3>2
    <3>4. /\ Called(s) = Called(c) /\ Entered(s) = Entered(c) /\ Posting(s) = Posting(c)
          /\ Submitted(s) = Submitted(c) /\ Unvisited(s) = Unvisited(c)
      BY <2>1, <3>1, <3>3, SameCalls
    <3>5. (Top.node)' = stack[L - 1].node
      <4>1. (Top.node)' = s[L - 1].node
        BY <1>0, <3>1 DEF Top
      <4>2. L - 1 \in 1..(L - 1)
        BY <2>1, <2>3
      <4> QED
        BY <3>1, <4>1, <4>2
    <3>6. stack[L - 1].node \in Nodes /\ IsChild(n, stack[L - 1].node)
      <4>1. L - 1 \in 1..(L - 1) /\ (L - 1) + 1 = L /\ L - 1 \in 1..L
        BY <2>1, <2>3
      <4> QED
        BY <1>0, <2>1, <4>1, CallsType
    <3> QED
      BY <3>4, <3>5, <3>6
  <2> QED
    BY <2>1, <2>2, <2>3
<1>2. /\ Entered(c) = Called(c) /\ n \notin Called(c)
      /\ Submitted(c) = {} /\ Posting(c) \subseteq Called(c)
      /\ Unvisited(c) \cap Below(n) = {}
  BY <1>0, CallersWait
<1>3. /\ Called(stack) = Called(c) \cup {n}
      /\ Entered(stack) = Entered(c) \cup (IF Top.next > 0 THEN {n} ELSE {})
      /\ Posting(stack) = Posting(c) \cup (IF Top.post THEN {n} ELSE {})
      /\ Unvisited(stack) = Unvisited(c) \cup Ahead(Top) /\ Ahead(Top) \subseteq Below(n)
  BY <1>0, CallsNow
<1> QED
  BY <1>0, <1>1, <1>2, <1>3

(* A component is entered: it is visited, and those below are yet to be.     *)
LEMMA Enters ==
    ASSUME TypeOK, Invs, stack # <<>>, NEW n, n = Top.node, Top.next = 0,
           stack' = [stack EXCEPT ![Len(stack)].next = 1, ![Len(stack)].post = @ /\ PostIsFor(n)]
    PROVE  /\ Called(stack') = Called(stack) /\ n \in Called(stack)
           /\ n \notin Entered(stack) /\ Entered(stack') = Entered(stack) \cup {n}
           /\ n \in Posting(stack) <=> Top.post
           /\ Posting(stack') = Posting(stack) \ (IF PostIsFor(n) THEN {} ELSE {n})
           /\ Submitted(stack) = {} /\ Submitted(stack') = {}
           /\ Below(n) \subseteq Unvisited(stack) /\ Unvisited(stack') = Unvisited(stack) \ {n}
           /\ stack' # <<>> /\ (Top.node)' = n
<1>0. PICK s, c, f : /\ s = stack' /\ c = Callers
                     /\ f = [Top EXCEPT !.next = 1, !.post = @ /\ PostIsFor(n)]
  OBVIOUS
<1>1. n \in Nodes /\ Top = stack[Len(stack)] /\ Top \in Frames /\ Len(stack) \in DOMAIN stack
  BY TopType
<1>2. /\ f \in Frames /\ f.node = n /\ f.next = 1 /\ f.post = (Top.post /\ PostIsFor(n))
      /\ f.post \in BOOLEAN
  <2>1. (Top.post /\ PostIsFor(n)) \in BOOLEAN
    BY TopType DEF PostIsFor
  <2> QED
    BY <1>0, <1>1, <2>1 DEF Frames
<1>3. s = WithTop(f)
  BY <1>0, <1>1 DEF WithTop
<1>4. c \in Seq(Frames) /\ s = Append(c, f)
  BY <1>0, <1>2, <1>3, CallersAndTop
<1>5. /\ Called(s) = Called(c) \cup {n}
      /\ Entered(s) = Entered(c) \cup {n}
      /\ Posting(s) = Posting(c) \cup (IF f.post THEN {n} ELSE {})
      /\ Submitted(s) = Submitted(c) \cup (IF Submits(f) THEN {n} ELSE {})
      /\ Unvisited(s) = Unvisited(c) \cup Ahead(f) /\ s # <<>>
  BY <1>2, <1>4, OneCallMore
<1>6. ~Submits(f)
  <2>1. Len(Children[n]) \in Nat
    BY <1>1, PageAssumption DEF IsTree
  <2> QED
    BY <1>2, <2>1 DEF Submits
<1>7. Ahead(f) = Below(n) \ {n}
  <2>1. \A j \in DOMAIN Children[n] : j >= 1
    <3>1. Children[n] \in Seq(Nodes)
      BY <1>1, PageAssumption DEF IsTree
    <3> QED
      BY <3>1
  <2>2. Ahead(f) = UNION {Below(Children[n][j]) : j \in DOMAIN Children[n]}
    BY <1>2, <2>1 DEF Ahead
  <2> QED
    BY <1>1, <2>2, BelowDescends
<1>8. /\ Entered(c) = Called(c) /\ n \notin Called(c)
      /\ Submitted(c) = {} /\ Posting(c) \subseteq Called(c)
      /\ Unvisited(c) \cap Below(n) = {}
  BY <1>0, CallersWait
<1>9. /\ Called(stack) = Called(c) \cup {n}
      /\ Entered(stack) = Entered(c) \cup (IF Top.next > 0 THEN {n} ELSE {})
      /\ Posting(stack) = Posting(c) \cup (IF Top.post THEN {n} ELSE {})
      /\ Submitted(stack) = IF Submits(Top) THEN {n} ELSE {}
      /\ Unvisited(stack) = Unvisited(c) \cup Below(n)
  BY <1>0, CallsNow
<1>10. ~Submits(Top)
  <2>1. Len(Children[n]) \in Nat
    BY <1>1, PageAssumption DEF IsTree
  <2> QED
    BY <2>1 DEF Submits
<1>11. n \in Below(n)
  BY <1>1, LineageSelf DEF Below
<1>12. (Top.node)' = n
  <2>1. (Top)' = s[Len(s)]
    BY <1>0 DEF Top
  <2>2. s[Len(s)] = f
    BY <1>2, <1>4
  <2> QED
    BY <1>2, <2>1, <2>2
<1>13. Posting(s) = Posting(stack) \ (IF PostIsFor(n) THEN {} ELSE {n}) /\ (n \in Posting(stack) <=> Top.post)
  BY <1>2, <1>5, <1>8, <1>9
<1>14. /\ Called(s) = Called(stack) /\ n \in Called(stack)
       /\ n \notin Entered(stack) /\ Entered(s) = Entered(stack) \cup {n}
  BY <1>5, <1>8, <1>9
<1>15. Submitted(stack) = {} /\ Submitted(s) = {}
  BY <1>5, <1>6, <1>8, <1>9, <1>10
<1>16. Below(n) \subseteq Unvisited(stack) /\ Unvisited(s) = Unvisited(stack) \ {n}
  BY <1>5, <1>7, <1>8, <1>9, <1>11
<1> QED
  BY <1>0, <1>5, <1>12, <1>13, <1>14, <1>15, <1>16

(* The next child is called: it was yet to be visited.                       *)
LEMMA Descends ==
    ASSUME TypeOK, Invs, NEW n, n = Top.node, Descend
    PROVE  LET c == (Top.node)'
           IN  /\ stack # <<>> /\ stack' # <<>> /\ c \in Nodes /\ IsChild(c, n) /\ n \in Entered(stack)
               /\ Called(stack') = Called(stack) \cup {c} /\ n \in Called(stack)
               /\ Entered(stack') = Entered(stack)
               /\ Posting(stack') = Posting(stack) \cup (IF n \in Posting(stack) THEN {c} ELSE {})
               /\ Submitted(stack) = {} /\ Submitted(stack') = {}
               /\ Unvisited(stack') = Unvisited(stack)
<1>0. PICK s, b, f, x, c, d :
         /\ s = stack' /\ b = Callers /\ x = Top.next /\ c = Children[n][x]
         /\ f = [Top EXCEPT !.next = Top.next + 1] /\ d = Call(c, Top.post)
  <2>1. PICK f : f = [Top EXCEPT !.next = Top.next + 1]
    OBVIOUS
  <2>2. PICK x : x = Top.next
    OBVIOUS
  <2> QED
    BY <2>1, <2>2
<1>1. /\ stack # <<>> /\ x \in DOMAIN Children[n]
      /\ s = Append([stack EXCEPT ![Len(stack)].next = @ + 1], d)
  BY <1>0 DEF Descend
<1>2. /\ n \in Nodes /\ Top = stack[Len(stack)] /\ Top \in Frames /\ x \in Nat
      /\ Len(stack) \in DOMAIN stack /\ Top.post \in BOOLEAN
  BY <1>0, <1>1, TopType
<1>3. Children[n] \in Seq(Nodes) /\ c \in Nodes /\ IsChild(c, n) /\ x > 0 /\ x <= Len(Children[n])
  <2>1. Children[n] \in Seq(Nodes)
    BY <1>2, PageAssumption DEF IsTree
  <2> QED
    BY <1>0, <1>1, <2>1 DEF IsChild
<1>4. f \in Frames /\ f.node = n /\ f.next = x + 1 /\ f.post = Top.post
  BY <1>0, <1>2 DEF Frames
<1>5. d \in Frames /\ d.node = c /\ d.next = 0 /\ d.post = Top.post
  BY <1>0, <1>2, <1>3 DEF Call, Frames
<1>6. [stack EXCEPT ![Len(stack)].next = @ + 1] = WithTop(f)
  BY <1>0, <1>2 DEF WithTop
<1>7. PICK t : t = Append(b, f)
  OBVIOUS
<1>8. b \in Seq(Frames) /\ t \in Seq(Frames) /\ s = Append(t, d)
  BY <1>0, <1>1, <1>4, <1>6, <1>7, CallersAndTop
<1>9. /\ Called(t) = Called(b) \cup {n} /\ Entered(t) = Entered(b) \cup {n}
      /\ Posting(t) = Posting(b) \cup (IF Top.post THEN {n} ELSE {})
      /\ Submitted(t) = Submitted(b) \cup (IF Submits(f) THEN {n} ELSE {})
      /\ Unvisited(t) = Unvisited(b) \cup Ahead(f)
  <2>1. f.next > 0
    BY <1>2, <1>4
  <2> QED
    BY <1>4, <1>7, <1>8, <2>1, OneCallMore
<1>10. /\ Called(s) = Called(t) \cup {c} /\ Entered(s) = Entered(t)
       /\ Posting(s) = Posting(t) \cup (IF Top.post THEN {c} ELSE {})
       /\ Submitted(s) = Submitted(t) \cup (IF Submits(d) THEN {c} ELSE {})
       /\ Unvisited(s) = Unvisited(t) \cup Ahead(d) /\ s # <<>>
  <2>1. /\ Called(s) = Called(t) \cup {d.node}
        /\ Entered(s) = Entered(t) \cup (IF d.next > 0 THEN {d.node} ELSE {})
        /\ Posting(s) = Posting(t) \cup (IF d.post THEN {d.node} ELSE {})
        /\ Submitted(s) = Submitted(t) \cup (IF Submits(d) THEN {d.node} ELSE {})
        /\ Unvisited(s) = Unvisited(t) \cup Ahead(d) /\ s # <<>>
    BY <1>5, <1>8, OneCallMore
  <2> QED
    BY <1>5, <2>1
<1>11. ~Submits(f) /\ ~Submits(d) /\ ~Submits(Top)
  <2>1. Len(Children[n]) \in Nat /\ Len(Children[c]) \in Nat
    BY <1>2, <1>3, PageAssumption DEF IsTree
  <2>2. x \in 1..Len(Children[n])
    BY <1>1, <1>2, PageAssumption DEF IsTree
  <2>3. ~Submits(f)
    BY <1>4, <2>1, <2>2 DEF Submits
  <2>4. ~Submits(d)
    BY <1>5, <2>1 DEF Submits
  <2>5. ~Submits(Top)
    BY <1>0, <2>1, <2>2 DEF Submits
  <2> QED
    BY <2>3, <2>4, <2>5
<1>12. Ahead(Top) = Ahead(f) \cup Ahead(d)
  <2>1. Ahead(d) = Below(Children[n][x])
    BY <1>0, <1>5 DEF Ahead
  <2>2. Ahead(f) = UNION {Below(Children[n][j]) : j \in {k \in DOMAIN Children[n] : k >= x + 1}}
    BY <1>2, <1>4 DEF Ahead
  <2>3. Ahead(Top) = UNION {Below(Children[n][j]) : j \in {k \in DOMAIN Children[n] : k >= x}}
    BY <1>0, <1>2, <1>3 DEF Ahead
  <2>4. \A k \in DOMAIN Children[n] : k >= x <=> (k >= x + 1 \/ k = x)
    BY <1>2, <1>3
  <2> QED
    BY <1>1, <1>2, <1>3, <2>1, <2>2, <2>3, <2>4
<1>13. /\ Entered(b) = Called(b) /\ n \notin Called(b)
       /\ Submitted(b) = {} /\ Posting(b) \subseteq Called(b)
  BY <1>0, <1>1, CallersWait
<1>14. /\ Called(stack) = Called(b) \cup {n} /\ Entered(stack) = Entered(b) \cup {n}
       /\ Posting(stack) = Posting(b) \cup (IF Top.post THEN {n} ELSE {})
       /\ Submitted(stack) = {} /\ Unvisited(stack) = Unvisited(b) \cup Ahead(Top)
  BY <1>0, <1>1, <1>2, <1>3, <1>11, CallsNow
<1>15. (Top.node)' = c
  <2>1. (Top)' = s[Len(s)]
    BY <1>0 DEF Top
  <2>2. s[Len(s)] = d
    BY <1>5, <1>8
  <2> QED
    BY <1>5, <2>1, <2>2
<1>16. Posting(s) = Posting(stack) \cup (IF n \in Posting(stack) THEN {c} ELSE {})
  BY <1>9, <1>10, <1>13, <1>14
<1>17. /\ Called(s) = Called(stack) \cup {c} /\ Entered(s) = Entered(stack) /\ n \in Entered(stack)
       /\ n \in Called(stack)
  BY <1>9, <1>10, <1>14
<1>18. Submitted(s) = {} /\ Unvisited(s) = Unvisited(stack)
  BY <1>9, <1>10, <1>11, <1>12, <1>13, <1>14
<1> QED
  BY <1>0, <1>1, <1>3, <1>10, <1>14, <1>15, <1>16, <1>17, <1>18

(* A call that is done with its children has visited all that is below.      *)
LEMMA DoneWithChildren ==
    ASSUME TypeOK, Invs, stack # <<>>, NEW n, n = Top.node, Top.next > Len(Children[n])
    PROVE  /\ Below(n) \cap Unvisited(stack) = {} /\ n \in Entered(stack) /\ n \in Called(stack)
           /\ Submitted(stack) = IF Submits(Top) THEN {n} ELSE {}
           /\ n \in Posting(stack) <=> Top.post
<1>1. n \in Nodes /\ Top.next \in Nat /\ Children[n] \in Seq(Nodes)
  BY TopType, PageAssumption DEF IsTree
<1>2. Ahead(Top) = {}
  BY <1>1 DEF Ahead
<1>3. Top.next > 0
  BY <1>1
<1>4. /\ Called(stack) = Called(Callers) \cup {n}
      /\ Entered(stack) = Entered(Callers) \cup {n}
      /\ Posting(stack) = Posting(Callers) \cup (IF Top.post THEN {n} ELSE {})
      /\ Submitted(stack) = IF Submits(Top) THEN {n} ELSE {}
      /\ Unvisited(stack) = Unvisited(Callers)
  BY <1>2, <1>3, CallsNow
<1> QED
  BY <1>4, CallersWait

(* The form is submitted.                                                    *)
LEMMA Submit ==
    ASSUME TypeOK, Invs, NEW n, n = Top.node, ActChanged
    PROVE  /\ stack # <<>> /\ stack' # <<>> /\ (Top.node)' = n
           /\ Kind[n] = "form" /\ n \in Posting(stack) /\ n \in Entered(stack)
           /\ Called(stack') = Called(stack) /\ Entered(stack') = Entered(stack)
           /\ Posting(stack') = Posting(stack) /\ Unvisited(stack') = Unvisited(stack)
           /\ n \in Called(stack) /\ Below(n) \cap Unvisited(stack) = {}
           /\ Submitted(stack) = {} /\ Submitted(stack') = {n}
<1>0. PICK s, b, f, x :
         /\ s = stack' /\ b = Callers /\ x = Top.next
         /\ f = [Top EXCEPT !.next = Top.next + 1]
  <2>1. PICK f : f = [Top EXCEPT !.next = Top.next + 1]
    OBVIOUS
  <2>2. PICK x : x = Top.next
    OBVIOUS
  <2> QED
    BY <2>1, <2>2
<1>1. /\ stack # <<>> /\ x = Len(Children[n]) + 1 /\ Top.post /\ Kind[n] = "form"
      /\ s = [stack EXCEPT ![Len(stack)].next = @ + 1]
  BY <1>0 DEF ActChanged, IsSubmitted
<1>2. /\ n \in Nodes /\ Top = stack[Len(stack)] /\ Top \in Frames /\ x \in Nat
      /\ Len(stack) \in DOMAIN stack /\ Top.post \in BOOLEAN /\ Len(Children[n]) \in Nat
      /\ Children[n] \in Seq(Nodes)
  BY <1>0, <1>1, TopType, PageAssumption DEF IsTree
<1>3. f \in Frames /\ f.node = n /\ f.next = x + 1 /\ f.post = Top.post
  BY <1>0, <1>2 DEF Frames
<1>4. s = WithTop(f)
  BY <1>0, <1>1, <1>2 DEF WithTop
<1>5. b \in Seq(Frames) /\ s = Append(b, f)
  BY <1>0, <1>1, <1>3, <1>4, CallersAndTop
<1>6. Ahead(f) = {} /\ Ahead(Top) = {} /\ Submits(f) /\ ~Submits(Top) /\ Top.next > Len(Children[n])
      /\ f.next > 0 /\ Top.next > 0
  BY <1>0, <1>1, <1>2, <1>3 DEF Ahead, Submits
<1>7. /\ Called(s) = Called(b) \cup {n} /\ Entered(s) = Entered(b) \cup {n}
      /\ Posting(s) = Posting(b) \cup {n} /\ Submitted(s) = Submitted(b) \cup {n}
      /\ Unvisited(s) = Unvisited(b) /\ s # <<>>
  <2>1. /\ Called(s) = Called(b) \cup {f.node}
        /\ Entered(s) = Entered(b) \cup (IF f.next > 0 THEN {f.node} ELSE {})
        /\ Posting(s) = Posting(b) \cup (IF f.post THEN {f.node} ELSE {})
        /\ Submitted(s) = Submitted(b) \cup (IF Submits(f) THEN {f.node} ELSE {})
        /\ Unvisited(s) = Unvisited(b) \cup Ahead(f) /\ s # <<>>
    BY <1>3, <1>5, OneCallMore
  <2> QED
    BY <1>1, <1>3, <1>6, <2>1
<1>8. /\ Called(stack) = Called(b) \cup {n} /\ Entered(stack) = Entered(b) \cup {n}
      /\ Posting(stack) = Posting(b) \cup {n} /\ Submitted(stack) = {}
      /\ Unvisited(stack) = Unvisited(b)
  BY <1>0, <1>1, <1>6, CallsNow
<1>9. Submitted(b) = {}
  BY <1>0, <1>1, CallersWait
<1>10. Below(n) \cap Unvisited(stack) = {}
  BY <1>1, <1>6, DoneWithChildren
<1>11. (Top.node)' = n
  <2>1. (Top)' = s[Len(s)]
    BY <1>0 DEF Top
  <2>2. s[Len(s)] = f
    BY <1>3, <1>5
  <2> QED
    BY <1>3, <2>1, <2>2
<1> QED
  BY <1>0, <1>1, <1>7, <1>8, <1>9, <1>10, <1>11

(* A round begins: all is to be visited.                                     *)
LEMMA RoundBegins ==
    ASSUME NEW b \in BOOLEAN, stack' = <<Call(Root, b)>>
    PROVE  /\ Called(stack') = {Root} /\ Entered(stack') = {} /\ Submitted(stack') = {}
           /\ Posting(stack') = IF b THEN {Root} ELSE {}
           /\ Unvisited(stack') = Nodes /\ stack' # <<>> /\ (Top.node)' = Root /\ Root \in Nodes
<1>0. PICK s, f : s = stack' /\ f = Call(Root, b)
  OBVIOUS
<1>1. Root \in Nodes /\ f \in Frames /\ f.node = Root /\ f.next = 0 /\ f.post = b
  BY <1>0, PageAssumption DEF Call, Frames, IsTree
<1>2. s = Append(<<>>, f) /\ <<>> \in Seq(Frames) /\ (Top.node)' = f.node
  BY <1>0 DEF Top
<1>3. Below(Root) = Nodes
  BY LineageSelf DEF Below
<1>4. Ahead(f) = Nodes /\ ~Submits(f)
  <2>1. Len(Children[Root]) \in Nat
    BY <1>1, PageAssumption DEF IsTree
  <2> QED
    BY <1>1, <1>3, <2>1 DEF Ahead, Submits
<1>5. /\ Called(s) = Called(<<>>) \cup {Root} /\ Entered(s) = Entered(<<>>)
      /\ Posting(s) = Posting(<<>>) \cup (IF b THEN {Root} ELSE {})
      /\ Submitted(s) = Submitted(<<>>) /\ Unvisited(s) = Unvisited(<<>>) \cup Nodes /\ s # <<>>
  <2>0. PICK e : e = <<>>
    OBVIOUS
  <2>1. /\ Called(s) = Called(e) \cup {f.node}
        /\ Entered(s) = Entered(e) \cup (IF f.next > 0 THEN {f.node} ELSE {})
        /\ Posting(s) = Posting(e) \cup (IF f.post THEN {f.node} ELSE {})
        /\ Submitted(s) = Submitted(e) \cup (IF Submits(f) THEN {f.node} ELSE {})
        /\ Unvisited(s) = Unvisited(e) \cup Ahead(f) /\ s # <<>>
    BY <1>1, <1>2, <2>0, OneCallMore
  <2> QED
    BY <1>1, <1>4, <2>0, <2>1
<1> QED
  BY <1>0, <1>1, <1>2, <1>5, NoCalls

-----------------------------------------------------------------------------
(* Above the call in progress, all are entered.                              *)
PathOK == stack # <<>> => Lineage[Top.node] \subseteq Entered(stack) \cup {Top.node}

(* A component that is entered is visible, or an event decided for those     *)
(* below.                                                                    *)
ShownOrDecided(n) == visible[n] \/ \A m \in Below(n) : <<"visible", m>> \in decided

EnteredOK == \A n \in Entered(stack) : ShownOrDecided(n)

(* A POST is given in the first round, to those it is for.                   *)
RoundOK ==
    /\ Posting(stack) # {} => loop = 0 /\ request.method = "POST"
    /\ loop = 0 /\ request.method = "POST" =>
           \A n \in Called(stack) : IsPostedTo(n) => n \in Posting(stack)

(* The request is one of those that may be asked.                            *)
RequestOK ==
    /\ \E r \in Requests : request = r \/ request = [r EXCEPT !.method = "GET"]
    /\ stage = "building" /\ loop = 0 => request \in Requests
    /\ loop = 0 => \A n \in seen : Kind[n] = "form" => request.method = "POST"

(* In the first round what is not evaluated yet has no text.                 *)
FreshOK == loop = 0 => \A n \in Unvisited(stack) : body_changed[n]

(* In the first round, what an event locked is locked until it is evaluated. *)
LockedOK ==
    loop = 0 =>
        \A n \in Fields \cap Unvisited(stack) : <<"lock", n>> \in decided => value_set[n]

(* The fields that a pending event locks.                                    *)
Locks(s) == {s[i].node : i \in {j \in DOMAIN s : s[j].do = "lock"}}

(* A box that the user did not see is shown, or may be set, since an event   *)
(* decided so.                                                               *)
SeenOK ==
    loop = 0 =>
        \A n \in Fields \cap Unvisited(stack) :
            \/ Kind[n] # "check" \/ n \in seen \/ <<"visible", n>> \in decided
            \/ ~Shown(n) \/ ~enabled[n] \/ value_set[n] \/ n \in Locks(todo)

Asked == stage = "building" \/ loop > 0

(* Nobody has seen a page that was not asked for.                            *)
AskedOK == Asked \/ seen = {}

(* What no event touched is as the user saw it.                              *)
UntouchedOK ==
    Asked => \A n \in Emitters : Untouched(n) =>
        /\ n \in seen => Shown(n)
        /\ n \in seen \cap Fields => ~value_set[n] /\ (Kind[n] = "radio" \/ enabled[n])
        /\ n \notin seen \cup Fields =>
              ~Shown(n) \/ (Kind[n] = "form" /\ request.method = "GET")

(* What was posted to a field is taken when it is evaluated first.           *)
IsPosted(n) ==
    /\ DOMAIN request.posted # {} /\ Untouched(n) /\ IsPostedTo(n)
    /\ request.target \in Lineage[n]
    /\ n \in DOMAIN request.posted \/ Kind[n] = "check"

TakenOK ==
    Asked => \A n \in seen \cap Fields : IsPosted(n) =>
        (loop = 0 /\ n \in Unvisited(stack)) \/ value[n] = Posted(n)

(* An input is locked once it has told that it changed, ...                  *)
Told(n) == body_changed[n] \/ ~visible[n]

LocksFollow ==
    \A i \in DOMAIN todo : todo[i].do = "lock" /\ Kind[todo[i].node] # "radio" =>
        \/ i > 1 /\ todo[i - 1].do = "changed" /\ todo[i - 1].node = todo[i].node
        \/ i = 1 /\ Told(todo[i].node)

(* ... and stays so until it is evaluated.                                   *)
Inputs == {n \in Fields : Kind[n] # "radio"}

UnlockOK == \A n \in Inputs : value_set[n] => Told(n) \/ n \in Entered(stack)

(* What has changed is below what has, or is yet to be visited.              *)
UpOK ==
    \A p, c \in Nodes : IsChild(c, p) /\ body_changed[c] /\ visible[p] =>
        Obsolete(p) \/ (p \in Entered(stack) /\ c \in Unvisited(stack))

(* On a page at rest no input is locked.                                     *)
RestOK == stage = "idle" => \A n \in Inputs : Shown(n) => ~value_set[n]

(* The button that is pressed acts when it is evaluated first, and is not    *)
(* evaluated again; the form that is submitted, after its fields.            *)
ButtonOK ==
    LET n == request.target
    IN Asked /\ Kind[n] = "button" /\ Untouched(n) =>
           IF n \notin seen THEN acted = 0
           ELSE \/ acted = 0 /\ loop = 0 /\ n \in Unvisited(stack)
                \/ /\ acted = 1 /\ ~body_changed[n]
                   /\ n \in Entered(stack) \/ last_body[n].key = Key

FormOK ==
    LET n == request.target
    IN Asked /\ Kind[n] = "form" /\ Untouched(n) =>
           IF n \notin seen THEN acted = 0
           ELSE \/ /\ acted = 0 /\ loop = 0
                   /\ \/ n \in Unvisited(stack)
                      \/ n \in Entered(stack) \cap Posting(stack) /\ n \notin Submitted(stack)
                \/ /\ acted = 1
                   /\ loop = 0 => /\ n \notin Unvisited(stack)
                                  /\ n \in Entered(stack) => n \in Submitted(stack)

Requested ==
    /\ PathOK /\ EnteredOK /\ RoundOK /\ RequestOK /\ FreshOK
    /\ LockedOK /\ SeenOK /\ AskedOK /\ UntouchedOK /\ TakenOK
    /\ LocksFollow /\ UnlockOK /\ UpOK /\ RestOK
    /\ ButtonOK /\ FormOK

-----------------------------------------------------------------------------
(* What a component is reached through is visible, unless an event decided.  *)
LEMMA ReachedIsShown ==
    ASSUME TypeOK, PathOK, EnteredOK, stack # <<>>, NEW n, n = Top.node,
           n \in Entered(stack) \/ visible[n], <<"visible", n>> \notin decided
    PROVE  Shown(n)
<1>1. n \in Nodes
  BY TopType
<1>2. n \in Below(n)
  BY <1>1, LineageSelf DEF Below
<1>3. visible[n]
  BY <1>2 DEF EnteredOK, ShownOrDecided
<1>4. ASSUME NEW m \in Lineage[n], m # n PROVE visible[m]
  <2>1. m \in Entered(stack)
    BY <1>4 DEF PathOK
  <2>2. n \in Below(m)
    BY <1>1 DEF Below
  <2> QED
    BY <2>1, <2>2 DEF EnteredOK, ShownOrDecided
<1> QED
  BY <1>3, <1>4 DEF Shown

(* Nothing is below a button.                                                *)
LEMMA NothingBelowButton ==
    ASSUME NEW n \in Nodes, Kind[n] = "button", NEW m \in Nodes, n \in Lineage[m]
    PROVE  m = n
<1>1. Children[n] = <<>>
  BY AskedAssumption
<1>2. \A c \in Nodes : ~IsChild(c, n)
  BY <1>1 DEF IsChild
<1> QED
  BY <1>2, StepDown

(* The path is one component shorter after a return.                         *)
LEMMA ReturnedPath ==
    ASSUME TypeOK, Invs, PathOK, stack # <<>>, NEW text \in SUBSET Parts, Return(text)
    PROVE  PathOK'
<1>0. PICK n, p : n = Top.node /\ p = (Top.node)'
  OBVIOUS
<1>1. /\ Entered(stack') = Entered(stack) \ {n}
      /\ stack' # <<>> => p \in Nodes /\ IsChild(n, p)
  BY <1>0, Returns
<1>2. n \in Nodes /\ Lineage[n] \subseteq Entered(stack) \cup {n}
  BY <1>0, TopType DEF PathOK
<1>3. ASSUME stack' # <<>> PROVE Lineage[p] \subseteq Entered(stack')
  <2>1. Lineage[n] = {n} \cup Lineage[p] /\ n # p /\ p \in Lineage[n]
    BY <1>1, <1>2, <1>3, LineageChild, NotOwnChild, LineageSelf
  <2>2. n \notin Lineage[p]
    BY <1>2, <2>1, NoCycle
  <2> QED
    BY <1>1, <1>2, <2>1, <2>2
<1> QED
  BY <1>0, <1>3 DEF PathOK

(* What changes in a child is told to its parent, and one that is entered is *)
(* the parent of the component in progress, or is above it.                  *)
LEMMA ParentOfBelow ==
    ASSUME TypeOK, Invs, stack # <<>>, NEW n, n = Top.node,
           NEW p \in Entered(stack), p # n, NEW c \in Below(n), IsChild(c, p)
    PROVE  c = n
<1>1. n \in Nodes /\ c \in Nodes /\ n \in Lineage[c]
  BY TopType DEF Below
<1>2. p \in Lineage[n] /\ p \in Nodes
  <2>1. p \in Called(Callers) /\ Called(Callers) \subseteq Lineage[n]
    BY CallsNow, CallersWait
  <2> QED
    BY <1>1, <2>1, LineageSelf
<1>3. Lineage[c] = {c} \cup Lineage[p]
  BY <1>1, <1>2, LineageChild
<1>4. n \notin Lineage[p]
  BY <1>1, <1>2, NoCycle
<1> QED
  BY <1>1, <1>3, <1>4

-----------------------------------------------------------------------------
(* A component is passed over: its text is in the cache, or it is hidden.    *)
LEMMA PassesOver ==
    ASSUME TypeOK, Invs, Requested, stack # <<>>, todo = <<>>, NEW n, n = Top.node, Top.next = 0,
           NEW text \in SUBSET Parts, Return(text),
           UNCHANGED <<visible, last_body, value, enabled, value_set, stage, request, loop, todo,
                       seen, decided, acted>>,
           \A k \in Nodes : k # n => (body_changed'[k] <=> body_changed[k]),
           ~body_changed'[n], visible[n] => ~body_changed[n] /\ loop # 0
    PROVE  Requested'
<1>1. /\ Called(stack') = Called(stack) \ {n} /\ Entered(stack') = Entered(stack) \ {n}
      /\ Posting(stack') = Posting(stack) \ {n} /\ Submitted(stack') = {}
      /\ Unvisited(stack') = Unvisited(stack) \ Below(n)
  BY Returns
<1>2. n \in Nodes /\ n \in Below(n)
  BY TopType, LineageSelf DEF Below
<1>3. n \notin Entered(stack)
  BY CallersWait, CallsNow
<1>4. /\ \A k \in Nodes : Obsolete(k) <=> body_changed[k]
      /\ \A k \in Nodes : Obsolete(k)' <=> body_changed'[k]
  BY AtRest
<1>5. \A k \in Nodes : (Untouched(k)' <=> Untouched(k)) /\ (Shown(k)' <=> Shown(k))
  BY DEF Untouched, Shown
<1>6. \A k \in Nodes : IsPostedTo(k)' <=> IsPostedTo(k)
  BY DEF IsPostedTo, PostIsFor
<1>7. \A k \in Unvisited(stack') : k \in Unvisited(stack) /\ k # n
  BY <1>1, <1>2
<1>8. Fields \subseteq Nodes /\ Emitters \subseteq Nodes
  BY FieldsAreNodes DEF Emitters
<1>9. PathOK'
  BY ReturnedPath DEF Requested
<1>10. EnteredOK'
  BY <1>1 DEF Requested, EnteredOK, ShownOrDecided
<1>11. RoundOK'
  <2>1. RoundOK
    BY DEF Requested
  <2>2. \A k \in Called(stack') : k \in Nodes
    BY <1>1, FrameType DEF Called
  <2> QED
    BY <1>1, <1>6, <2>1, <2>2 DEF RoundOK
<1>12. RequestOK'
  BY DEF Requested, RequestOK
<1>13. FreshOK'
  <2>1. Unvisited(stack') \subseteq Nodes
    BY DEF Unvisited, Ahead, Below
  <2> QED
    BY <1>7, <2>1 DEF Requested, FreshOK
<1>14. LockedOK'
  BY <1>7 DEF Requested, LockedOK
<1>15. SeenOK'
  <2>1. Locks(todo') = Locks(todo)
    OBVIOUS
  <2> QED
    BY <1>5, <1>7, <1>8, <2>1 DEF Requested, SeenOK
<1>28. AskedOK'
  BY DEF Requested, AskedOK, Asked
<1>16. UntouchedOK'
  BY <1>5, <1>8 DEF Requested, UntouchedOK, Asked
<1>17. ASSUME loop = 0, NEW k \in Emitters \cap Below(n), Untouched(k), k \in seen, Asked
       PROVE  FALSE
  <2>1. Shown(k) /\ n \in Lineage[k]
    BY <1>17 DEF Requested, UntouchedOK, Below
  <2> QED
    BY <1>17, <2>1 DEF Shown
<1>18. TakenOK'
  <2>1. \A k : Posted(k)' = Posted(k)
    BY DEF Posted
  <2>2. \A k \in Fields : k \in Emitters
    BY DEF Emitters
  <2> QED
    BY <1>1, <1>5, <1>6, <1>8, <1>17, <2>1, <2>2 DEF Requested, TakenOK, IsPosted, Asked
<1>19. LocksFollow'
  BY DEF LocksFollow
<1>20. UnlockOK'
  <2>1. Inputs \subseteq Nodes
    BY <1>8 DEF Inputs
  <2> QED
    BY <1>1, <1>3, <2>1 DEF Requested, UnlockOK, Told
<1>21. UpOK'
  <2> SUFFICES ASSUME NEW p \in Nodes, NEW c \in Nodes, IsChild(c, p), body_changed'[c], visible[p]
               PROVE  Obsolete(p)' \/ (p \in Entered(stack') /\ c \in Unvisited(stack'))
    BY DEF UpOK
  <2>1. c # n /\ body_changed[c]
    OBVIOUS
  <2>2. Obsolete(p) \/ (p \in Entered(stack) /\ c \in Unvisited(stack))
    BY <2>1 DEF Requested, UpOK
  <2>3. CASE p = n
    BY <1>3, <1>4, <2>2, <2>3
  <2>4. CASE p # n /\ Obsolete(p)
    BY <1>4, <2>4
  <2>5. CASE p # n /\ p \in Entered(stack) /\ c \in Unvisited(stack)
    <3>1. c \notin Below(n)
      BY <2>1, <2>5, ParentOfBelow
    <3> QED
      BY <1>1, <2>5, <3>1
  <2> QED
    BY <2>2, <2>3, <2>4, <2>5
<1>22. RestOK'
  <2>1. Inputs \subseteq Nodes
    BY <1>8 DEF Inputs
  <2> QED
    BY <1>5, <2>1 DEF Requested, RestOK
<1>23. PICK t : t = request.target
  OBVIOUS
<1>24. t \in Nodes /\ Key' = Key
  BY <1>23 DEF TypeOK, Key
<1>25. ASSUME Kind[t] \in {"button", "form"}, Untouched(t), t \in seen, Asked, loop = 0,
              t \in Unvisited(stack)
       PROVE  t \in Unvisited(stack')
  <2>1. t \in Emitters
    BY <1>24, <1>25 DEF Emitters
  <2> QED
    BY <1>1, <1>17, <1>25, <2>1
<1>26. ButtonOK'
  <2>1. Kind[t] = "button" /\ Untouched(t) /\ Asked =>
           IF t \notin seen THEN acted = 0
           ELSE \/ acted = 0 /\ loop = 0 /\ t \in Unvisited(stack)
                \/ /\ acted = 1 /\ ~body_changed[t]
                   /\ t \in Entered(stack) \/ last_body[t].key = Key
    BY <1>23 DEF Requested, ButtonOK
  <2>2. ~body_changed[t] => ~body_changed'[t]
    BY <1>24
  <2>3. t \in Entered(stack) => t \in Entered(stack')
    BY <1>1, <1>3
  <2>4. Kind[t] = "button" /\ Untouched(t) /\ Asked =>
           IF t \notin seen THEN acted = 0
           ELSE \/ acted = 0 /\ loop = 0 /\ t \in Unvisited(stack')
                \/ /\ acted = 1 /\ ~body_changed'[t]
                   /\ t \in Entered(stack') \/ last_body[t].key = Key
    BY <1>25, <2>1, <2>2, <2>3
  <2> QED
    BY <1>5, <1>23, <1>24, <2>4 DEF ButtonOK, Asked
<1>27. FormOK'
  <2>1. Kind[t] = "form" /\ Untouched(t) /\ Asked =>
           IF t \notin seen THEN acted = 0
           ELSE \/ /\ acted = 0 /\ loop = 0
                   /\ \/ t \in Unvisited(stack)
                      \/ t \in Entered(stack) \cap Posting(stack) /\ t \notin Submitted(stack)
                \/ /\ acted = 1
                   /\ loop = 0 => /\ t \notin Unvisited(stack)
                                  /\ t \in Entered(stack) => t \in Submitted(stack)
    BY <1>23 DEF Requested, FormOK
  <2>2. Submitted(stack) = {}
    <3>1. Len(Children[n]) \in Nat
      BY <1>2, PageAssumption DEF IsTree
    <3>2. ~Submits(Top)
      BY <3>1 DEF Submits
    <3> QED
      BY <3>2, CallsNow
  <2>3. t \in Entered(stack) <=> t \in Entered(stack')
    BY <1>1, <1>3
  <2>4. t \in Entered(stack) /\ t \in Posting(stack) => t \in Posting(stack')
    BY <1>1, <1>3
  <2>5. Kind[t] = "form" /\ Untouched(t) /\ Asked =>
           IF t \notin seen THEN acted = 0
           ELSE \/ /\ acted = 0 /\ loop = 0
                   /\ \/ t \in Unvisited(stack')
                      \/ t \in Entered(stack') \cap Posting(stack') /\ t \notin Submitted(stack')
                \/ /\ acted = 1
                   /\ loop = 0 => /\ t \notin Unvisited(stack')
                                  /\ t \in Entered(stack') => t \in Submitted(stack')
    BY <1>1, <1>25, <2>1, <2>2, <2>3, <2>4
  <2> QED
    BY <1>5, <1>23, <1>24, <2>5 DEF FormOK, Asked
<1> QED
  BY <1>9, <1>10, <1>11, <1>12, <1>13, <1>14, <1>15, <1>16, <1>18, <1>19, <1>20, <1>21, <1>22,
     <1>26, <1>27, <1>28 DEF Requested

-----------------------------------------------------------------------------
(* The locks of a list of events come after what they announce.              *)
Follows(s) ==
    \A i \in DOMAIN s : s[i].do = "lock" /\ Kind[s[i].node] # "radio" =>
        i > 1 /\ s[i - 1].do = "changed" /\ s[i - 1].node = s[i].node

(* So it is when one list follows another.                                   *)
LEMMA ConcatFollows ==
    ASSUME NEW s \in Seq(Ops), NEW t \in Seq(Ops)
    PROVE  /\ s \o t \in Seq(Ops) /\ Locks(s \o t) = Locks(s) \cup Locks(t)
           /\ Follows(s) /\ Follows(t) => Follows(s \o t)
<1>0. PICK u, a, b : u = s \o t /\ a = Len(s) /\ b = Len(t)
  OBVIOUS
<1>1. /\ u \in Seq(Ops) /\ a \in Nat /\ b \in Nat
      /\ DOMAIN s = 1..a /\ DOMAIN t = 1..b /\ DOMAIN u = 1..(a + b)
  BY <1>0
<1>2. (\A i \in 1..a : u[i] = s[i]) /\ (\A i \in 1..b : u[a + i] = t[i])
  BY <1>0
<1>3. \A i \in DOMAIN u : i \in DOMAIN s \/ (i - a \in DOMAIN t /\ i = a + (i - a))
  BY <1>1
<1>4. \A i \in DOMAIN s : i \in DOMAIN u /\ u[i] = s[i]
  BY <1>1, <1>2
<1>5. \A i \in DOMAIN t : a + i \in DOMAIN u /\ u[a + i] = t[i]
  BY <1>1, <1>2
<1>6. Locks(u) = Locks(s) \cup Locks(t)
  <2>1. ASSUME NEW x \in Locks(u) PROVE x \in Locks(s) \cup Locks(t)
    <3>1. PICK i \in DOMAIN u : u[i].do = "lock" /\ u[i].node = x
      BY <2>1 DEF Locks
    <3>2. CASE i \in DOMAIN s
      BY <1>4, <3>1, <3>2 DEF Locks
    <3>3. CASE i - a \in DOMAIN t /\ i = a + (i - a)
      <4>1. u[i] = t[i - a]
        BY <1>5, <3>3
      <4> QED
        BY <3>1, <3>3, <4>1 DEF Locks
    <3> QED
      BY <1>3, <3>2, <3>3
  <2>2. Locks(s) \subseteq Locks(u)
    BY <1>4 DEF Locks
  <2>3. Locks(t) \subseteq Locks(u)
    <3>1. ASSUME NEW i \in DOMAIN t, t[i].do = "lock" PROVE t[i].node \in Locks(u)
      BY <1>5, <3>1 DEF Locks
    <3> QED
      BY <3>1 DEF Locks
  <2> QED
    BY <2>1, <2>2, <2>3
<1>7. ASSUME Follows(s), Follows(t), NEW i \in DOMAIN u, u[i].do = "lock", Kind[u[i].node] # "radio"
      PROVE  i > 1 /\ u[i - 1].do = "changed" /\ u[i - 1].node = u[i].node
  <2>1. CASE i \in DOMAIN s
    <3>1. i > 1 /\ s[i - 1].do = "changed" /\ s[i - 1].node = s[i].node
      BY <1>4, <1>7, <2>1 DEF Follows
    <3>2. i - 1 \in DOMAIN s
      BY <1>1, <2>1, <3>1
    <3> QED
      BY <1>4, <2>1, <3>1, <3>2
  <2>2. CASE i - a \in DOMAIN t /\ i = a + (i - a)
    <3>1. PICK j : j = i - a
      OBVIOUS
    <3>2. j \in 1..b /\ i = a + j /\ u[i] = t[j]
      BY <1>1, <1>5, <2>2, <3>1
    <3>3. j > 1 /\ t[j - 1].do = "changed" /\ t[j - 1].node = t[j].node
      BY <1>1, <1>7, <3>2 DEF Follows
    <3>4. j - 1 \in 1..b /\ a + (j - 1) = i - 1 /\ i > 1
      BY <1>1, <3>2, <3>3
    <3>5. u[i - 1] = t[j - 1]
      BY <1>2, <3>4
    <3> QED
      BY <3>2, <3>3, <3>4, <3>5
  <2> QED
    BY <1>3, <2>1, <2>2
<1> QED
  BY <1>0, <1>1, <1>6, <1>7 DEF Follows

(* A list with no lock.                                                      *)
LEMMA NoLocks ==
    ASSUME NEW s \in Seq(Ops), Locks(s) = {}
    PROVE  Follows(s)
BY DEF Locks, Follows

(* The handlers of an event lock nothing.                                    *)
LEMMA ActLocks ==
    ASSUME TypeOK, NEW n \in Nodes, NEW v \in Values
    PROVE  Act(n, v) \in Seq(Ops) /\ Locks(Act(n, v)) = {} /\ Follows(Act(n, v))
<1>1. Act(n, v) \in Seq(Ops)
  BY ActType
<1>2. reactions[n] \in Seq(Handlers)
  BY DEF TypeOK
<1>3. DOMAIN Act(n, v) = DOMAIN reactions[n]
  BY DEF Act
<1>4. ASSUME NEW i \in DOMAIN reactions[n] PROVE Act(n, v)[i].do # "lock"
  <2>1. reactions[n][i] \in Handlers
    BY <1>2
  <2>2. Act(n, v)[i].do = reactions[n][i].do
    BY DEF Act
  <2> QED
    BY <2>1, <2>2 DEF Handlers
<1>5. Locks(Act(n, v)) = {}
  BY <1>3, <1>4 DEF Locks
<1> QED
  BY <1>1, <1>5, NoLocks

(* What a field does once its handlers were called.                          *)
LEMMA ThenLocks ==
    ASSUME NEW f \in Fields
    PROVE  /\ Then("changed", f) \in Seq(Ops) /\ Locks(Then("changed", f)) = {}
           /\ Then("lock", f) \in Seq(Ops) /\ Locks(Then("lock", f)) = {f}
           /\ Follows(Then("changed", f)) /\ Follows(Then("changed", f) \o Then("lock", f))
           /\ Kind[f] = "radio" => Follows(Then("lock", f))
<1>1. PICK c, l : /\ c = [do |-> "changed", node |-> f, to |-> 0]
                  /\ l = [do |-> "lock", node |-> f, to |-> 0]
  OBVIOUS
<1>2. /\ Then("changed", f) = <<c>> /\ Then("lock", f) = <<l>>
      /\ c.do = "changed" /\ c.node = f /\ l.do = "lock" /\ l.node = f
  BY <1>1 DEF Then
<1>3. Then("changed", f) \in Seq(Ops) /\ Then("lock", f) \in Seq(Ops)
  BY ThenType
<1>4. DOMAIN <<c>> = {1} /\ DOMAIN <<l>> = {1}
  OBVIOUS
<1>5. Locks(<<c>>) = {} /\ Locks(<<l>>) = {f}
  BY <1>2, <1>4 DEF Locks
<1>6. Follows(<<c>>) /\ (Kind[f] = "radio" => Follows(<<l>>))
  <2>1. \A i \in {1} : <<c>>[i].do # "lock"
    BY <1>2
  <2>2. \A i \in {1} : <<l>>[i].node = f
    BY <1>2
  <2> QED
    BY <1>4, <2>1, <2>2 DEF Follows
<1>7. Follows(<<c>> \o <<l>>)
  <2>1. PICK s, t, w : s = <<c>> /\ t = <<l>> /\ w = s \o t
    OBVIOUS
  <2>2. s \in Seq(Ops) /\ t \in Seq(Ops) /\ Len(s) = 1 /\ Len(t) = 1 /\ s[1] = c /\ t[1] = l
    BY <1>2, <1>3, <2>1
  <2>3. DOMAIN w = 1..2 /\ w[1] = c /\ w[1 + 1] = l
    BY <2>1, <2>2
  <2>4. \A i \in 1..2 : i = 1 \/ (i = 2 /\ i > 1 /\ i - 1 = 1)
    OBVIOUS
  <2>5. Follows(w)
    BY <1>2, <2>3, <2>4 DEF Follows
  <2> QED
    BY <2>1, <2>5
<1> QED
  BY <1>2, <1>3, <1>4, <1>5, <1>6, <1>7

(* What a field does when it is set is to tell that it changed, before it is *)
(* locked.                                                                   *)
LEMMA FieldLocks ==
    ASSUME NEW f \in Fields, NEW act \in Seq(Ops), Locks(act) = {}, Follows(act),
           NEW last, last = Then("lock", f) \/ last = <<>>, NEW rest \in Seq(Ops), Follows(rest)
    PROVE  /\ Follows(act \o Then("changed", f) \o last \o rest)
           /\ Locks(act \o Then("changed", f) \o last \o rest) =
                 Locks(rest) \cup (IF last = <<>> THEN {} ELSE {f})
<1>1. PICK c : c = Then("changed", f)
  OBVIOUS
<1>2. c \in Seq(Ops) /\ Locks(c) = {} /\ Follows(c)
  BY <1>1, ThenLocks
<1>3. last \in Seq(Ops) /\ Locks(last) = (IF last = <<>> THEN {} ELSE {f})
  <2>1. <<>> \in Seq(Ops) /\ Locks(<<>>) = {} /\ Then("lock", f) # <<>>
    BY DEF Locks, Then
  <2> QED
    BY <2>1, ThenLocks
<1>4. PICK d : d = c \o last
  OBVIOUS
<1>5. d \in Seq(Ops) /\ Locks(d) = Locks(last)
  <2>1. c \o last \in Seq(Ops) /\ Locks(c \o last) = Locks(c) \cup Locks(last)
    BY <1>2, <1>3, ConcatFollows
  <2> QED
    BY <1>2, <1>4, <2>1
<1>6. Follows(d)
  <2>1. CASE last = <<>>
    <3>1. d = c
      BY <1>2, <1>4, <2>1
    <3> QED
      BY <1>2, <3>1
  <2>2. CASE last = Then("lock", f)
    BY <1>1, <1>4, <2>2, ThenLocks
  <2> QED
    BY <2>1, <2>2
<1>7. act \o c \o last \o rest = (act \o d) \o rest
  BY <1>2, <1>3, <1>4
<1>8. act \o d \in Seq(Ops) /\ Locks(act \o d) = Locks(last) /\ Follows(act \o d)
  <2>1. /\ act \o d \in Seq(Ops) /\ Locks(act \o d) = Locks(act) \cup Locks(d)
        /\ Follows(act \o d)
    BY <1>5, <1>6, ConcatFollows
  <2> QED
    BY <1>5, <2>1
<1>9. /\ Locks((act \o d) \o rest) = Locks(last) \cup Locks(rest)
      /\ Follows((act \o d) \o rest)
  <2>1. PICK u : u = act \o d
    OBVIOUS
  <2>2. Locks(u \o rest) = Locks(u) \cup Locks(rest) /\ Follows(u \o rest)
    BY <1>8, <2>1, ConcatFollows
  <2> QED
    BY <1>8, <2>1, <2>2
<1> QED
  BY <1>1, <1>3, <1>7, <1>9

(* The event that is acted next, and the locks of those after it.            *)
LEMMA HeadLocks ==
    ASSUME TypeOK, LocksFollow, todo # <<>>
    PROVE  /\ Head(todo).do = "lock" => Locks(todo) = Locks(Tail(todo)) \cup {Head(todo).node}
           /\ Head(todo).do # "lock" => Locks(todo) = Locks(Tail(todo))
           /\ Head(todo).do # "changed" => Follows(Tail(todo))
           /\ Head(todo).do = "lock" /\ Kind[Head(todo).node] # "radio" => Told(Head(todo).node)
<1>0. PICK s, t, L : s = todo /\ t = Tail(todo) /\ L = Len(todo)
  OBVIOUS
<1>1. /\ s \in Seq(Ops) /\ L \in Nat \ {0} /\ DOMAIN s = 1..L /\ DOMAIN t = 1..(L - 1)
      /\ Head(s) = s[1] /\ \A i \in 1..(L - 1) : t[i] = s[i + 1]
  BY <1>0 DEF TypeOK
<1>2. \A i \in DOMAIN t : i + 1 \in DOMAIN s /\ t[i] = s[i + 1]
  BY <1>1
<1>3. \A i \in DOMAIN s : i = 1 \/ (i - 1 \in DOMAIN t /\ t[i - 1] = s[i])
  BY <1>1
<1>4. Locks(t) \subseteq Locks(s)
  <2>1. ASSUME NEW i \in DOMAIN t, t[i].do = "lock" PROVE t[i].node \in Locks(s)
    BY <1>2, <2>1 DEF Locks
  <2> QED
    BY <2>1 DEF Locks
<1>5. ASSUME NEW x \in Locks(s) PROVE x \in Locks(t) \/ (s[1].do = "lock" /\ s[1].node = x)
  <2>1. PICK i \in DOMAIN s : s[i].do = "lock" /\ s[i].node = x
    BY <1>5 DEF Locks
  <2>2. CASE i = 1
    BY <2>1, <2>2
  <2>3. CASE i - 1 \in DOMAIN t /\ t[i - 1] = s[i]
    BY <2>1, <2>3 DEF Locks
  <2> QED
    BY <1>3, <2>2, <2>3
<1>6. 1 \in DOMAIN s /\ (s[1].do = "lock" => s[1].node \in Locks(s))
  BY <1>1 DEF Locks
<1>7. \A i \in DOMAIN s : s[i].do = "lock" /\ Kind[s[i].node] # "radio" =>
        \/ i > 1 /\ s[i - 1].do = "changed" /\ s[i - 1].node = s[i].node
        \/ i = 1 /\ Told(s[i].node)
  BY <1>0 DEF LocksFollow
<1>8. ASSUME s[1].do # "changed", NEW i \in DOMAIN t, t[i].do = "lock", Kind[t[i].node] # "radio"
      PROVE  i > 1 /\ t[i - 1].do = "changed" /\ t[i - 1].node = t[i].node
  <2>1. i \in 1..(L - 1) /\ i + 1 > 1 /\ (i + 1) - 1 = i /\ i + 1 # 1
    BY <1>1
  <2>2. i + 1 \in DOMAIN s /\ s[i + 1].do = "lock" /\ Kind[s[i + 1].node] # "radio" /\ t[i] = s[i + 1]
    BY <1>2, <1>8
  <2>3. s[i].do = "changed" /\ s[i].node = t[i].node
    <3>1. s[(i + 1) - 1].do = "changed" /\ s[(i + 1) - 1].node = s[i + 1].node
      BY <1>7, <2>1, <2>2
    <3> QED
      BY <2>1, <2>2, <3>1
  <2>4. i # 1
    BY <1>8, <2>3
  <2>5. i - 1 \in DOMAIN t /\ t[i - 1] = s[i] /\ i > 1
    BY <1>1, <2>1, <2>4
  <2> QED
    BY <2>3, <2>5
<1>9. Head(s).do = "lock" => Locks(s) = Locks(t) \cup {Head(s).node}
  BY <1>1, <1>4, <1>5, <1>6
<1>10. Head(s).do # "lock" => Locks(s) = Locks(t)
  BY <1>1, <1>4, <1>5
<1>11. Head(s).do # "changed" => Follows(t)
  BY <1>1, <1>8 DEF Follows
<1>12. Head(s).do = "lock" /\ Kind[Head(s).node] # "radio" => Told(Head(s).node)
  BY <1>1, <1>6, <1>7
<1> QED
  BY <1>0, <1>9, <1>10, <1>11, <1>12

(* The next lock, after a field announced that it changed, is its own.       *)
LEMMA LockAfterChange ==
    ASSUME TypeOK, LocksFollow, todo # <<>>,
           NEW i \in DOMAIN Tail(todo), Tail(todo)[i].do = "lock", Kind[Tail(todo)[i].node] # "radio"
    PROVE  \/ i > 1 /\ Tail(todo)[i - 1].do = "changed" /\ Tail(todo)[i - 1].node = Tail(todo)[i].node
           \/ i = 1 /\ Tail(todo)[i].node = Head(todo).node
<1>0. PICK s, t, L : s = todo /\ t = Tail(todo) /\ L = Len(todo)
  OBVIOUS
<1>1. /\ s \in Seq(Ops) /\ L \in Nat \ {0} /\ DOMAIN s = 1..L /\ DOMAIN t = 1..(L - 1)
      /\ Head(s) = s[1] /\ \A j \in 1..(L - 1) : t[j] = s[j + 1]
  BY <1>0 DEF TypeOK
<1>2. i \in 1..(L - 1) /\ i + 1 \in DOMAIN s /\ (i + 1) - 1 = i /\ i + 1 # 1 /\ t[i] = s[i + 1]
  BY <1>0, <1>1
<1>3. s[(i + 1) - 1].do = "changed" /\ s[(i + 1) - 1].node = s[i + 1].node
  BY <1>0, <1>2 DEF LocksFollow
<1>4. s[i].do = "changed" /\ s[i].node = t[i].node
  BY <1>2, <1>3
<1>5. CASE i = 1
  BY <1>0, <1>1, <1>4, <1>5
<1>6. CASE i # 1
  <2>1. i - 1 \in 1..(L - 1) /\ t[i - 1] = s[i] /\ i > 1
    BY <1>1, <1>2, <1>6
  <2> QED
    BY <1>0, <1>4, <2>1
<1> QED
  BY <1>5, <1>6

-----------------------------------------------------------------------------
(* What no event touched after one was not touched before.                   *)
LEMMA TouchedStays ==
    ASSUME decided \subseteq decided'
    PROVE  \A n : Untouched(n)' => Untouched(n)
BY DEF Untouched

(* An event leaves alone what is asked and how far the round has gone, and   *)
(* all that it does not touch.                                               *)
LEMMA EventGoesOn ==
    ASSUME TypeOK, Invs, Requested, todo # <<>>, Aside, UNCHANGED last_body,
           decided \subseteq decided',
           \A n \in Nodes : body_changed[n] => body_changed'[n],
           \A n \in Nodes : Kind[n] = "button" /\ Untouched(n)' /\ body_changed'[n] => body_changed[n],
           \A n \in Emitters : Untouched(n)' => (Shown(n)' <=> Shown(n)),
           \A n \in Fields : Untouched(n)' =>
              value'[n] = value[n] /\ enabled'[n] = enabled[n] /\ value_set'[n] = value_set[n],
           EnteredOK', LockedOK', SeenOK', LocksFollow', UnlockOK', UpOK'
    PROVE  Requested'
<1>1. /\ UNCHANGED <<stack, stage, request, loop, seen, acted, last_body>>
      /\ stack # <<>> /\ stage = "building"
  BY DEF Aside, Invs, StackOK
<1>2. \A n : Untouched(n)' => Untouched(n)
  BY TouchedStays
<1>3. \A n : IsPostedTo(n)' <=> IsPostedTo(n)
  BY <1>1 DEF IsPostedTo, PostIsFor
<1>4. Fields \subseteq Nodes /\ Emitters \subseteq Nodes /\ Fields \subseteq Emitters
  BY FieldsAreNodes DEF Emitters
<1>5. Unvisited(stack) \subseteq Nodes
  BY DEF Unvisited, Ahead, Below
<1>6. PathOK'
  <2>1. (Top.node)' = Top.node /\ Entered(stack') = Entered(stack)
    BY <1>1 DEF Top
  <2> QED
    BY <1>1, <2>1 DEF Requested, PathOK
<1>7. RoundOK'
  BY <1>1, <1>3 DEF Requested, RoundOK
<1>8. RequestOK'
  BY <1>1 DEF Requested, RequestOK
<1>9. FreshOK'
  BY <1>1, <1>5 DEF Requested, FreshOK
<1>10. AskedOK' /\ Asked /\ Asked'
  BY <1>1 DEF AskedOK, Asked
<1>11. UntouchedOK'
  BY <1>1, <1>2, <1>4, <1>10 DEF Requested, UntouchedOK
<1>12. TakenOK'
  <2>1. ASSUME NEW n \in seen \cap Fields, IsPosted(n)'
        PROVE  (loop = 0 /\ n \in Unvisited(stack)) \/ value'[n] = Posted(n)'
    <3>1. IsPosted(n) /\ Untouched(n)'
      BY <1>1, <1>2, <1>3, <2>1 DEF IsPosted
    <3>2. value'[n] = value[n] /\ Posted(n)' = Posted(n)
      BY <1>1, <3>1 DEF Posted
    <3> QED
      BY <1>10, <3>1, <3>2 DEF Requested, TakenOK
  <2> QED
    BY <1>1, <2>1 DEF TakenOK
<1>13. RestOK'
  BY <1>1 DEF RestOK
<1>14. PICK t : t = request.target
  OBVIOUS
<1>15. t \in Nodes /\ Key' = Key
  BY <1>1, <1>14 DEF TypeOK, Key
<1>16. ButtonOK'
  <2>1. ASSUME Kind[t] = "button", Untouched(t)'
        PROVE  IF t \notin seen THEN acted = 0
               ELSE \/ acted = 0 /\ loop = 0 /\ t \in Unvisited(stack)
                    \/ /\ acted = 1 /\ ~body_changed'[t]
                       /\ t \in Entered(stack) \/ last_body[t].key = Key
    <3>1. Untouched(t) /\ (~body_changed[t] => ~body_changed'[t])
      BY <1>2, <1>15, <2>1
    <3> QED
      BY <1>10, <1>14, <2>1, <3>1 DEF Requested, ButtonOK
  <2> QED
    BY <1>1, <1>14, <1>15, <2>1 DEF ButtonOK
<1>17. FormOK'
  <2>1. ASSUME Kind[t] = "form", Untouched(t)' PROVE Untouched(t)
    BY <1>2, <2>1
  <2> QED
    BY <1>1, <1>10, <1>14, <2>1 DEF Requested, FormOK
<1> QED
  BY <1>6, <1>7, <1>8, <1>9, <1>10, <1>11, <1>12, <1>13, <1>16, <1>17 DEF Requested

(* A component is shown or hidden.                                           *)
LEMMA SetVisibleGoesOn ==
    ASSUME TypeOK, Invs, Requested, todo # <<>>, SetVisible(Head(todo)), Aside
    PROVE  Requested'
<1>0. PICK x, b : x = Head(todo).node /\ b = (Head(todo).to = 1)
  OBVIOUS
<1>1. /\ x \in Nodes /\ Head(todo).do = "visible" /\ todo' = Tail(todo)
      /\ UNCHANGED <<last_body, value, enabled, value_set, stack, loop, seen>>
      /\ visible' = [visible EXCEPT ![x] = b]
      /\ decided' = decided \cup {<<"visible", n>> : n \in Below(x)}
  BY <1>0, HeadOfTodo DEF SetVisible, fields, Decide, Aside
<1>2. \A n \in Nodes : n # x => visible'[n] = visible[n]
  BY <1>1 DEF TypeOK
<1>3. /\ \A n \in Nodes : /\ Obsolete(n) => Obsolete(n)'
                          /\ body_changed[n] => body_changed'[n]
                          /\ visible'[n] /\ ~visible[n] => body_changed'[n]
                          /\ body_changed'[n] /\ ~body_changed[n] => n \in Lineage[x]
      /\ \A c, p \in Nodes :
            IsChild(c, p) /\ body_changed'[c] /\ ~body_changed[c] /\ visible'[p] => body_changed'[p]
  BY <1>0, SetVisibleKeeps
<1>4. \A n \in Nodes : <<"visible", n>> \notin decided' => x \notin Lineage[n]
  BY <1>1 DEF Below
<1>5. \A n \in Nodes : <<"visible", n>> \notin decided' => (Shown(n)' <=> Shown(n))
  <2>1. ASSUME NEW n \in Nodes, <<"visible", n>> \notin decided', NEW m \in Lineage[n]
        PROVE  visible'[m] = visible[m]
    BY <1>2, <1>4, <2>1, LineageSelf
  <2> QED
    BY <2>1 DEF Shown
<1>6. Fields \subseteq Nodes /\ Emitters \subseteq Nodes
  BY FieldsAreNodes DEF Emitters
<1>7. Locks(todo') = Locks(todo) /\ Follows(todo')
  BY <1>1, HeadLocks DEF Requested
<1>8. EnteredOK'
  <2>1. ASSUME NEW n \in Entered(stack) PROVE ShownOrDecided(n)'
    <3>1. ShownOrDecided(n) /\ n \in Nodes
      BY <2>1, FrameType DEF Requested, EnteredOK, Entered
    <3>2. CASE n = x
      BY <1>1, <3>2 DEF ShownOrDecided
    <3>3. CASE n # x
      BY <1>1, <1>2, <3>1, <3>3 DEF ShownOrDecided
    <3> QED
      BY <3>2, <3>3
  <2> QED
    BY <1>1, <2>1 DEF EnteredOK
<1>9. LockedOK'
  BY <1>1 DEF Requested, LockedOK
<1>10. SeenOK'
  <2>1. \A n \in Nodes : <<"visible", n>> \notin decided' => <<"visible", n>> \notin decided
    BY <1>1
  <2> QED
    BY <1>1, <1>5, <1>6, <1>7, <2>1 DEF Requested, SeenOK
<1>11. LocksFollow'
  BY <1>7 DEF LocksFollow, Follows
<1>12. UnlockOK'
  <2>1. \A n \in Nodes : Told(n) => Told(n)'
    BY <1>3 DEF Told
  <2>2. Inputs \subseteq Nodes
    BY <1>6 DEF Inputs
  <2> QED
    BY <1>1, <2>1, <2>2 DEF Requested, UnlockOK
<1>13. UpOK'
  <2> SUFFICES ASSUME NEW p \in Nodes, NEW c \in Nodes, IsChild(c, p), body_changed'[c], visible'[p]
               PROVE  Obsolete(p)' \/ (p \in Entered(stack) /\ c \in Unvisited(stack))
    BY <1>1 DEF UpOK
  <2>1. CASE ~body_changed[c] \/ ~visible[p]
    BY <1>3, <2>1 DEF Obsolete
  <2>2. CASE body_changed[c] /\ visible[p]
    BY <1>3, <2>2 DEF Requested, UpOK
  <2> QED
    BY <2>1, <2>2
<1>14. ASSUME NEW n \in Nodes, Kind[n] = "button", Untouched(n)', body_changed'[n]
       PROVE  body_changed[n]
  <2>1. SUFFICES ASSUME n \in Lineage[x] PROVE FALSE
    BY <1>3, <1>14
  <2>2. x = n
    BY <1>1, <1>14, <2>1, NothingBelowButton
  <2>3. <<"visible", n>> \in decided'
    BY <1>1, <2>2, LineageSelf DEF Below
  <2> QED
    BY <1>14, <2>3 DEF Untouched
<1>15. \A n \in Emitters : Untouched(n)' => (Shown(n)' <=> Shown(n))
  BY <1>5, <1>6 DEF Untouched
<1> QED
  BY <1>1, <1>3, <1>8, <1>9, <1>10, <1>11, <1>12, <1>13, <1>14, <1>15, EventGoesOn

(* A field is set, enabled or disabled: nothing is told yet.                 *)
LEMMA FieldGoesOn ==
    ASSUME TypeOK, Invs, Requested, todo # <<>>, Aside, NEW x \in Fields,
           UNCHANGED <<visible, body_changed, last_body, value_set>>,
           \A m \in Fields : m # x => value'[m] = value[m] /\ enabled'[m] = enabled[m],
           decided' = decided \cup {<<"set", x>>},
           Kind[x] = "radio" \/ enabled'[x] = enabled[x] \/ x \in Locks(todo'),
           Locks(todo) \subseteq Locks(todo'), Follows(todo'),
           Announced(todo) \subseteq Announced(todo')
    PROVE  Requested'
<1>1. UNCHANGED <<stack, loop, seen>>
  BY DEF Aside
<1>2. \A n \in Nodes : (Shown(n)' <=> Shown(n)) /\ (Obsolete(n) => Obsolete(n)')
  BY DEF Shown, Obsolete
<1>3. Fields \subseteq Nodes /\ Emitters \subseteq Nodes
  BY FieldsAreNodes DEF Emitters
<1>4. \A n : /\ <<"visible", n>> \in decided' <=> <<"visible", n>> \in decided
             /\ <<"lock", n>> \in decided' <=> <<"lock", n>> \in decided
  OBVIOUS
<1>5. EnteredOK'
  BY <1>1, <1>4 DEF Requested, EnteredOK, ShownOrDecided
<1>6. LockedOK'
  BY <1>1, <1>4 DEF Requested, LockedOK
<1>7. SeenOK'
  <2>1. ASSUME loop = 0, NEW n \in Fields \cap Unvisited(stack)
        PROVE  \/ Kind[n] # "check" \/ n \in seen \/ <<"visible", n>> \in decided'
               \/ ~Shown(n)' \/ ~enabled'[n] \/ value_set'[n] \/ n \in Locks(todo')
    <3>1. \/ Kind[n] # "check" \/ n \in seen \/ <<"visible", n>> \in decided
          \/ ~Shown(n) \/ ~enabled[n] \/ value_set[n] \/ n \in Locks(todo)
      BY <2>1 DEF Requested, SeenOK
    <3>2. Kind[n] = "check" => enabled'[n] = enabled[n] \/ n \in Locks(todo')
      OBVIOUS
    <3> QED
      BY <1>2, <1>3, <1>4, <3>1, <3>2
  <2> QED
    BY <1>1, <2>1 DEF SeenOK
<1>8. LocksFollow'
  BY DEF LocksFollow, Follows
<1>9. UnlockOK'
  BY <1>1 DEF Requested, UnlockOK, Told
<1>10. UpOK'
  BY <1>1, <1>2 DEF Requested, UpOK
<1>11. \A n \in Fields : Untouched(n)' => n # x
  BY DEF Untouched
<1> QED
  BY <1>2, <1>3, <1>5, <1>6, <1>7, <1>8, <1>9, <1>10, <1>11, EventGoesOn

(* A field is set.                                                           *)
LEMMA SetValueGoesOn ==
    ASSUME TypeOK, Invs, Requested, todo # <<>>, SetValue(Head(todo)), Aside
    PROVE  Requested'
<1>0. PICK x, v, rest : x = Head(todo).node /\ v = Head(todo).to /\ rest = Tail(todo)
  OBVIOUS
<1>1. /\ x \in Fields /\ x \in Nodes /\ v \in Values /\ rest \in Seq(Ops)
      /\ Announced(todo) = Announced(rest)
  BY <1>0, HeadOfTodo DEF SetValue
<1>2. Locks(todo) = Locks(rest) /\ Follows(rest)
  BY <1>0, HeadLocks DEF Requested, SetValue
<1>3. /\ UNCHANGED <<visible, body_changed, last_body, value_set, enabled>>
      /\ \A m \in Fields : m # x => value'[m] = value[m]
      /\ decided' = decided \cup {<<"set", x>>}
  BY <1>0 DEF SetValue, tree, TypeOK, Decide
<1>4. Locks(todo) \subseteq Locks(todo') /\ Follows(todo') /\ Announced(todo) \subseteq Announced(todo')
  <2>1. PICK act, last : act = Act(x, v) /\ last = Then("lock", x)
    OBVIOUS
  <2>2. act \in Seq(Ops) /\ Announced(act) = {} /\ Locks(act) = {} /\ Follows(act)
    BY <1>1, <2>1, ActType, ActLocks
  <2>3. last \in Seq(Ops) /\ Announced(last) = {}
    BY <1>1, <2>1, ThenType
  <2>4. CASE todo' = act \o Then("changed", x) \o last \o rest
    <3>1. Announced(act \o Then("changed", x) \o last \o rest) = Announced(rest) \cup {x}
      BY <1>1, <2>2, <2>3, FieldReacts
    <3>2. /\ Follows(act \o Then("changed", x) \o last \o rest)
          /\ Locks(rest) \subseteq Locks(act \o Then("changed", x) \o last \o rest)
      BY <1>1, <1>2, <2>1, <2>2, FieldLocks
    <3> QED
      BY <1>1, <1>2, <2>4, <3>1, <3>2
  <2>5. CASE Kind[x] = "radio" /\ todo' = last \o rest
    <3>1. Locks(last \o rest) = Locks(last) \cup Locks(rest) /\ Follows(last \o rest)
      BY <1>1, <1>2, <2>1, <2>3, <2>5, ThenLocks, ConcatFollows
    <3>2. Announced(last \o rest) = Announced(last) \cup Announced(rest)
      BY <1>1, <2>3, ConcatAnnounced
    <3> QED
      BY <1>1, <1>2, <2>5, <3>1, <3>2
  <2>6. CASE todo' = rest
    BY <1>1, <1>2, <2>6
  <2> QED
    BY <1>0, <2>1, <2>4, <2>5, <2>6 DEF SetValue
<1> QED
  BY <1>1, <1>3, <1>4, FieldGoesOn

(* A field is enabled or disabled.                                           *)
LEMMA SetEnabledGoesOn ==
    ASSUME TypeOK, Invs, Requested, todo # <<>>, SetEnabled(Head(todo)), Aside
    PROVE  Requested'
<1>0. PICK x, v, rest : x = Head(todo).node /\ v = value[x] /\ rest = Tail(todo)
  OBVIOUS
<1>1. /\ x \in Fields /\ x \in Nodes /\ v \in Values /\ rest \in Seq(Ops)
      /\ Announced(todo) = Announced(rest)
  BY <1>0, HeadOfTodo DEF SetEnabled, TypeOK
<1>2. Locks(todo) = Locks(rest) /\ Follows(rest)
  BY <1>0, HeadLocks DEF Requested, SetEnabled
<1>3. /\ UNCHANGED <<visible, body_changed, last_body, value_set, value>>
      /\ \A m \in Fields : m # x => enabled'[m] = enabled[m]
      /\ decided' = decided \cup {<<"set", x>>}
  BY <1>0 DEF SetEnabled, tree, TypeOK, Decide
<1>4. /\ Locks(todo) \subseteq Locks(todo') /\ Follows(todo') /\ Announced(todo) \subseteq Announced(todo')
      /\ Kind[x] = "radio" \/ enabled'[x] = enabled[x] \/ x \in Locks(todo')
  <2>1. PICK act, last : act = Act(x, v) /\ last = IF Kind[x] = "radio" THEN <<>> ELSE Then("lock", x)
    OBVIOUS
  <2>2. act \in Seq(Ops) /\ Announced(act) = {} /\ Locks(act) = {} /\ Follows(act)
    BY <1>1, <2>1, ActType, ActLocks
  <2>3. last \in Seq(Ops) /\ Announced(last) = {} /\ (last = <<>> \/ last = Then("lock", x))
        /\ (Kind[x] = "radio" \/ last # <<>>)
    <3>1. <<>> \in Seq(Ops) /\ Announced(<<>>) = {} /\ Then("lock", x) # <<>>
      BY DEF Announced, Then
    <3> QED
      BY <1>1, <2>1, <3>1, ThenType
  <2>4. CASE todo' = act \o Then("changed", x) \o last \o rest
    <3>1. Announced(act \o Then("changed", x) \o last \o rest) = Announced(rest) \cup {x}
      BY <1>1, <2>2, <2>3, FieldReacts
    <3>2. /\ Follows(act \o Then("changed", x) \o last \o rest)
          /\ Locks(act \o Then("changed", x) \o last \o rest) =
                Locks(rest) \cup (IF last = <<>> THEN {} ELSE {x})
      BY <1>1, <1>2, <2>2, <2>3, FieldLocks
    <3> QED
      BY <1>1, <1>2, <2>3, <2>4, <3>1, <3>2
  <2>5. CASE enabled' = enabled /\ todo' = rest
    BY <1>1, <1>2, <2>5
  <2> QED
    BY <1>0, <2>1, <2>4, <2>5 DEF SetEnabled
<1> QED
  BY <1>1, <1>3, <1>4, FieldGoesOn

(* A field tells that it changed.                                            *)
LEMMA HasChangedGoesOn ==
    ASSUME TypeOK, Invs, Requested, todo # <<>>, HasChanged(Head(todo)), Aside
    PROVE  Requested'
<1>0. PICK x, R : x = Head(todo).node /\ R = Notified(x, visible)
  OBVIOUS
<1>1. /\ x \in Fields /\ x \in Nodes /\ Head(todo).do = "changed" /\ todo' = Tail(todo)
      /\ UNCHANGED <<visible, last_body, value, enabled, value_set, decided, stack, loop, seen>>
      /\ Announced(todo) = Announced(todo') \cup {x}
  BY <1>0, HeadOfTodo DEF HasChanged, fields, Aside
<1>2. \A n \in Nodes : body_changed'[n] <=> body_changed[n] \/ n \in R
  BY <1>0 DEF HasChanged, Mark, TypeOK
<1>3. \A n \in Nodes : (Shown(n)' <=> Shown(n)) /\ (Obsolete(n)' <=> Obsolete(n)) /\ (Untouched(n)' <=> Untouched(n))
  BY <1>0, <1>1, <1>2 DEF Shown, Obsolete, Untouched
<1>4. Fields \subseteq Nodes /\ Emitters \subseteq Nodes
  BY FieldsAreNodes DEF Emitters
<1>5. Locks(todo') = Locks(todo)
  BY <1>1, HeadLocks DEF Requested
<1>6. EnteredOK'
  BY <1>1 DEF Requested, EnteredOK, ShownOrDecided
<1>7. LockedOK'
  BY <1>1 DEF Requested, LockedOK
<1>8. SeenOK'
  BY <1>1, <1>3, <1>4, <1>5 DEF Requested, SeenOK
<1>9. LocksFollow'
  <2>1. Told(x)'
    <3>1. visible[x] => x \in R
      BY <1>0, <1>1, NoCycle, LineageSelf DEF Notified
    <3> QED
      BY <1>1, <1>2, <3>1 DEF Told
  <2> SUFFICES ASSUME NEW i \in DOMAIN todo', todo'[i].do = "lock", Kind[todo'[i].node] # "radio"
               PROVE  \/ i > 1 /\ todo'[i - 1].do = "changed" /\ todo'[i - 1].node = todo'[i].node
                      \/ i = 1 /\ (body_changed'[todo'[i].node] \/ ~visible'[todo'[i].node])
    BY DEF LocksFollow, Told
  <2>2. \/ i > 1 /\ todo'[i - 1].do = "changed" /\ todo'[i - 1].node = todo'[i].node
        \/ i = 1 /\ todo'[i].node = x
    BY <1>0, <1>1, LockAfterChange DEF Requested
  <2>3. CASE i = 1 /\ todo'[i].node = x
    BY <2>1, <2>3 DEF Told
  <2> QED
    BY <2>2, <2>3
<1>10. UnlockOK'
  <2>1. Inputs \subseteq Nodes
    BY <1>4 DEF Inputs
  <2> QED
    BY <1>1, <1>2, <2>1 DEF Requested, UnlockOK, Told
<1>11. UpOK'
  <2> SUFFICES ASSUME NEW p \in Nodes, NEW c \in Nodes, IsChild(c, p), body_changed'[c], visible[p]
               PROVE  Obsolete(p)' \/ (p \in Entered(stack) /\ c \in Unvisited(stack))
    BY <1>1 DEF UpOK
  <2>1. CASE c \in R
    <3>1. p \in R
      BY <1>0, <1>1, <2>1, TellsUp
    <3> QED
      BY <1>2, <3>1 DEF Obsolete
  <2>2. CASE body_changed[c]
    BY <1>3, <2>2 DEF Requested, UpOK
  <2> QED
    BY <1>2, <2>1, <2>2
<1>12. ASSUME NEW n \in Nodes, Kind[n] = "button", body_changed'[n] PROVE body_changed[n]
  <2>1. SUFFICES ASSUME n \in R PROVE FALSE
    BY <1>2, <1>12
  <2>2. x = n
    BY <1>0, <1>1, <1>12, <2>1, NothingBelowButton DEF Notified
  <2> QED
    BY <1>1, <1>12, <2>2 DEF Fields
<1> QED
  BY <1>1, <1>2, <1>3, <1>4, <1>6, <1>7, <1>8, <1>9, <1>10, <1>11, <1>12, EventGoesOn

(* A field is locked.                                                        *)
LEMMA LockGoesOn ==
    ASSUME TypeOK, Invs, Requested, todo # <<>>, Lock(Head(todo)), Aside
    PROVE  Requested'
<1>0. PICK x : x = Head(todo).node
  OBVIOUS
<1>1. /\ x \in Fields /\ x \in Nodes /\ Head(todo).do = "lock" /\ todo' = Tail(todo)
      /\ UNCHANGED <<visible, body_changed, last_body, value, enabled, stack, loop, seen>>
      /\ decided' = decided \cup {<<"lock", x>>} /\ value_set'[x] = TRUE
      /\ \A n \in Fields : n # x => value_set'[n] = value_set[n]
      /\ Announced(todo) = Announced(todo')
  BY <1>0, HeadOfTodo DEF Lock, tree, Aside, Decide, TypeOK
<1>2. \A n \in Nodes : (Shown(n)' <=> Shown(n)) /\ (Obsolete(n)' <=> Obsolete(n))
  BY <1>1 DEF Shown, Obsolete
<1>3. Fields \subseteq Nodes /\ Emitters \subseteq Nodes
  BY FieldsAreNodes DEF Emitters
<1>4. Locks(todo) = Locks(todo') \cup {x} /\ Follows(todo') /\ (Kind[x] # "radio" => Told(x))
  BY <1>0, <1>1, HeadLocks DEF Requested
<1>5. \A n : <<"visible", n>> \in decided' <=> <<"visible", n>> \in decided
  BY <1>1
<1>6. EnteredOK'
  BY <1>1, <1>5 DEF Requested, EnteredOK, ShownOrDecided
<1>7. LockedOK'
  <2>1. \A n \in Fields : <<"lock", n>> \in decided' => n = x \/ <<"lock", n>> \in decided
    BY <1>1
  <2> QED
    BY <1>1, <2>1 DEF Requested, LockedOK
<1>8. SeenOK'
  BY <1>1, <1>2, <1>3, <1>4, <1>5 DEF Requested, SeenOK
<1>9. LocksFollow'
  BY <1>4 DEF LocksFollow, Follows
<1>10. UnlockOK'
  BY <1>1, <1>4 DEF Requested, UnlockOK, Told, Inputs
<1>11. UpOK'
  BY <1>1, <1>2 DEF Requested, UpOK
<1>12. \A n \in Fields : Untouched(n)' => n # x
  BY <1>1 DEF Untouched
<1> QED
  BY <1>1, <1>2, <1>3, <1>6, <1>7, <1>8, <1>9, <1>10, <1>11, <1>12, EventGoesOn

-----------------------------------------------------------------------------
(* The text of a component is taken from its cache.                          *)
LEMMA FromCacheGoesOn ==
    ASSUME TypeOK, Invs, Requested, FromCache
    PROVE  Requested'
<1>0. PICK n, text : n = Top.node /\ text = IF visible[n] THEN last_body[n].text ELSE {}
  OBVIOUS
<1>1. /\ stage = "building" /\ todo = <<>> /\ stack # <<>> /\ Top.next = 0 /\ ~body_changed[n]
      /\ Return(text)
      /\ UNCHANGED <<visible, body_changed, last_body, value, enabled, value_set, stage, request,
                     loop, todo, seen, decided, acted>>
  BY <1>0 DEF FromCache, Begins, IsCached, tree, fields, history
<1>2. n \in Nodes /\ text \in SUBSET Parts
  BY <1>0, <1>1, TopType DEF TypeOK
<1>3. loop # 0
  <2>1. n \in Unvisited(stack)
    BY <1>0, <1>1, <1>2, CallsNow, LineageSelf DEF Below
  <2> QED
    BY <1>1, <2>1 DEF Requested, FreshOK
<1> QED
  BY <1>0, <1>1, <1>2, <1>3, PassesOver

(* A hidden component is not evaluated.                                      *)
LEMMA SkipGoesOn ==
    ASSUME TypeOK, Invs, Requested, Skip
    PROVE  Requested'
<1>0. PICK n, text : n = Top.node /\ text = {}
  OBVIOUS
<1>1. /\ stage = "building" /\ todo = <<>> /\ stack # <<>> /\ Top.next = 0 /\ ~visible[n]
      /\ body_changed' = [body_changed EXCEPT ![n] = FALSE]
      /\ Return(text) /\ text \in SUBSET Parts
      /\ UNCHANGED <<visible, last_body, value, enabled, value_set, stage, request,
                     loop, todo, seen, decided, acted>>
  BY <1>0 DEF Skip, Begins, fields, history
<1>2. ~body_changed'[n] /\ \A k \in Nodes : k # n => (body_changed'[k] <=> body_changed[k])
  BY <1>0, <1>1, TopType DEF TypeOK
<1> QED
  BY <1>0, <1>1, <1>2, PassesOver

(* A component returns its text.                                             *)
LEMMA LeaveGoesOn ==
    ASSUME TypeOK, Invs, Requested, Leave
    PROVE  Requested'
<1>0. PICK n, text : n = Top.node /\ text = {Part(n)} \cup (IF visible[n] THEN Top.text ELSE {})
  OBVIOUS
<1>1. /\ stage = "building" /\ todo = <<>> /\ stack # <<>>
      /\ Top.next = Len(Children[n]) + (IF IsSubmitted THEN 2 ELSE 1)
      /\ last_body' = IF body_changed[n] THEN last_body
                      ELSE [last_body EXCEPT ![n] = [key |-> Key, text |-> text]]
      /\ Unlock(n) /\ Return(text)
      /\ UNCHANGED <<visible, body_changed, value, enabled, stage, request, loop, todo, seen,
                     decided, acted>>
  BY <1>0 DEF Leave, history
<1>2. n \in Nodes /\ Len(Children[n]) \in Nat /\ Top.next > Len(Children[n])
  <2>1. n \in Nodes
    BY <1>0, <1>1, TopType
  <2>2. Len(Children[n]) \in Nat
    BY <2>1, PageAssumption DEF IsTree
  <2>3. Top.next = Len(Children[n]) + 2 \/ Top.next = Len(Children[n]) + 1
    BY <1>1
  <2> QED
    BY <2>1, <2>2, <2>3
<1>3. text \in SUBSET Parts
  BY <1>0, <1>1, <1>2, PartType, TopType
<1>4. /\ Called(stack') = Called(stack) \ {n} /\ Entered(stack') = Entered(stack) \ {n}
      /\ Posting(stack') = Posting(stack) \ {n} /\ Submitted(stack') = {}
  BY <1>0, <1>1, <1>3, Returns
<1>5. /\ Below(n) \cap Unvisited(stack) = {} /\ n \in Entered(stack) /\ n \in Called(stack)
      /\ Submitted(stack) = IF Submits(Top) THEN {n} ELSE {}
      /\ n \in Posting(stack) <=> Top.post
  BY <1>0, <1>1, <1>2, DoneWithChildren
<1>6. Unvisited(stack') = Unvisited(stack) /\ n \notin Unvisited(stack) /\ Unvisited(stack) \subseteq Nodes
  <2>1. Unvisited(stack') = Unvisited(stack) \ Below(n)
    BY <1>0, <1>1, <1>3, Returns
  <2>2. n \in Below(n)
    BY <1>2, LineageSelf DEF Below
  <2>3. Unvisited(stack) \subseteq Nodes
    BY DEF Unvisited, Ahead, Below
  <2> QED
    BY <1>5, <2>1, <2>2, <2>3
<1>7. /\ \A k \in Fields : k # n => value_set'[k] = value_set[k]
      /\ \A k \in Fields : value_set'[k] => value_set[k]
      /\ n \in Fields /\ value_set'[n] => body_changed[n]
  BY <1>1 DEF Unlock, TypeOK
<1>8. \A k \in Nodes : (Untouched(k)' <=> Untouched(k)) /\ (Shown(k)' <=> Shown(k))
                       /\ (IsPostedTo(k)' <=> IsPostedTo(k)) /\ (Obsolete(k)' <=> Obsolete(k))
  BY <1>1 DEF Untouched, Shown, IsPostedTo, PostIsFor, Obsolete
<1>9. Fields \subseteq Nodes /\ Emitters \subseteq Nodes /\ Called(stack) \subseteq Nodes
  BY FieldsAreNodes, FrameType DEF Emitters, Called
<1>10. PathOK'
  BY <1>1, <1>3, ReturnedPath DEF Requested
<1>11. EnteredOK'
  BY <1>1, <1>4 DEF Requested, EnteredOK, ShownOrDecided
<1>12. RoundOK'
  <2>1. RoundOK
    BY DEF Requested
  <2> QED
    BY <1>1, <1>4, <1>8, <1>9, <2>1 DEF RoundOK
<1>13. RequestOK'
  BY <1>1 DEF Requested, RequestOK
<1>14. FreshOK'
  BY <1>1, <1>6 DEF Requested, FreshOK
<1>15. LockedOK'
  BY <1>1, <1>6, <1>7 DEF Requested, LockedOK
<1>16. SeenOK'
  <2>1. Locks(todo') = Locks(todo)
    BY <1>1
  <2> QED
    BY <1>1, <1>6, <1>7, <1>8, <1>9, <2>1 DEF Requested, SeenOK
<1>17. AskedOK' /\ Asked
  BY <1>1 DEF AskedOK, Asked
<1>18. UntouchedOK'
  BY <1>1, <1>7, <1>8, <1>9, <1>17 DEF Requested, UntouchedOK
<1>19. TakenOK'
  <2>1. \A k : Posted(k)' = Posted(k)
    BY <1>1 DEF Posted
  <2> QED
    BY <1>1, <1>6, <1>8, <1>9, <1>17, <2>1 DEF Requested, TakenOK, IsPosted
<1>20. LocksFollow'
  BY <1>1 DEF LocksFollow
<1>21. UnlockOK'
  <2>1. ASSUME NEW k \in Inputs, value_set'[k], k \notin Entered(stack') PROVE Told(k)'
    <3>1. k \in Fields /\ value_set[k]
      BY <1>7, <2>1 DEF Inputs
    <3>2. CASE k = n
      BY <1>1, <1>7, <2>1, <3>1, <3>2 DEF Told
    <3>3. CASE k # n
      <4>1. Told(k)
        BY <1>4, <2>1, <3>1, <3>3 DEF Requested, UnlockOK
      <4> QED
        BY <1>1, <4>1 DEF Told
    <3> QED
      BY <3>2, <3>3
  <2> QED
    BY <2>1 DEF UnlockOK
<1>22. UpOK'
  <2> SUFFICES ASSUME NEW p \in Nodes, NEW c \in Nodes, IsChild(c, p), body_changed[c], visible[p]
               PROVE  Obsolete(p)' \/ (p \in Entered(stack') /\ c \in Unvisited(stack'))
    BY <1>1 DEF UpOK
  <2>1. Obsolete(p) \/ (p \in Entered(stack) /\ c \in Unvisited(stack))
    BY DEF Requested, UpOK
  <2>2. p = n => c \in Below(n)
    BY LineageChild, LineageSelf DEF Below
  <2> QED
    BY <1>4, <1>5, <1>6, <1>8, <2>1, <2>2
<1>23. RestOK'
  BY <1>1 DEF RestOK
<1>24. PICK t : t = request.target
  OBVIOUS
<1>25. t \in Nodes /\ Key' = Key
  BY <1>1, <1>24 DEF TypeOK, Key
<1>26. ButtonOK'
  <2>1. ASSUME Kind[t] = "button", Untouched(t)
        PROVE  IF t \notin seen THEN acted = 0
               ELSE \/ acted = 0 /\ loop = 0 /\ t \in Unvisited(stack')
                    \/ /\ acted = 1 /\ ~body_changed[t]
                       /\ t \in Entered(stack') \/ last_body'[t].key = Key
    <3>1. IF t \notin seen THEN acted = 0
          ELSE \/ acted = 0 /\ loop = 0 /\ t \in Unvisited(stack)
               \/ /\ acted = 1 /\ ~body_changed[t]
                  /\ t \in Entered(stack) \/ last_body[t].key = Key
      BY <1>17, <1>24, <2>1 DEF Requested, ButtonOK
    <3>2. CASE t = n
      <4>1. ~body_changed[n] => last_body'[n].key = Key
        BY <1>1, <1>2 DEF TypeOK
      <4> QED
        BY <1>6, <3>1, <3>2, <4>1
    <3>3. CASE t # n
      <4>1. last_body'[t] = last_body[t]
        BY <1>1, <1>25, <3>3 DEF TypeOK
      <4> QED
        BY <1>4, <1>6, <3>1, <3>3, <4>1
    <3> QED
      BY <3>2, <3>3
  <2> QED
    BY <1>1, <1>8, <1>24, <1>25, <2>1 DEF ButtonOK
<1>27. FormOK'
  <2>1. ASSUME Kind[t] = "form", Untouched(t)
        PROVE  IF t \notin seen THEN acted = 0
               ELSE \/ /\ acted = 0 /\ loop = 0
                       /\ \/ t \in Unvisited(stack')
                          \/ t \in Entered(stack') \cap Posting(stack') /\ t \notin Submitted(stack')
                    \/ /\ acted = 1
                       /\ loop = 0 => /\ t \notin Unvisited(stack')
                                      /\ t \in Entered(stack') => t \in Submitted(stack')
    <3>1. IF t \notin seen THEN acted = 0
          ELSE \/ /\ acted = 0 /\ loop = 0
                  /\ \/ t \in Unvisited(stack)
                     \/ t \in Entered(stack) \cap Posting(stack) /\ t \notin Submitted(stack)
               \/ /\ acted = 1
                  /\ loop = 0 => /\ t \notin Unvisited(stack)
                                 /\ t \in Entered(stack) => t \in Submitted(stack)
      BY <1>17, <1>24, <2>1 DEF Requested, FormOK
    <3>2. CASE t = n
      <4>1. n \in Posting(stack) => n \in Submitted(stack)
        <5>1. ASSUME Top.post PROVE Submits(Top)
          <6>1. IsSubmitted
            BY <1>0, <2>1, <3>2, <5>1 DEF IsSubmitted
          <6>2. Top.next = Len(Children[n]) + 2
            BY <1>1, <6>1
          <6> QED
            BY <1>0, <1>2, <6>2 DEF Submits
        <5> QED
          BY <1>5, <5>1
      <4> QED
        BY <1>4, <1>6, <3>1, <3>2, <4>1
    <3>3. CASE t # n
      <4>1. t \notin Submitted(stack)
        BY <1>5, <3>3
      <4> QED
        BY <1>4, <1>6, <3>1, <3>3, <4>1
    <3> QED
      BY <3>2, <3>3
  <2> QED
    BY <1>1, <1>8, <1>24, <1>25, <2>1 DEF FormOK
<1> QED
  BY <1>10, <1>11, <1>12, <1>13, <1>14, <1>15, <1>16, <1>17, <1>18, <1>19, <1>20, <1>21, <1>22,
     <1>23, <1>26, <1>27 DEF Requested

(* A component calls for the text of a child.                                *)
LEMMA DescendGoesOn ==
    ASSUME TypeOK, Invs, Requested, Descend
    PROVE  Requested'
<1>0. PICK n, c : n = Top.node /\ c = (Top.node)'
  OBVIOUS
<1>1. /\ stage = "building"
      /\ UNCHANGED <<visible, body_changed, last_body, value, enabled, value_set, stage, request,
                     loop, todo, seen, decided, acted>>
  BY DEF Descend, tree, fields, build, history
<1>2. /\ stack # <<>> /\ stack' # <<>> /\ c \in Nodes /\ IsChild(c, n) /\ n \in Entered(stack)
      /\ Called(stack') = Called(stack) \cup {c} /\ n \in Called(stack)
      /\ Entered(stack') = Entered(stack)
      /\ Posting(stack') = Posting(stack) \cup (IF n \in Posting(stack) THEN {c} ELSE {})
      /\ Submitted(stack) = {} /\ Submitted(stack') = {}
      /\ Unvisited(stack') = Unvisited(stack)
  BY <1>0, Descends
<1>3. n \in Nodes
  BY <1>0, <1>2, TopType
<1>4. Lineage[c] = {c} \cup Lineage[n]
  BY <1>2, <1>3, LineageChild
<1>5. \A k \in Nodes : (Untouched(k)' <=> Untouched(k)) /\ (Shown(k)' <=> Shown(k))
                       /\ (IsPostedTo(k)' <=> IsPostedTo(k)) /\ (Obsolete(k)' <=> Obsolete(k))
  BY <1>1 DEF Untouched, Shown, IsPostedTo, PostIsFor, Obsolete
<1>6. Fields \subseteq Nodes /\ Emitters \subseteq Nodes /\ Called(stack) \subseteq Nodes
  BY FieldsAreNodes, FrameType DEF Emitters, Called
<1>7. PathOK'
  BY <1>0, <1>2, <1>4 DEF Requested, PathOK
<1>8. EnteredOK'
  BY <1>1, <1>2 DEF Requested, EnteredOK, ShownOrDecided
<1>9. RoundOK'
  <2>1. RoundOK
    BY DEF Requested
  <2>2. IsPostedTo(c) => IsPostedTo(n)
    BY <1>4 DEF IsPostedTo
  <2>3. (Posting(stack') # {} => Posting(stack) # {}) /\ (n \in Posting(stack) => c \in Posting(stack'))
        /\ Posting(stack) \subseteq Posting(stack')
    BY <1>2
  <2> QED
    BY <1>1, <1>2, <1>5, <1>6, <2>1, <2>2, <2>3 DEF RoundOK
<1>10. RequestOK'
  BY <1>1 DEF Requested, RequestOK
<1>11. FreshOK'
  BY <1>1, <1>2 DEF Requested, FreshOK
<1>12. LockedOK'
  BY <1>1, <1>2 DEF Requested, LockedOK
<1>13. SeenOK'
  <2>1. Locks(todo') = Locks(todo)
    BY <1>1
  <2> QED
    BY <1>1, <1>2, <1>5, <1>6, <2>1 DEF Requested, SeenOK
<1>14. AskedOK' /\ Asked
  BY <1>1 DEF AskedOK, Asked
<1>15. UntouchedOK'
  BY <1>1, <1>5, <1>6, <1>14 DEF Requested, UntouchedOK
<1>16. TakenOK'
  <2>1. \A k : Posted(k)' = Posted(k)
    BY <1>1 DEF Posted
  <2> QED
    BY <1>1, <1>2, <1>5, <1>6, <1>14, <2>1 DEF Requested, TakenOK, IsPosted
<1>17. LocksFollow'
  BY <1>1 DEF Requested, LocksFollow, Told
<1>18. UnlockOK'
  BY <1>1, <1>2 DEF Requested, UnlockOK, Told
<1>19. UpOK'
  BY <1>1, <1>2, <1>5 DEF Requested, UpOK
<1>20. RestOK'
  BY <1>1 DEF RestOK
<1>21. PICK t : t = request.target
  OBVIOUS
<1>22. t \in Nodes /\ Key' = Key
  BY <1>1, <1>21 DEF TypeOK, Key
<1>23. ButtonOK'
  BY <1>1, <1>2, <1>5, <1>14, <1>21, <1>22 DEF Requested, ButtonOK
<1>24. FormOK'
  <2>1. Posting(stack) \subseteq Posting(stack')
    BY <1>2
  <2> QED
    BY <1>1, <1>2, <1>5, <1>14, <1>21, <1>22, <2>1 DEF Requested, FormOK
<1> QED
  BY <1>7, <1>8, <1>9, <1>10, <1>11, <1>12, <1>13, <1>14, <1>15, <1>16, <1>17, <1>18, <1>19,
     <1>20, <1>23, <1>24 DEF Requested

-----------------------------------------------------------------------------
(* The form that is submitted is posted to.                                  *)
LEMMA TargetIsPosted ==
    ASSUME TypeOK, Requested, NEW t \in seen, t = request.target, Kind[t] = "form",
           loop = 0, stage = "building"
    PROVE  IsPostedTo(t) /\ request.method = "POST"
<1>1. request \in Requests /\ t \in Nodes
  BY DEF Requested, RequestOK, TypeOK
<1>2. request.method = "POST" /\ \A m \in Lineage[t] : Kind[m] = "form" => m = t
  BY <1>1, AskedAssumption DEF Requested, RequestOK
<1>3. t \in Lineage[t]
  BY <1>1, LineageSelf
<1> QED
  BY <1>2, <1>3 DEF IsPostedTo, PostIsFor

(* A component is evaluated, up to its children.                             *)
LEMMA EnterGoesOn ==
    ASSUME TypeOK, Invs, Requested, Enter
    PROVE  Requested'
<1>0. PICK n : n = Top.node
  OBVIOUS
<1>1. /\ stage = "building" /\ todo = <<>> /\ stack # <<>> /\ Top.next = 0 /\ visible[n]
      /\ ~IsCached(n)
      /\ body_changed' = [body_changed EXCEPT ![n] = FALSE]
      /\ stack' = [stack EXCEPT ![Len(stack)].next = 1, ![Len(stack)].post = @ /\ PostIsFor(n)]
      /\ UNCHANGED <<visible, last_body, enabled, value_set, stage, request, loop, seen, decided>>
  BY <1>0 DEF Enter, Begins, build
<1>2. /\ Called(stack') = Called(stack) /\ n \in Called(stack)
      /\ n \notin Entered(stack) /\ Entered(stack') = Entered(stack) \cup {n}
      /\ n \in Posting(stack) <=> Top.post
      /\ Posting(stack') = Posting(stack) \ (IF PostIsFor(n) THEN {} ELSE {n})
      /\ Submitted(stack) = {} /\ Submitted(stack') = {}
      /\ Below(n) \subseteq Unvisited(stack) /\ Unvisited(stack') = Unvisited(stack) \ {n}
      /\ stack' # <<>> /\ (Top.node)' = n
  BY <1>0, <1>1, Enters
<1>3. n \in Nodes /\ n \in Below(n) /\ n \in Unvisited(stack)
  <2>1. n \in Nodes
    BY <1>0, <1>1, TopType
  <2> QED
    BY <1>2, <2>1, LineageSelf DEF Below
<1>4. ~body_changed'[n] /\ \A k \in Nodes : k # n => body_changed'[k] = body_changed[k]
  BY <1>1, <1>3 DEF TypeOK
<1>5. \/ /\ n \in Fields /\ TakesPost(n) /\ Posted(n) # value[n]
         /\ value' = [value EXCEPT ![n] = Posted(n)]
         /\ todo' = Act(n, Posted(n)) \o Then("changed", n) /\ acted' = acted
      \/ /\ ~(n \in Fields /\ TakesPost(n) /\ Posted(n) # value[n])
         /\ Kind[n] = "button" /\ request.target = n
         /\ todo' = Act(n, 1) /\ acted' = acted + 1 /\ value' = value
      \/ /\ ~(n \in Fields /\ TakesPost(n) /\ Posted(n) # value[n])
         /\ ~(Kind[n] = "button" /\ request.target = n)
         /\ value' = value /\ todo' = todo /\ acted' = acted
  BY <1>0 DEF Enter
<1>6. \A k \in Nodes : (Untouched(k)' <=> Untouched(k)) /\ (Shown(k)' <=> Shown(k))
                       /\ (IsPostedTo(k)' <=> IsPostedTo(k))
  BY <1>1 DEF Untouched, Shown, IsPostedTo, PostIsFor
<1>7. Fields \subseteq Nodes /\ Emitters \subseteq Nodes /\ Fields \subseteq Emitters
      /\ Called(stack) \subseteq Nodes /\ Unvisited(stack) \subseteq Nodes
  BY FieldsAreNodes, FrameType DEF Emitters, Called, Unvisited, Ahead, Below
<1>8. Locks(todo) = {} /\ Locks(todo') = {} /\ Follows(todo')
  <2>1. Locks(<<>>) = {} /\ Follows(<<>>)
    BY DEF Locks, Follows
  <2>2. CASE n \in Fields /\ todo' = Act(n, Posted(n)) \o Then("changed", n)
    <3>1. Posted(n) \in Values
      BY <2>2 DEF TypeOK, Posted, Forms, Values
    <3>2. PICK act, c : act = Act(n, Posted(n)) /\ c = Then("changed", n)
      OBVIOUS
    <3>3. act \in Seq(Ops) /\ Locks(act) = {} /\ Follows(act)
      BY <1>3, <3>1, <3>2, ActLocks
    <3>4. c \in Seq(Ops) /\ Locks(c) = {} /\ Follows(c)
      BY <2>2, <3>2, ThenLocks
    <3>5. Locks(act \o c) = Locks(act) \cup Locks(c) /\ Follows(act \o c)
      BY <3>3, <3>4, ConcatFollows
    <3> QED
      BY <1>1, <2>1, <2>2, <3>2, <3>3, <3>4, <3>5
  <2>3. CASE todo' = Act(n, 1)
    <3>1. 1 \in Values
      BY DEF Values
    <3> QED
      BY <1>1, <1>3, <2>1, <2>3, <3>1, ActLocks
  <2>4. CASE todo' = todo
    BY <1>1, <2>1, <2>4
  <2> QED
    BY <1>5, <2>2, <2>3, <2>4
<1>9. PathOK'
  BY <1>0, <1>1, <1>2 DEF Requested, PathOK
<1>10. EnteredOK'
  BY <1>1, <1>2 DEF Requested, EnteredOK, ShownOrDecided
<1>11. RoundOK'
  <2>1. RoundOK
    BY DEF Requested
  <2>2. IsPostedTo(n) => PostIsFor(n)
    BY <1>3, LineageSelf DEF IsPostedTo
  <2> QED
    BY <1>1, <1>2, <1>6, <1>7, <2>1, <2>2 DEF RoundOK
<1>12. RequestOK'
  BY <1>1 DEF Requested, RequestOK
<1>13. FreshOK'
  BY <1>1, <1>2, <1>4, <1>7 DEF Requested, FreshOK
<1>14. LockedOK'
  BY <1>1, <1>2 DEF Requested, LockedOK
<1>15. SeenOK'
  BY <1>1, <1>2, <1>6, <1>7, <1>8 DEF Requested, SeenOK
<1>16. AskedOK' /\ Asked
  BY <1>1 DEF AskedOK, Asked
<1>17. UntouchedOK'
  BY <1>1, <1>6, <1>7, <1>16 DEF Requested, UntouchedOK
<1>18. ASSUME NEW k \in seen \cap Fields, IsPosted(k) PROVE Posted(k)' = Posted(k)
  BY <1>1, <1>18 DEF Posted, IsPosted
<1>19. ASSUME n \in seen \cap Fields, IsPosted(n), loop = 0 PROVE TakesPost(n)
  <2>1. request \in Requests
    BY <1>1, <1>19 DEF Requested, RequestOK
  <2>2. request.method = "POST"
    BY <1>19, <2>1, PageAssumption DEF IsPosted
  <2>3. Top.post
    BY <1>2, <1>19, <2>2 DEF Requested, RoundOK, IsPosted
  <2>4. ~value_set[n] /\ (Kind[n] = "radio" \/ enabled[n])
    BY <1>7, <1>16, <1>19 DEF Requested, UntouchedOK, IsPosted
  <2>5. PathIsEmpty(n)
    BY <1>3, <1>19, LineageGrows DEF PathIsEmpty, IsPosted
  <2> QED
    BY <2>3, <2>4, <2>5 DEF TakesPost, MayTake
<1>20. TakenOK'
  <2>1. ASSUME NEW k \in seen \cap Fields, IsPosted(k)
        PROVE  (loop = 0 /\ k \in Unvisited(stack')) \/ value'[k] = Posted(k)
    <3>1. (loop = 0 /\ k \in Unvisited(stack)) \/ value[k] = Posted(k)
      BY <1>16, <2>1 DEF Requested, TakenOK
    <3>2. CASE k # n
      <4>1. value'[k] = value[k]
        BY <1>5, <2>1, <3>2 DEF TypeOK
      <4> QED
        BY <1>2, <3>1, <3>2, <4>1
    <3>3. CASE k = n
      <4>1. value'[n] = value[n] \/ value'[n] = Posted(n)
        BY <1>5, <2>1, <3>3 DEF TypeOK
      <4>2. CASE value[n] = Posted(n)
        BY <3>3, <4>1, <4>2
      <4>3. CASE loop = 0 /\ value[n] # Posted(n)
        <5>1. TakesPost(n)
          BY <1>19, <2>1, <3>3, <4>3
        <5>2. value' = [value EXCEPT ![n] = Posted(n)]
          BY <1>5, <2>1, <3>3, <4>3, <5>1
        <5> QED
          BY <2>1, <3>3, <5>2 DEF TypeOK
      <4> QED
        BY <3>1, <3>3, <4>2, <4>3
    <3> QED
      BY <3>2, <3>3
  <2>2. \A k \in Fields : IsPosted(k)' <=> IsPosted(k)
    BY <1>1, <1>6, <1>7 DEF IsPosted
  <2> QED
    BY <1>1, <1>18, <2>1, <2>2 DEF TakenOK
<1>21. LocksFollow'
  BY <1>8 DEF LocksFollow, Follows
<1>22. UnlockOK'
  <2>1. Inputs \subseteq Nodes
    BY <1>7 DEF Inputs
  <2> QED
    BY <1>1, <1>2, <1>4, <2>1 DEF Requested, UnlockOK, Told
<1>23. UpOK'
  <2> SUFFICES ASSUME NEW p \in Nodes, NEW c \in Nodes, IsChild(c, p), body_changed'[c], visible[p]
               PROVE  Obsolete(p)' \/ (p \in Entered(stack') /\ c \in Unvisited(stack'))
    BY <1>1 DEF UpOK
  <2>1. c # n /\ body_changed[c]
    BY <1>4
  <2>2. body_changed[p] \/ (p \in Entered(stack) /\ c \in Unvisited(stack))
    BY <1>1, <2>1, AtRest DEF Requested, UpOK
  <2>3. CASE p = n
    <3>1. c \in Below(n)
      BY <2>3, LineageChild, LineageSelf DEF Below
    <3> QED
      BY <1>2, <2>1, <2>3, <3>1
  <2>4. CASE p # n
    BY <1>2, <1>4, <2>1, <2>2, <2>4 DEF Obsolete
  <2> QED
    BY <2>3, <2>4
<1>24. RestOK'
  BY <1>1 DEF RestOK
<1>25. PICK t : t = request.target
  OBVIOUS
<1>26. t \in Nodes /\ Key' = Key
  BY <1>1, <1>25 DEF TypeOK, Key
<1>27. ButtonOK'
  <2>1. ASSUME Kind[t] = "button", Untouched(t)
        PROVE  IF t \notin seen THEN acted' = 0
               ELSE \/ acted' = 0 /\ loop = 0 /\ t \in Unvisited(stack')
                    \/ /\ acted' = 1 /\ ~body_changed'[t]
                       /\ t \in Entered(stack') \/ last_body[t].key = Key
    <3>1. IF t \notin seen THEN acted = 0
          ELSE \/ acted = 0 /\ loop = 0 /\ t \in Unvisited(stack)
               \/ /\ acted = 1 /\ ~body_changed[t]
                  /\ t \in Entered(stack) \/ last_body[t].key = Key
      BY <1>16, <1>25, <2>1 DEF Requested, ButtonOK
    <3>2. CASE t = n
      <4>1. n \notin Fields /\ acted' = acted + 1
        BY <1>5, <1>25, <2>1, <3>2 DEF Fields
      <4>2. Shown(n)
        BY <1>0, <1>1, <2>1, <3>2, ReachedIsShown DEF Requested, Untouched
      <4>3. n \in Emitters
        BY <1>3, <2>1, <3>2 DEF Emitters
      <4>4. n \in seen
        BY <1>16, <2>1, <3>2, <4>1, <4>2, <4>3 DEF Requested, UntouchedOK
      <4>5. ~(~body_changed[n] /\ last_body[n].key = Key)
        BY <1>1 DEF IsCached
      <4>6. acted = 0
        BY <1>2, <3>1, <3>2, <4>4, <4>5
      <4> QED
        BY <1>2, <1>4, <3>2, <4>1, <4>4, <4>6
    <3>3. CASE t # n
      <4>1. acted' = acted /\ body_changed'[t] = body_changed[t]
        BY <1>4, <1>5, <1>25, <1>26, <3>3
      <4> QED
        BY <1>2, <3>1, <3>3, <4>1
    <3> QED
      BY <3>2, <3>3
  <2> QED
    BY <1>1, <1>6, <1>25, <1>26, <2>1 DEF ButtonOK
<1>28. FormOK'
  <2>1. ASSUME Kind[t] = "form", Untouched(t)
        PROVE  IF t \notin seen THEN acted' = 0
               ELSE \/ /\ acted' = 0 /\ loop = 0
                       /\ \/ t \in Unvisited(stack')
                          \/ t \in Entered(stack') \cap Posting(stack') /\ t \notin Submitted(stack')
                    \/ /\ acted' = 1
                       /\ loop = 0 => /\ t \notin Unvisited(stack')
                                      /\ t \in Entered(stack') => t \in Submitted(stack')
    <3>1. IF t \notin seen THEN acted = 0
          ELSE \/ /\ acted = 0 /\ loop = 0
                  /\ \/ t \in Unvisited(stack)
                     \/ t \in Entered(stack) \cap Posting(stack) /\ t \notin Submitted(stack)
               \/ /\ acted = 1
                  /\ loop = 0 => /\ t \notin Unvisited(stack)
                                 /\ t \in Entered(stack) => t \in Submitted(stack)
      BY <1>16, <1>25, <2>1 DEF Requested, FormOK
    <3>2. acted' = acted
      BY <1>5, <1>25, <2>1
    <3>3. CASE t = n
      <4>1. ASSUME loop = 0, n \in seen PROVE n \in Posting(stack')
        <5>1. IsPostedTo(n) /\ request.method = "POST"
          BY <1>1, <1>25, <2>1, <3>3, <4>1, TargetIsPosted
        <5>2. n \in Posting(stack)
          BY <1>2, <4>1, <5>1 DEF Requested, RoundOK
        <5>3. PostIsFor(n)
          BY <1>3, <5>1, LineageSelf DEF IsPostedTo
        <5> QED
          BY <1>2, <5>2, <5>3
      <4> QED
        BY <1>2, <1>3, <3>1, <3>2, <3>3, <4>1
    <3>4. CASE t # n
      BY <1>2, <3>1, <3>2, <3>4
    <3> QED
      BY <3>3, <3>4
  <2> QED
    BY <1>1, <1>6, <1>25, <1>26, <2>1 DEF FormOK
<1> QED
  BY <1>9, <1>10, <1>11, <1>12, <1>13, <1>14, <1>15, <1>16, <1>17, <1>20, <1>21, <1>22, <1>23,
     <1>24, <1>27, <1>28 DEF Requested

-----------------------------------------------------------------------------
(* A form that was posted acts, after its fields.                            *)
LEMMA ActChangedGoesOn ==
    ASSUME TypeOK, Invs, Requested, ActChanged
    PROVE  Requested'
<1>0. PICK n : n = Top.node
  OBVIOUS
<1>1. /\ stage = "building" /\ todo = <<>> /\ todo' = Act(n, 1)
      /\ acted' = IF n = request.target THEN acted + 1 ELSE acted
      /\ UNCHANGED <<visible, body_changed, last_body, value, enabled, value_set, stage, request,
                     loop, seen, decided>>
  BY <1>0 DEF ActChanged, tree, fields, build
<1>2. /\ stack # <<>> /\ stack' # <<>> /\ (Top.node)' = n
      /\ Kind[n] = "form" /\ n \in Posting(stack) /\ n \in Entered(stack)
      /\ Called(stack') = Called(stack) /\ Entered(stack') = Entered(stack)
      /\ Posting(stack') = Posting(stack) /\ Unvisited(stack') = Unvisited(stack)
      /\ n \in Called(stack) /\ Below(n) \cap Unvisited(stack) = {}
      /\ Submitted(stack) = {} /\ Submitted(stack') = {n}
  BY <1>0, Submit
<1>3. n \in Nodes /\ n \in Below(n)
  <2>1. n \in Nodes
    BY <1>0, <1>2, TopType
  <2> QED
    BY <2>1, LineageSelf DEF Below
<1>4. \A k \in Nodes : (Untouched(k)' <=> Untouched(k)) /\ (Shown(k)' <=> Shown(k))
                       /\ (IsPostedTo(k)' <=> IsPostedTo(k))
  BY <1>1 DEF Untouched, Shown, IsPostedTo, PostIsFor
<1>5. Fields \subseteq Nodes /\ Emitters \subseteq Nodes /\ Called(stack) \subseteq Nodes
  BY FieldsAreNodes, FrameType DEF Emitters, Called
<1>6. Locks(todo) = {} /\ Locks(todo') = {} /\ Follows(todo')
  <2>1. 1 \in Values /\ Locks(<<>>) = {}
    BY DEF Values, Locks
  <2> QED
    BY <1>1, <1>3, <2>1, ActLocks
<1>7. PathOK'
  BY <1>0, <1>2 DEF Requested, PathOK
<1>8. EnteredOK'
  BY <1>1, <1>2 DEF Requested, EnteredOK, ShownOrDecided
<1>9. RoundOK'
  BY <1>1, <1>2, <1>4, <1>5 DEF Requested, RoundOK
<1>10. RequestOK'
  BY <1>1 DEF Requested, RequestOK
<1>11. FreshOK'
  BY <1>1, <1>2 DEF Requested, FreshOK
<1>12. LockedOK'
  BY <1>1, <1>2 DEF Requested, LockedOK
<1>13. SeenOK'
  BY <1>1, <1>2, <1>4, <1>5, <1>6 DEF Requested, SeenOK
<1>14. AskedOK' /\ Asked
  BY <1>1 DEF AskedOK, Asked
<1>15. UntouchedOK'
  BY <1>1, <1>4, <1>5, <1>14 DEF Requested, UntouchedOK
<1>16. TakenOK'
  <2>1. \A k : Posted(k)' = Posted(k)
    BY <1>1 DEF Posted
  <2> QED
    BY <1>1, <1>2, <1>4, <1>5, <1>14, <2>1 DEF Requested, TakenOK, IsPosted
<1>17. LocksFollow'
  BY <1>6 DEF LocksFollow, Follows
<1>18. UnlockOK'
  BY <1>1, <1>2 DEF Requested, UnlockOK, Told
<1>19. UpOK'
  <2> SUFFICES ASSUME NEW p \in Nodes, NEW c \in Nodes, IsChild(c, p), body_changed[c], visible[p]
               PROVE  Obsolete(p)' \/ (p \in Entered(stack) /\ c \in Unvisited(stack))
    BY <1>1, <1>2 DEF UpOK
  <2>1. body_changed[p] \/ (p \in Entered(stack) /\ c \in Unvisited(stack))
    BY <1>1, AtRest DEF Requested, UpOK
  <2> QED
    BY <1>1, <2>1 DEF Obsolete
<1>20. RestOK'
  BY <1>1 DEF RestOK
<1>21. PICK t : t = request.target
  OBVIOUS
<1>22. t \in Nodes /\ Key' = Key
  BY <1>1, <1>21 DEF TypeOK, Key
<1>23. ButtonOK'
  <2>1. Kind[t] = "button" => acted' = acted
    BY <1>1, <1>2, <1>21
  <2> QED
    BY <1>1, <1>2, <1>4, <1>14, <1>21, <1>22, <2>1 DEF Requested, ButtonOK
<1>24. FormOK'
  <2>1. ASSUME Kind[t] = "form", Untouched(t)
        PROVE  IF t \notin seen THEN acted' = 0
               ELSE \/ /\ acted' = 0 /\ loop = 0
                       /\ \/ t \in Unvisited(stack)
                          \/ t \in Entered(stack) \cap Posting(stack) /\ t \notin Submitted(stack')
                    \/ /\ acted' = 1
                       /\ loop = 0 => /\ t \notin Unvisited(stack)
                                      /\ t \in Entered(stack) => t \in Submitted(stack')
    <3>1. IF t \notin seen THEN acted = 0
          ELSE \/ /\ acted = 0 /\ loop = 0
                  /\ \/ t \in Unvisited(stack)
                     \/ t \in Entered(stack) \cap Posting(stack) /\ t \notin Submitted(stack)
               \/ /\ acted = 1
                  /\ loop = 0 => /\ t \notin Unvisited(stack)
                                 /\ t \in Entered(stack) => t \in Submitted(stack)
      BY <1>14, <1>21, <2>1 DEF Requested, FormOK
    <3>2. CASE t = n
      <4>1. Shown(n)
        BY <1>0, <1>2, <2>1, <3>2, ReachedIsShown DEF Requested, Untouched
      <4>2. n \in Emitters /\ n \notin Fields
        BY <1>2, <1>3 DEF Emitters, Fields
      <4>4. loop = 0 /\ request.method = "POST"
        BY <1>2 DEF Requested, RoundOK
      <4>3. n \in seen
        BY <1>14, <2>1, <3>2, <4>1, <4>2, <4>4 DEF Requested, UntouchedOK
      <4>5. acted = 0
        BY <1>2, <3>1, <3>2, <4>3, <4>4
      <4>6. acted' = 1
        BY <1>1, <1>21, <3>2, <4>5
      <4> QED
        BY <1>2, <1>3, <3>2, <4>3, <4>6
    <3>3. CASE t # n
      <4>1. acted' = acted
        BY <1>1, <1>21, <3>3
      <4> QED
        BY <1>2, <3>1, <3>3, <4>1
    <3> QED
      BY <3>2, <3>3
  <2> QED
    BY <1>1, <1>2, <1>4, <1>21, <1>22, <2>1 DEF FormOK
<1> QED
  BY <1>7, <1>8, <1>9, <1>10, <1>11, <1>12, <1>13, <1>14, <1>15, <1>16, <1>17, <1>18, <1>19,
     <1>20, <1>23, <1>24 DEF Requested

(* Once the root has returned, what is shown and not locked in a round to    *)
(* come has not changed.                                                     *)
LEMMA NothingChangedBelow ==
    ASSUME TypeOK, UpOK, stack = <<>>, todo = <<>>, ~body_changed[Root], NEW n \in Nodes, Shown(n)
    PROVE  ~body_changed[n] /\ visible[n]
<1> DEFINE S == {m \in Nodes : Shown(m) => ~body_changed[m]}
<1>1. Root \in S
  BY PageAssumption DEF IsTree
<1>2. ASSUME NEW p \in S, NEW c \in Nodes, IsChild(c, p), Shown(c) PROVE ~body_changed[c]
  <2>1. Lineage[c] = {c} \cup Lineage[p] /\ p \in Lineage[p] /\ p \in Nodes
    BY <1>2, LineageChild, LineageSelf
  <2>2. Shown(p) /\ visible[p]
    BY <1>2, <2>1 DEF Shown
  <2>3. ~body_changed[p]
    BY <2>2
  <2>4. Entered(stack) = {}
    BY NoCalls
  <2> QED
    BY <1>2, <2>1, <2>2, <2>3, <2>4, AtRest DEF UpOK
<1>3. S = Nodes
  <2>1. Closed(S)
    BY <1>2 DEF Closed
  <2> HIDE DEF S
  <2>2. S \in SUBSET Nodes
    BY DEF S
  <2> QED
    BY <1>1, <2>1, <2>2, TreeInduction
<1>4. visible[n]
  BY LineageSelf DEF Shown
<1> QED
  BY <1>3, <1>4

(* A round ends.                                                             *)
LEMMA EndRoundGoesOn ==
    ASSUME TypeOK, Invs, Requested, EndRound
    PROVE  Requested'
<1>1. /\ stage = "building" /\ todo = <<>> /\ todo' = <<>> /\ stack = <<>>
      /\ request' = NextRequest /\ loop' = loop + 1
      /\ UNCHANGED <<visible, body_changed, last_body, value, enabled, value_set, seen, decided, acted>>
  BY DEF EndRound, tree, fields, history
<1>2. /\ Called(stack) = {} /\ Entered(stack) = {} /\ Posting(stack) = {}
      /\ Submitted(stack) = {} /\ Unvisited(stack) = {}
  BY <1>1, NoCalls
<1>3. loop' # 0
  BY <1>1 DEF TypeOK
<1>4. \/ /\ body_changed[Root] /\ stack' = <<Call(Root, request'.method = "POST")>> /\ stage' = "building"
      \/ /\ stack' = <<>> /\ stage' = "bug"
      \/ /\ stack' = <<>> /\ stage' = "idle" /\ ~body_changed[Root]
  BY <1>1 DEF EndRound
<1>5. request'.target = request.target /\ request'.posted = request.posted /\ Key' = Key
      /\ (body_changed[Root] => request'.method = "GET")
      /\ (request.method = "GET" => request'.method = "GET")
  BY <1>1 DEF NextRequest, Key, TypeOK
<1>6. /\ Entered(stack') = {} /\ Posting(stack') = {} /\ Submitted(stack') = {}
      /\ stack' # <<>> => (Top.node)' = Root
  <2>1. CASE stack' = <<>>
    BY <2>1, NoCalls
  <2>2. CASE body_changed[Root] /\ stack' = <<Call(Root, request'.method = "POST")>>
    <3>1. stack' = <<Call(Root, FALSE)>>
      BY <1>5, <2>2
    <3> QED
      BY <3>1, RoundBegins
  <2> QED
    BY <1>4, <2>1, <2>2
<1>7. \A k \in Nodes : (Untouched(k)' <=> Untouched(k)) /\ (Shown(k)' <=> Shown(k))
                       /\ (IsPostedTo(k)' <=> IsPostedTo(k)) /\ (Obsolete(k)' <=> Obsolete(k))
  BY <1>1, <1>5 DEF Untouched, Shown, IsPostedTo, PostIsFor, Obsolete
<1>8. Fields \subseteq Nodes /\ Emitters \subseteq Nodes
  BY FieldsAreNodes DEF Emitters
<1>9. PathOK'
  BY <1>6, LineageRoot DEF PathOK
<1>10. EnteredOK'
  BY <1>6 DEF EnteredOK
<1>11. RoundOK'
  BY <1>3, <1>6 DEF RoundOK
<1>12. RequestOK'
  <2>1. PICK r \in Requests : request = r \/ request = [r EXCEPT !.method = "GET"]
    BY DEF Requested, RequestOK
  <2>2. r \in [method : {"GET", "POST"}, target : Nodes, posted : Forms]
    BY PageAssumption
  <2>3. request' = r \/ request' = [r EXCEPT !.method = "GET"]
    BY <1>1, <2>1, <2>2 DEF NextRequest
  <2> QED
    BY <1>3, <2>3 DEF RequestOK
<1>13. FreshOK' /\ LockedOK' /\ SeenOK'
  BY <1>3 DEF FreshOK, LockedOK, SeenOK
<1>14. AskedOK' /\ Asked
  BY <1>1, <1>3 DEF AskedOK, Asked, TypeOK
<1>15. UntouchedOK'
  BY <1>1, <1>5, <1>7, <1>8, <1>14 DEF Requested, UntouchedOK
<1>16. TakenOK'
  <2>1. \A k : Posted(k)' = Posted(k)
    BY <1>1, <1>5 DEF Posted
  <2> QED
    BY <1>1, <1>2, <1>5, <1>7, <1>8, <1>14, <2>1 DEF Requested, TakenOK, IsPosted
<1>17. LocksFollow'
  BY <1>1 DEF LocksFollow
<1>18. UnlockOK'
  BY <1>1, <1>2 DEF Requested, UnlockOK, Told
<1>19. UpOK'
  BY <1>1, <1>2, <1>7 DEF Requested, UpOK
<1>20. RestOK'
  <2>1. ASSUME stage' = "idle", NEW k \in Inputs, Shown(k) PROVE ~value_set[k]
    <3>1. k \in Nodes /\ ~body_changed[Root]
      BY <1>4, <1>8, <2>1 DEF Inputs
    <3>2. ~body_changed[k] /\ visible[k]
      BY <1>1, <2>1, <3>1, NothingChangedBelow DEF Requested
    <3> QED
      BY <1>2, <2>1, <3>2 DEF Requested, UnlockOK, Told
  <2>2. Inputs \subseteq Nodes
    BY <1>8 DEF Inputs
  <2> QED
    BY <1>1, <1>7, <2>1, <2>2 DEF RestOK
<1>21. PICK t : t = request.target
  OBVIOUS
<1>22. t \in Nodes
  BY <1>21 DEF TypeOK
<1>23. ButtonOK'
  BY <1>1, <1>2, <1>5, <1>7, <1>14, <1>21, <1>22 DEF Requested, ButtonOK
<1>24. FormOK'
  BY <1>1, <1>2, <1>3, <1>5, <1>7, <1>14, <1>21, <1>22 DEF Requested, FormOK
<1> QED
  BY <1>9, <1>10, <1>11, <1>12, <1>13, <1>14, <1>15, <1>16, <1>17, <1>18, <1>19, <1>20, <1>23,
     <1>24 DEF Requested

(* A request comes.                                                          *)
LEMMA GetBodyPartGoesOn ==
    ASSUME TypeOK, Invs, Requested, NEW r \in Requests, GetBodyPart(r)
    PROVE  Requested'
<1>1. /\ stage = "idle" /\ stage' = "building" /\ request' = r /\ loop' = 0 /\ acted' = 0
      /\ \A n \in Nodes : body_changed'[n]
      /\ stack' = <<Call(Root, r.method = "POST")>>
      /\ seen' = {n \in Emitters : /\ Shown(n)
                                   /\ n \in Fields => Kind[n] = "radio" \/ enabled[n]
                                   /\ Kind[n] = "form" => r.method = "POST"}
      /\ decided' = {<<"lock", n>> : n \in {m \in Fields : Kind[m] = "radio" /\ value_set[m]}}
      /\ UNCHANGED <<visible, last_body, value, enabled, value_set>>
  BY DEF GetBodyPart, fields
<1>2. /\ Called(stack') = {Root} /\ Entered(stack') = {}
      /\ Posting(stack') = IF r.method = "POST" THEN {Root} ELSE {}
      /\ Unvisited(stack') = Nodes /\ stack' # <<>> /\ (Top.node)' = Root
  BY <1>1, RoundBegins
<1>3. todo' = <<>>
  BY <1>1 DEF GetBodyPart, Invs, StackOK
<1>4. \A k \in Nodes : Shown(k)' <=> Shown(k)
  BY <1>1 DEF Shown
<1>5. Fields \subseteq Nodes /\ Emitters \subseteq Nodes
  BY FieldsAreNodes DEF Emitters
<1>6. PathOK'
  BY <1>2, LineageRoot DEF PathOK
<1>7. EnteredOK'
  BY <1>2 DEF EnteredOK
<1>8. RoundOK'
  BY <1>1, <1>2 DEF RoundOK
<1>9. RequestOK'
  BY <1>1 DEF RequestOK
<1>10. FreshOK'
  BY <1>1, <1>2 DEF FreshOK
<1>11. LockedOK'
  BY <1>1 DEF LockedOK
<1>12. SeenOK'
  BY <1>1, <1>4, <1>5 DEF SeenOK, Emitters
<1>13. AskedOK'
  BY <1>1 DEF AskedOK, Asked
<1>14. UntouchedOK'
  <2>1. ASSUME NEW n \in seen' \cap Fields, Untouched(n)' PROVE ~value_set[n]
    <3>1. CASE Kind[n] = "radio"
      BY <1>1, <2>1, <3>1 DEF Untouched
    <3>2. CASE Kind[n] # "radio"
      BY <1>1, <2>1, <3>2 DEF Requested, RestOK, Inputs
    <3> QED
      BY <3>1, <3>2
  <2>2. r.method = "POST" \/ r.method = "GET"
    BY PageAssumption
  <2> QED
    BY <1>1, <1>4, <1>5, <2>1, <2>2 DEF UntouchedOK
<1>15. TakenOK'
  BY <1>1, <1>2, <1>5 DEF TakenOK
<1>16. LocksFollow'
  BY <1>3 DEF LocksFollow
<1>17. UnlockOK'
  BY <1>1, <1>5 DEF UnlockOK, Told, Inputs
<1>18. UpOK'
  BY <1>1 DEF UpOK, Obsolete
<1>19. RestOK'
  BY <1>1 DEF RestOK
<1>20. r.target \in Nodes
  BY PageAssumption
<1>21. ButtonOK' /\ FormOK'
  BY <1>1, <1>2, <1>20 DEF ButtonOK, FormOK
<1> QED
  BY <1>6, <1>7, <1>8, <1>9, <1>10, <1>11, <1>12, <1>13, <1>14, <1>15, <1>16, <1>17, <1>18,
     <1>19, <1>21 DEF Requested

(* Nothing was asked yet.                                                    *)
LEMMA InitRequested ==
    ASSUME Init
    PROVE  Requested
<1>1. /\ stack = <<>> /\ todo = <<>> /\ stage = "idle" /\ loop = 0 /\ seen = {} /\ decided = {}
      /\ body_changed = [n \in Nodes |-> TRUE] /\ value_set = [n \in Fields |-> FALSE]
      /\ request \in Requests
  BY PageAssumption DEF Init
<1>2. /\ Called(stack) = {} /\ Entered(stack) = {} /\ Posting(stack) = {} /\ Unvisited(stack) = {}
  BY <1>1, NoCalls
<1>3. ~Asked
  BY <1>1 DEF Asked
<1>4. PathOK /\ EnteredOK /\ RoundOK /\ RequestOK
  BY <1>1, <1>2 DEF PathOK, EnteredOK, RoundOK, RequestOK
<1>5. FreshOK /\ LockedOK /\ SeenOK
  BY <1>2 DEF FreshOK, LockedOK, SeenOK
<1>6. AskedOK /\ UntouchedOK /\ TakenOK /\ ButtonOK /\ FormOK
  BY <1>1, <1>3 DEF AskedOK, UntouchedOK, TakenOK, ButtonOK, FormOK
<1>7. LocksFollow /\ UnlockOK /\ RestOK
  BY <1>1 DEF LocksFollow, UnlockOK, RestOK, Inputs
<1>8. UpOK
  BY <1>1 DEF UpOK, Obsolete
<1> QED
  BY <1>4, <1>5, <1>6, <1>7, <1>8 DEF Requested

(* Nothing happens.                                                          *)
LEMMA StutterRequested ==
    ASSUME TypeOK, Requested, UNCHANGED vars
    PROVE  Requested'
<1>1. UNCHANGED <<visible, body_changed, last_body, value, enabled, value_set,
                  stage, request, loop, stack, todo, seen, decided, acted>>
  BY DEF vars, tree, fields, build, history
<1>2. \A k : /\ (Untouched(k)' <=> Untouched(k)) /\ (Shown(k)' <=> Shown(k))
             /\ (IsPostedTo(k)' <=> IsPostedTo(k)) /\ (Obsolete(k)' <=> Obsolete(k))
             /\ (Told(k)' <=> Told(k)) /\ (IsPosted(k)' <=> IsPosted(k)) /\ Posted(k)' = Posted(k)
  BY <1>1 DEF Untouched, Shown, IsPostedTo, PostIsFor, Obsolete, Told, Posted, IsPosted
<1>3. Key' = Key /\ (Asked' <=> Asked)
  BY <1>1 DEF Key, Asked
<1>4. PathOK' /\ EnteredOK' /\ RoundOK' /\ RequestOK'
  BY <1>1, <1>2 DEF Requested, PathOK, Top, EnteredOK, ShownOrDecided, RoundOK, RequestOK
<1>5. FreshOK' /\ LockedOK' /\ SeenOK'
  BY <1>1, <1>2 DEF Requested, FreshOK, LockedOK, SeenOK
<1>6. AskedOK' /\ UntouchedOK' /\ TakenOK'
  BY <1>1, <1>2, <1>3 DEF Requested, AskedOK, UntouchedOK, TakenOK
<1>7. ButtonOK' /\ FormOK'
  BY <1>1, <1>2, <1>3 DEF Requested, ButtonOK, FormOK
<1>8. LocksFollow' /\ UnlockOK' /\ RestOK' /\ UpOK'
  BY <1>1, <1>2 DEF Requested, LocksFollow, Told, UnlockOK, RestOK, UpOK
<1> QED
  BY <1>4, <1>5, <1>6, <1>7, <1>8 DEF Requested

-----------------------------------------------------------------------------
(* All that is asked is followed.                                            *)
LEMMA RequestedHolds == Spec => []Requested
<1>1. Init => Requested
  BY InitRequested
<1>2. IInv /\ Requested /\ [Next]_vars => Requested'
  <2> SUFFICES ASSUME IInv, Requested, [Next]_vars
               PROVE  Requested'
    OBVIOUS
  <2>1. TypeOK /\ Invs
    BY DEF IInv
  <2>2. CASE React
    <3>1. todo # <<>> /\ Aside
          /\ \/ SetVisible(Head(todo)) \/ SetValue(Head(todo)) \/ SetEnabled(Head(todo))
             \/ HasChanged(Head(todo)) \/ Lock(Head(todo))
      BY <2>2 DEF React, Aside, build
    <3> QED
      BY <2>1, <3>1, SetVisibleGoesOn, SetValueGoesOn, SetEnabledGoesOn, HasChangedGoesOn, LockGoesOn
  <2>3. CASE Evaluate
    BY <2>1, <2>3, FromCacheGoesOn, SkipGoesOn, EnterGoesOn, DescendGoesOn, ActChangedGoesOn,
       LeaveGoesOn, EndRoundGoesOn DEF Evaluate
  <2>4. CASE \E r \in Requests : GetBodyPart(r)
    BY <2>1, <2>4, GetBodyPartGoesOn
  <2>5. CASE UNCHANGED vars
    BY <2>1, <2>5, StutterRequested
  <2> QED
    BY <2>2, <2>3, <2>4, <2>5 DEF Next
<1> QED
  BY <1>1, <1>2, Invariance, PTL DEF Spec

(* What the user posts is taken as it was posted, and nothing else changes a *)
(* field behind his back: PostIsKept, for any page and any handlers          *)
(* (html_form_input::inherited_get_body_part).                               *)
THEOREM PostKept == Spec => PostIsKept
<1>1. IInv /\ Requested => PostIsTaken
  <2> SUFFICES ASSUME IInv, Requested, stage = "idle", DOMAIN request.posted # {},
                      NEW n \in seen \cap Fields, Untouched(n), IsPostedTo(n),
                      request.target \in Lineage[n],
                      n \in DOMAIN request.posted \/ Kind[n] = "check"
               PROVE  value[n] = IF n \in DOMAIN request.posted THEN request.posted[n] ELSE 0
    BY DEF PostIsTaken
  <2>1. stack = <<>>
    BY DEF IInv, Invs, StackOK
  <2>2. Unvisited(stack) = {} /\ Asked /\ IsPosted(n)
    BY <2>1, NoCalls DEF Requested, AskedOK, IsPosted
  <2>3. value[n] = Posted(n)
    BY <2>2 DEF Requested, TakenOK
  <2> QED
    BY <2>3 DEF Posted
<1>2. IInv /\ Requested /\ [Next]_vars =>
        [\A n \in Fields :
            Enter /\ value'[n] # value[n] =>
                /\ <<"lock", n>> \notin decided
                /\ \/ n \in seen \cup DOMAIN request.posted
                   \/ Kind[n] = "check" /\ <<"visible", n>> \in decided]_vars
  <2> SUFFICES ASSUME IInv, Requested, NEW n \in Fields, Enter, value'[n] # value[n]
               PROVE  /\ <<"lock", n>> \notin decided
                      /\ \/ n \in seen \cup DOMAIN request.posted
                         \/ Kind[n] = "check" /\ <<"visible", n>> \in decided
    OBVIOUS
  <2>1. TypeOK /\ Invs
    BY DEF IInv
  <2>2. /\ n = Top.node /\ TakesPost(n) /\ Posted(n) # value[n]
        /\ stage = "building" /\ todo = <<>> /\ stack # <<>> /\ Top.next = 0 /\ visible[n]
    BY <2>1 DEF Enter, Begins, TypeOK
  <2>3. Top.post /\ (Kind[n] = "radio" \/ enabled[n]) /\ ~value_set[n]
    BY <2>2 DEF TakesPost, MayTake
  <2>4. n \in Nodes /\ n \in Unvisited(stack) /\ n \in Posting(stack)
    <3>1. n \in Nodes
      BY FieldsAreNodes
    <3> QED
      BY <2>1, <2>2, <2>3, <3>1, CallsNow, LineageSelf DEF Below
  <2>5. loop = 0
    BY <2>4 DEF Requested, RoundOK
  <2>6. <<"lock", n>> \notin decided
    BY <2>3, <2>4, <2>5 DEF Requested, LockedOK
  <2>7. n \in DOMAIN request.posted \/ Kind[n] = "check"
    BY <2>2 DEF Posted
  <2>8. CASE n \notin DOMAIN request.posted /\ <<"visible", n>> \notin decided
    <3>1. Kind[n] = "check" /\ enabled[n]
      BY <2>3, <2>7, <2>8
    <3>2. Shown(n)
      BY <2>1, <2>2, <2>8, ReachedIsShown DEF Requested
    <3>3. n \notin Locks(todo)
      BY <2>2 DEF Locks
    <3> QED
      BY <2>3, <2>4, <2>5, <2>6, <3>1, <3>2, <3>3 DEF Requested, SeenOK
  <2> QED
    BY <2>6, <2>7, <2>8
<1> QED
  BY <1>1, <1>2, Invariance, RequestedHolds, PTL DEF Spec, PostIsKept, ChangesForAReason

(* The button that is pressed, or the form that is submitted, acts once if   *)
(* the user saw it, in however many rounds the page is built: ActsOnce, for  *)
(* any page and any handlers (html_button, html_form).                       *)
THEOREM ActedOnce == Spec => []ActsOnce
<1>1. IInv /\ Requested => ActsOnce
  <2> SUFFICES ASSUME IInv, Requested, NEW n, n = request.target, stage = "idle", loop > 0,
                      n \in Emitters \ Fields, Untouched(n)
               PROVE  acted = IF n \in seen THEN 1 ELSE 0
    BY DEF ActsOnce
  <2>1. stack = <<>> /\ loop # 0
    BY DEF IInv, Invs, StackOK, TypeOK
  <2>2. Unvisited(stack) = {} /\ Entered(stack) = {} /\ Asked
    BY <2>1, NoCalls DEF Asked
  <2>4. Kind[n] = "button" \/ Kind[n] = "form"
    BY DEF Emitters
  <2>5. CASE Kind[n] = "button"
    BY <2>1, <2>2, <2>5 DEF Requested, ButtonOK
  <2>6. CASE Kind[n] = "form"
    BY <2>1, <2>2, <2>6 DEF Requested, FormOK
  <2> QED
    BY <2>4, <2>5, <2>6
<1> QED
  BY <1>1, Invariance, RequestedHolds, PTL

=============================================================================
