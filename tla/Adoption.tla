------------------------------ MODULE Adoption ------------------------------
(* How components are put in and taken out of each other (body_builder):     *)
(* adopt, foresake and the destructor, on a record that holds the order of   *)
(* the children of each component, its parent, and whether one of the checks *)
(* on the way failed (WEBDAR_BUG). The names that children get do not matter *)
(* here: they are unique among siblings.                                     *)
EXTENDS SequencesExt

CONSTANT None

Fostered(t, p, o) == o \in Range(t.children[p])

(* adopt: a component that has no parent becomes the last child of p.        *)
Adopt(t, p, o) ==
    IF o = p \/ Fostered(t, p, o) \/ t.parent[o] # None
    THEN [t EXCEPT !.bug = TRUE]
    ELSE [t EXCEPT !.children[p] = Append(@, o), !.parent[o] = p]

(* What is left of a list of components without those of S.                  *)
Without(list, S) ==
    FoldLeft(LAMBDA kept, c : IF c \in S THEN kept ELSE Append(kept, c), <<>>, list)

(* foresake.                                                                 *)
Foresake(t, p, o) ==
    IF ~Fostered(t, p, o) \/ t.parent[o] = None
    THEN [t EXCEPT !.bug = TRUE]
    ELSE [t EXCEPT !.children[p] = Without(@, {o}),
                   !.parent[o] = None]

(* Mutant: the parents of what is destroyed still list it.                   *)
DestroyListed(t, S) ==
    [t EXCEPT !.children = [p \in DOMAIN t.children |->
                                IF p \in S THEN <<>> ELSE t.children[p]],
              !.parent = [o \in DOMAIN t.parent |->
                             IF o \in S \/ t.parent[o] \in S
                             THEN None ELSE t.parent[o]]]

(* The destructors of the components of S: each one orphans its children and *)
(* leaves its parent.                                                        *)
Destroy(t, S) ==
    [t EXCEPT !.children = [p \in DOMAIN t.children |->
                  IF p \in S THEN <<>>
                  ELSE Without(t.children[p], S)],
              !.parent = [o \in DOMAIN t.parent |->
                             IF o \in S \/ t.parent[o] \in S
                             THEN None ELSE t.parent[o]]]

(* Each component is once among the children of its parent, and nowhere else.*)
IsForest(t) ==
    /\ ~t.bug
    /\ \A o \in DOMAIN t.parent, p \in DOMAIN t.children :
          Fostered(t, p, o) <=> t.parent[o] = p
    /\ \A p \in DOMAIN t.children : IsInjective(t.children[p])
=============================================================================
