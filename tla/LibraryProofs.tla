---------------------------- MODULE LibraryProofs ----------------------------
(* Proofs about Library, for any categories, guichets and configurations:    *)
(* the records of who relies on whom stay exact, and what the user changed   *)
(* is written before the library is said to be saved.  Then about Options,   *)
(* the forms whose configurations the library holds: they show what their    *)
(* values ask for, depend on what they name, and pass on what they show.     *)
EXTENDS Library, Options, SequenceTheorems, FiniteSetTheorems, TLAPS

(* The configurations that one may reach from S are those of the graph next. *)
IsGraph(next) ==
    DOMAIN next \subseteq Coordinates /\ \A c \in DOMAIN next : next[c] \subseteq Coordinates

Acyclic(next) == \A c \in DOMAIN next : c \notin Closure(next, next[c])

DependentsStored(lib) == \A c \in DOMAIN lib : lib[c].dependency \subseteq DOMAIN lib

(* What every library is: the one in memory, and the one in the file.        *)
IsSound(lib) == IsLibrary(lib) /\ DependentsStored(lib) /\ Acyclic(Contents(lib))

SoundLibraries == IsSound(content) /\ (file \in {Absent, Bare} \/ IsSound(file))

IInv == TypeOK /\ SoundLibraries

(* TypeOK in parts: what the guichets select and lock, the lists of the      *)
(* boutiques, the flags.                                                     *)
OneEach(sel) ==
    /\ sel \in [Holders -> SUBSET Coordinates]
    /\ \A w \in Wickets : Cardinality(sel[w]) <= 1

GuichetsOK == OneEach(selected) /\ outside \in [Coordinates -> SUBSET Selections]

Names == [Categories -> Coordinates \cup {None}]

ListsOK ==
    /\ listing \in [Categories -> SUBSET Coordinates]
    /\ listed \in Names /\ loaded \in Names

FlagsOK ==
    /\ intact \in BOOLEAN /\ (~intact => content = <<>> /\ saved)
    /\ saved \in BOOLEAN /\ autosave \in BOOLEAN /\ asked \in BOOLEAN
    /\ context \in {"undefined", "load", "clear"}
    /\ asked => context # "undefined"

(* The step of ChangesAreWritten.                                            *)
Written ==
    saved' /\ Contents(content') # Contents(content)
        => content' \in {file', file, <<>>}

-----------------------------------------------------------------------------
(* What is reached contains S and is closed, ...                             *)
LEMMA ClosureIsClosed ==
    ASSUME NEW next, IsGraph(next), NEW S \in SUBSET Coordinates
    PROVE  /\ Closure(next, S) \subseteq Coordinates
           /\ S \subseteq Closure(next, S)
           /\ IsClosed(next, Closure(next, S))
<1>1. Closure(next, S) \subseteq Coordinates /\ S \subseteq Closure(next, S)
  BY DEF Closure
<1>2. ASSUME NEW c \in Closure(next, S) \cap DOMAIN next, NEW d \in next[c]
      PROVE  d \in Closure(next, S)
  <2>1. ASSUME NEW T \in SUBSET Coordinates, S \subseteq T, IsClosed(next, T)
        PROVE  d \in T
    BY <2>1 DEF Closure, IsClosed
  <2> QED
    BY <2>1 DEF Closure, IsGraph
<1> QED
  BY <1>1, <1>2 DEF IsClosed

(* ... and it is the least such set.                                         *)
LEMMA ClosureIsLeast ==
    ASSUME NEW next, NEW S, NEW T \in SUBSET Coordinates, S \subseteq T,
           IsClosed(next, T)
    PROVE  Closure(next, S) \subseteq T
  BY DEF Closure

(* Forgetting configurations makes no cycle.                                 *)
LEMMA RestrictionIsAcyclic ==
    ASSUME NEW old, NEW new, IsGraph(old), Acyclic(old),
           DOMAIN new \subseteq DOMAIN old, \A c \in DOMAIN new : new[c] = old[c]
    PROVE  Acyclic(new)
<1> SUFFICES ASSUME NEW c \in DOMAIN new PROVE c \notin Closure(new, new[c])
  BY DEF Acyclic
<1>1. old[c] \in SUBSET Coordinates /\ c \in DOMAIN old /\ new[c] = old[c]
  BY DEF IsGraph
<1> DEFINE T == Closure(old, old[c])
<1>2. T \subseteq Coordinates /\ old[c] \subseteq T /\ IsClosed(old, T)
  BY <1>1, ClosureIsClosed
<1>3. IsClosed(new, T)
  BY <1>2 DEF IsClosed
<1>4. Closure(new, new[c]) \subseteq T
  <2> HIDE DEF T
  <2> QED
    BY <1>1, <1>2, <1>3, ClosureIsLeast
<1> QED
  BY <1>1, <1>4 DEF Acyclic

(* Nor does a configuration c that does not reach itself, whether or not it  *)
(* was known: what reaches c does not come from what c relies on.            *)
LEMMA ExtensionIsAcyclic ==
    ASSUME NEW old, NEW new, IsGraph(old), Acyclic(old),
           NEW c \in Coordinates, NEW config \in SUBSET Coordinates,
           DOMAIN new = DOMAIN old \cup {c}, new[c] = config,
           \A d \in DOMAIN old \ {c} : new[d] = old[d],
           c \notin Closure(old, config)
    PROVE  Acyclic(new)
<1> DEFINE T == Closure(old, config)
<1>1. T \subseteq Coordinates /\ config \subseteq T /\ IsClosed(old, T) /\ c \notin T
  BY ClosureIsClosed
<1>2. IsClosed(new, T)
  BY <1>1 DEF IsClosed
<1> HIDE DEF T
<1>3. c \notin Closure(new, new[c])
  BY <1>1, <1>2, ClosureIsLeast
<1>4. ASSUME NEW d \in DOMAIN old \ {c}, d \in Closure(new, new[d])
      PROVE  FALSE
  <2> DEFINE U == Closure(old, old[d])
  <2>1. /\ U \subseteq Coordinates /\ old[d] \subseteq U /\ IsClosed(old, U)
        /\ d \notin U
    BY ClosureIsClosed DEF IsGraph, Acyclic
  <2> HIDE DEF U
  <2>2. new[d] = old[d]
    OBVIOUS
  <2>3. CASE c \notin U
    <3>1. IsClosed(new, U)
      BY <2>1, <2>3 DEF IsClosed
    <3> QED
      BY <1>4, <2>1, <2>2, <3>1, ClosureIsLeast
  <2>4. CASE c \in U
    <3>1. IsClosed(new, U \cup T)
      BY <1>1, <2>1 DEF IsClosed
    <3>2. d \in T
      <4>1. Closure(new, new[d]) \subseteq U \cup T
        BY <1>1, <2>1, <2>2, <3>1, ClosureIsLeast
      <4> QED
        BY <1>4, <2>1, <4>1
    <3>3. old[d] \subseteq T
      BY <1>1, <3>2 DEF IsClosed
    <3>4. U \subseteq T
      BY <1>1, <3>3, ClosureIsLeast DEF U
    <3> QED
      BY <1>1, <2>4, <3>4
  <2> QED
    BY <2>3, <2>4
<1> QED
  BY <1>3, <1>4 DEF Acyclic

-----------------------------------------------------------------------------
(* The records change, the configurations do not.                            *)
LEMMA RecordsOnly ==
    ASSUME NEW lib, IsLibrary(lib), NEW user \in Coordinates, NEW refs
    PROVE  /\ IsLibrary(AddDependencies(lib, user, refs))
           /\ IsLibrary(RemoveDependencies(lib, user))
           /\ DOMAIN AddDependencies(lib, user, refs) = DOMAIN lib
           /\ DOMAIN RemoveDependencies(lib, user) = DOMAIN lib
           /\ Contents(AddDependencies(lib, user, refs)) = Contents(lib)
           /\ Contents(RemoveDependencies(lib, user)) = Contents(lib)
  BY DEF IsLibrary, AddDependencies, RemoveDependencies, Contents

(* What the configurations select, as a graph.                               *)
LEMMA ContentsIsGraph ==
    ASSUME NEW lib, IsLibrary(lib)
    PROVE  IsGraph(Contents(lib)) /\ DOMAIN Contents(lib) = DOMAIN lib
  BY DEF IsLibrary, Contents, IsGraph

(* The configurations that a component uses are among those that exist.      *)
LEMMA UsingSetIsGraph ==
    ASSUME NEW lib, IsLibrary(lib), NEW S \in SUBSET Coordinates
    PROVE  UsingSet(lib, S) \in SUBSET Coordinates
  BY DEF UsingSet, Closure

(* What the library accepts does not rely on itself: what refs records for c *)
(* in the library is followed from c by check_against_cyclic_dependencies.   *)
LEMMA AcceptedIsNew ==
    ASSUME NEW lib, IsLibrary(lib), NEW c \in Coordinates,
           NEW refs \in SUBSET Coordinates, Accepts(lib, c, refs), c \in DOMAIN lib
    PROVE  c \notin refs
<1> SUFFICES ASSUME c \in refs PROVE IsCyclic(AddDependencies(lib, c, refs), c)
  BY DEF Accepts
<1> DEFINE new == AddDependencies(lib, c, refs)
           next == DirectDependencies(new)
<1>1. IsLibrary(new) /\ c \in new[c].dependency /\ c \in DOMAIN new
  <2>1. IsLibrary(new) /\ DOMAIN new = DOMAIN lib
    BY RecordsOnly
  <2>2. c \in new[c].dependency
    BY DEF AddDependencies, IsLibrary
  <2> QED
    BY <2>1, <2>2
<1>2. IsGraph(next) /\ c \in DOMAIN next /\ c \in next[c]
  BY <1>1 DEF DirectDependencies, IsGraph, IsLibrary
<1> HIDE DEF new, next
<1>3. c \in Closure(next, {c}) /\ c \in Closure(next, next[c])
  <2>1. {c} \in SUBSET Coordinates /\ next[c] \in SUBSET Coordinates
    BY <1>2 DEF IsGraph
  <2> QED
    BY <1>2, <2>1, ClosureIsClosed
<1> QED
  BY <1>3 DEF IsCyclic, new, next

-----------------------------------------------------------------------------
(* add_config keeps the library sound, ...                                   *)
LEMMA AddedIsSound ==
    ASSUME NEW lib, IsSound(lib), NEW c \in Coordinates,
           NEW config \in SUBSET Coordinates,
           CanAdd(lib, c, UsingSet(lib, config))
    PROVE  IsSound(Added(lib, c, config, UsingSet(lib, config)))
<1> DEFINE refs == UsingSet(lib, config)
           new == Added(lib, c, config, refs)
<1>1. IsLibrary(lib) /\ DependentsStored(lib) /\ Acyclic(Contents(lib))
  BY DEF IsSound
<1>2. refs \in SUBSET Coordinates
  BY <1>1, UsingSetIsGraph
<1>3. c \notin refs /\ c \notin DOMAIN lib
  BY DEF CanAdd, Accepts
<1> HIDE DEF refs
<1>4. /\ DOMAIN new = DOMAIN lib \cup {c}
      /\ new[c] = [config |-> config, dependency |-> {}]
      /\ \A d \in DOMAIN lib :
            new[d] = IF d \in refs
                     THEN [lib[d] EXCEPT !.dependency = @ \cup {c}] ELSE lib[d]
  BY <1>3 DEF Added, AddDependencies
<1> HIDE DEF new
<1>5. IsLibrary(new)
  BY <1>1, <1>4 DEF IsLibrary
<1>6. DependentsStored(new)
  BY <1>1, <1>4 DEF IsLibrary, DependentsStored
<1>7. Acyclic(Contents(new))
  <2>1. c \notin Closure(Contents(lib), config)
    BY <1>3 DEF refs, UsingSet
  <2>2. /\ DOMAIN Contents(new) = DOMAIN Contents(lib) \cup {c}
        /\ Contents(new)[c] = config
        /\ \A d \in DOMAIN Contents(lib) \ {c} :
              Contents(new)[d] = Contents(lib)[d]
    BY <1>1, <1>4 DEF Contents, IsLibrary
  <2>3. IsGraph(Contents(lib))
    BY <1>1, ContentsIsGraph
  <2> QED
    BY <1>1, <2>1, <2>2, <2>3, ExtensionIsAcyclic
<1> QED
  BY <1>5, <1>6, <1>7 DEF IsSound, new, refs

(* ... also when it refuses, ...                                             *)
LEMMA RemovedIsSound ==
    ASSUME NEW lib, IsSound(lib), NEW c \in Coordinates
    PROVE  IsSound(RemoveDependencies(lib, c))
<1>1. IsLibrary(lib) /\ DependentsStored(lib) /\ Acyclic(Contents(lib))
  BY DEF IsSound
<1>2. DependentsStored(RemoveDependencies(lib, c))
  BY <1>1 DEF DependentsStored, RemoveDependencies, IsLibrary
<1> QED
  BY <1>1, <1>2, RecordsOnly DEF IsSound

(* ... so does update_config: the configuration it changes loses the records *)
(* of what it relied on before, not what others record of it, ...            *)
LEMMA UpdatedIsSound ==
    ASSUME NEW lib, IsSound(lib), NEW c \in Coordinates,
           NEW config \in SUBSET Coordinates,
           CanUpdate(lib, c, UsingSet(lib, config))
    PROVE  IsSound(Updated(lib, c, config, UsingSet(lib, config)))
<1> DEFINE refs == UsingSet(lib, config)
           bare == RemoveDependencies(lib, c)
           new == Updated(lib, c, config, refs)
<1>1. IsLibrary(lib) /\ Acyclic(Contents(lib))
  BY DEF IsSound
<1>2. refs \in SUBSET Coordinates
  BY <1>1, UsingSetIsGraph
<1>3. /\ IsLibrary(bare) /\ DependentsStored(bare)
      /\ DOMAIN bare = DOMAIN lib /\ Contents(bare) = Contents(lib)
  BY <1>1, RemovedIsSound, RecordsOnly DEF IsSound
<1> HIDE DEF refs
<1>4. c \in DOMAIN bare /\ Accepts(bare, c, refs)
  BY <1>3 DEF CanUpdate, refs
<1>5. new = [AddDependencies(bare, c, refs) EXCEPT ![c].config = config]
  BY DEF Updated
<1> HIDE DEF bare, new
<1>6. c \notin refs
  BY <1>2, <1>3, <1>4, AcceptedIsNew
<1>7. /\ DOMAIN new = DOMAIN bare
      /\ new[c] = [bare[c] EXCEPT !.config = config]
      /\ \A d \in DOMAIN bare \ {c} :
            new[d] = IF d \in refs
                     THEN [bare[d] EXCEPT !.dependency = @ \cup {c}] ELSE bare[d]
  BY <1>4, <1>5, <1>6 DEF AddDependencies
<1>8. IsLibrary(new)
  BY <1>3, <1>4, <1>7 DEF IsLibrary
<1>9. DependentsStored(new)
  BY <1>3, <1>4, <1>7 DEF IsLibrary, DependentsStored
<1>10. Acyclic(Contents(new))
  <2>1. c \notin Closure(Contents(lib), config)
    BY <1>6 DEF refs, UsingSet
  <2>2. /\ DOMAIN Contents(new) = DOMAIN Contents(bare) \cup {c}
        /\ Contents(new)[c] = config
        /\ \A d \in DOMAIN Contents(bare) \ {c} :
              Contents(new)[d] = Contents(bare)[d]
    BY <1>3, <1>4, <1>7 DEF Contents, IsLibrary
  <2>3. IsGraph(Contents(lib))
    BY <1>1, ContentsIsGraph
  <2> QED
    BY <1>1, <1>3, <2>1, <2>2, <2>3, ExtensionIsAcyclic
<1> QED
  BY <1>8, <1>9, <1>10 DEF IsSound, new, refs

(* ... and delete_config of what nobody records, which drops its own records.*)
LEMMA DeletedIsSound ==
    ASSUME NEW lib, IsSound(lib), NEW c \in Coordinates
    PROVE  IsSound(Deleted(lib, c))
<1> DEFINE bare == RemoveDependencies(lib, c)
           new == Deleted(lib, c)
<1>1. IsLibrary(bare) /\ DependentsStored(bare) /\ Acyclic(Contents(bare))
  BY RemovedIsSound DEF IsSound
<1>2. \A d \in DOMAIN bare : c \notin bare[d].dependency
  BY DEF RemoveDependencies, IsSound, IsLibrary
<1>3. DOMAIN new = DOMAIN bare \ {c} /\ \A d \in DOMAIN new : new[d] = bare[d]
  BY DEF Deleted, RemoveDependencies
<1> HIDE DEF bare, new
<1>4. IsLibrary(new) /\ DependentsStored(new)
  BY <1>1, <1>2, <1>3 DEF IsLibrary, DependentsStored
<1>5. Acyclic(Contents(new))
  <2>1. /\ DOMAIN Contents(new) \subseteq DOMAIN Contents(bare)
        /\ \A d \in DOMAIN Contents(new) : Contents(new)[d] = Contents(bare)[d]
    BY <1>3 DEF Contents
  <2>2. IsGraph(Contents(bare))
    BY <1>1, ContentsIsGraph
  <2> QED
    BY <1>1, <2>1, <2>2, RestrictionIsAcyclic
<1> QED
  BY <1>4, <1>5 DEF IsSound, new

(* A library just cleared.                                                   *)
LEMMA EmptyIsSound == IsSound(<<>>)
<1>1. DOMAIN <<>> = {}
  OBVIOUS
<1>2. DOMAIN Contents(<<>>) = {}
  BY <1>1 DEF Contents
<1> QED
  BY <1>1, <1>2 DEF IsSound, IsLibrary, DependentsStored, Acyclic

(* TypeOK is its parts.                                                      *)
LEMMA TypeParts ==
    TypeOK <=> /\ IsLibrary(content) /\ (file \in {Absent, Bare} \/ IsLibrary(file))
               /\ GuichetsOK /\ ListsOK /\ FlagsOK
  BY DEF TypeOK, GuichetsOK, OneEach, ListsOK, Names, FlagsOK

(* The invariant after a step is that of its parts.                          *)
LEMMA PartsMakeInvariant ==
    ASSUME SoundLibraries', GuichetsOK', ListsOK', FlagsOK'
    PROVE  IInv'
<1>1. IsLibrary(content') /\ (file' \in {Absent, Bare} \/ IsLibrary(file'))
  BY DEF SoundLibraries, IsSound
<1> QED
  BY <1>1 DEF IInv, TypeOK, GuichetsOK, OneEach, ListsOK, Names, FlagsOK

-----------------------------------------------------------------------------
(* A wicket never selects two configurations.                                *)
LEMMA SmallSets ==
    /\ Cardinality({}) <= 1
    /\ \A c : Cardinality({c}) <= 1
    /\ \A S \in SUBSET Coordinates :
          Cardinality(S) <= 1 => \A T \in SUBSET S : Cardinality(T) <= 1
<1>1. Cardinality({}) = 0
  BY FS_EmptySet
<1>2. ASSUME NEW S \in SUBSET Coordinates, NEW T, T \subseteq S, Cardinality(S) <= 1
      PROVE  Cardinality(T) <= 1
  <2>1. IsFiniteSet(S)
    BY LibraryAssumption, FS_Subset
  <2>2. /\ IsFiniteSet(T) /\ Cardinality(T) <= Cardinality(S)
        /\ Cardinality(S) \in Nat /\ Cardinality(T) \in Nat
    BY <1>2, <2>1, FS_Subset, FS_CardinalityType
  <2> QED
    BY <1>2, <2>2
<1>3. Cardinality({}) <= 1
  BY <1>1
<1>4. ASSUME NEW c PROVE Cardinality({c}) <= 1
  <2>1. Cardinality({c}) = 1
    BY FS_Singleton
  <2> QED
    BY <2>1
<1> QED
  BY <1>2, <1>3, <1>4, Zenon

(* Select only gives locks to guichets on configurations that exist.         *)
LEMMA SelectKeeps ==
    ASSUME NEW lib, NEW new, OneEach(new), NEW again, Select(lib, new, again)
    PROVE  GuichetsOK'
<1>1. selected' = new /\ outside' \in [Coordinates -> SUBSET Selections]
  BY DEF Select
<1> QED
  BY <1>1 DEF GuichetsOK, OneEach

(* The forms are not wickets: what is set in a form leaves a wicket alone.   *)
LEMMA HoldersDiffer ==
    /\ \A w \in Wickets : /\ w \in Holders /\ FormOf(w) \in Holders
                          /\ FormOf(w) \notin Wickets /\ CategoryOf[w] \in Categories
    /\ \A k \in Categories : k \in Holders /\ k \notin Wickets
  BY LibraryAssumption DEF Holders, Forms, FormOf

(* A form is set, ...                                                        *)
LEMMA FormChangeKeeps ==
    ASSUME NEW sel, OneEach(sel), NEW x \in Holders \ Wickets,
           NEW S \in SUBSET Coordinates
    PROVE  OneEach([sel EXCEPT ![x] = S])
  BY DEF OneEach

(* ... or a wicket, to one configuration at most.                            *)
LEMMA WicketChangeKeeps ==
    ASSUME NEW sel, OneEach(sel), NEW w \in Wickets,
           NEW S \in SUBSET Coordinates, Cardinality(S) <= 1
    PROVE  OneEach([sel EXCEPT ![w] = S])
  BY HoldersDiffer DEF OneEach

(* What a loading that fails halfway leaves.                                 *)
LEMMA PartialLoadsTyped ==
    ASSUME NEW lib, IsLibrary(lib), NEW c \in DOMAIN lib, OneEach(selected),
           NEW x \in Holders, NEW P \in PartialLoads(lib, c, x)
    PROVE  P \in SUBSET Coordinates
  BY DEF PartialLoads, IsLibrary, OneEach

(* An event only makes a wicket keep or forget what it selects.              *)
LEMMA AfterEventKeeps ==
    ASSUME NEW lib, IsLibrary(lib), NEW A, NEW P \in SUBSET Coordinates,
           OneEach(selected)
    PROVE  OneEach(AfterEvent(lib, A, P))
<1> DEFINE new == AfterEvent(lib, A, P)
<1>1. ASSUME NEW w \in Wickets PROVE FormAfter(lib, A, w, P) \in SUBSET Coordinates
  BY DEF FormAfter, IsLibrary
<1>2. ASSUME NEW x \in Holders PROVE new[x] \in SUBSET Coordinates
  <2>1. CASE \E w \in {p[1] : p \in A} \cap Wickets : x = FormOf(w)
    BY <1>1, <2>1 DEF AfterEvent
  <2>2. CASE ~ \E w \in {p[1] : p \in A} \cap Wickets : x = FormOf(w)
    BY <2>2 DEF AfterEvent, OneEach
  <2> QED
    BY <2>1, <2>2
<1>3. new \in [Holders -> SUBSET Coordinates]
  BY <1>2 DEF AfterEvent
<1>4. ASSUME NEW w \in Wickets PROVE Cardinality(new[w]) <= 1
  <2>1. w \in Holders /\ \A v \in Wickets : w # FormOf(v)
    BY HoldersDiffer
  <2>2. new[w] \subseteq selected[w]
    BY <2>1 DEF AfterEvent
  <2> QED
    BY <2>1, <2>2, SmallSets DEF OneEach
<1> QED
  BY <1>3, <1>4 DEF OneEach

(* The event changed() keeps the types of what its listeners hold.           *)
LEMMA AnnounceKeeps ==
    ASSUME NEW lib, IsLibrary(lib), NEW ld \in Names, NEW Q,
           NEW h \in Hearers(lib, Q), TypeOK, Announce(lib, ld, h)
    PROVE  /\ GuichetsOK'
           /\ listing' \in [Categories -> SUBSET Coordinates] /\ listed' \in Names
<1>1. OneEach(selected) /\ listed \in Names
      /\ listing \in [Categories -> SUBSET Coordinates]
  BY TypeParts DEF GuichetsOK, ListsOK
<1>2. DOMAIN lib \subseteq Coordinates
  BY DEF IsLibrary
<1>3. listing' \in [Categories -> SUBSET Coordinates] /\ listed' \in Names
  BY <1>1, <1>2 DEF Announce, ListAgain, Names
<1>4. PICK P \in {{}} \cup UNION {PartialLoads(lib, p[2], FormOf(p[1])) :
                    p \in {q \in h[2] \cap Failing(lib, h[1]) : q[1] \in Wickets}} :
         Select(lib, AfterEvent(lib, h[2], P), Reloaded(h[2]))
  BY DEF Announce
<1>5. P \in SUBSET Coordinates
  <2>1. CASE P = {}
    BY <2>1
  <2>2. ASSUME NEW p \in Failing(lib, h[1]), p[1] \in Wickets,
               P \in PartialLoads(lib, p[2], FormOf(p[1]))
        PROVE  P \in SUBSET Coordinates
    BY <1>1, <2>2, HoldersDiffer, PartialLoadsTyped DEF Failing
  <2> QED
    BY <1>4, <2>1, <2>2
<1>6. OneEach(AfterEvent(lib, h[2], P))
  BY <1>1, <1>5, AfterEventKeeps
<1> QED
  BY <1>3, <1>4, <1>6, SelectKeeps

(* The loaded name of a boutique that hears the event.                       *)
LEMMA LoadedAfterTyped ==
    ASSUME NEW lib, NEW ld \in Names, NEW h
    PROVE  LoadedAfter(lib, ld, h) \in Names
  BY DEF LoadedAfter, Names

(* set_saved_status: what is saved by it is in the file.                     *)
LEMMA SavedStatus ==
    ASSUME NEW lib, NEW sv \in BOOLEAN, autosave \in BOOLEAN, SetSavedStatus(lib, sv)
    PROVE  /\ saved' \in BOOLEAN /\ file' \in {lib, file}
           /\ sv => saved'
           /\ saved' /\ ~sv => file' = lib
  BY DEF SetSavedStatus

-----------------------------------------------------------------------------
(* What a step may use of the state it starts from.                          *)
LEMMA InvariantParts ==
    ASSUME IInv
    PROVE  /\ TypeOK /\ IsSound(content) /\ IsLibrary(content)
           /\ file \in {Absent, Bare} \/ IsSound(file)
           /\ GuichetsOK /\ ListsOK /\ FlagsOK
           /\ OneEach(selected) /\ loaded \in Names /\ listed \in Names
           /\ autosave \in BOOLEAN /\ saved \in BOOLEAN
  BY TypeParts DEF IInv, SoundLibraries, IsSound, GuichetsOK, ListsOK, FlagsOK

(* A request that leaves the library as it is, and perhaps saves it.         *)
LEMMA SameContent ==
    ASSUME IInv, content' = content, intact' = intact, autosave' = autosave,
           asked' = asked, context' = context,
           SetSavedStatus(content, saved) \/ UNCHANGED <<saved, file>>
    PROVE  SoundLibraries' /\ FlagsOK' /\ Written
<1>1. file' \in {content, file} /\ saved' \in BOOLEAN /\ (saved => saved')
  BY InvariantParts, SavedStatus
<1> QED
  BY <1>1, InvariantParts DEF SoundLibraries, FlagsOK, Written

(* The guichets of a form are edited in the Configure pages, ...             *)
LEMMA LineKeeps ==
    ASSUME IInv, NEW x \in Holders \ Wickets, NEW k, NEW c \in Coordinates,
           AddLine(x, k, c) \/ RemoveLine(x, c)
    PROVE  GuichetsOK'
<1>1. OneEach(selected)
  BY InvariantParts
<1>2. PICK S \in SUBSET Coordinates : Select(content, [selected EXCEPT ![x] = S], {})
  BY <1>1 DEF AddLine, RemoveLine, OneEach
<1> QED
  BY <1>1, <1>2, FormChangeKeeps, SelectKeeps

(* A line of the component of a boutique.                                    *)
LEMMA EditFormStep ==
    ASSUME IInv, NEW k \in Categories, NEW c \in Coordinates, EditForm(k, c)
    PROVE  IInv' /\ Written
<1>1. GuichetsOK'
  BY HoldersDiffer, LineKeeps DEF EditForm
<1>2. SoundLibraries' /\ FlagsOK' /\ Written
  BY SameContent DEF EditForm
<1>3. ListsOK'
  BY InvariantParts DEF EditForm, ListsOK
<1> QED
  BY <1>1, <1>2, <1>3, PartsMakeInvariant

(* ... or in the page of a wicket in manual mode.                            *)
LEMMA EditWicketStep ==
    ASSUME IInv, NEW w \in Wickets, NEW c \in Coordinates, EditWicket(w, c)
    PROVE  IInv' /\ Written
<1>1. GuichetsOK'
  BY HoldersDiffer, LineKeeps DEF EditWicket
<1>2. SoundLibraries' /\ FlagsOK' /\ Written
  BY SameContent DEF EditWicket
<1>3. ListsOK'
  BY InvariantParts DEF EditWicket, ListsOK
<1> QED
  BY <1>1, <1>2, <1>3, PartsMakeInvariant

(* Nothing is added to a library that lost its categories.                   *)
LEMMA RefusedKeeps ==
    ASSUME IInv, NEW c \in Coordinates,
           content' = NotAdded(content, c) \/ content' = NotUpdated(content, c)
    PROVE  /\ IsSound(content') /\ Contents(content') = Contents(content)
           /\ ~intact => content' = <<>>
<1>1. content' \in {content, RemoveDependencies(content, c)}
  BY DEF NotAdded, NotUpdated
<1>2. RemoveDependencies(<<>>, c) = <<>>
  BY DEF RemoveDependencies
<1> QED
  BY <1>1, <1>2, InvariantParts, RemovedIsSound, RecordsOnly DEF FlagsOK

(* add_config or update_config, accepted or refused after the loaded name.   *)
LEMMA SaveFormStep ==
    ASSUME IInv, NEW c \in Coordinates, SaveForm(c)
    PROVE  IInv' /\ Written
<1> DEFINE k == c.cat
           config == selected[k]
           refs == UsingSet(content, config)
           isNew == c # loaded[k]
           ld == [loaded EXCEPT ![k] = c]
<1>1. k \in Categories /\ config \in SUBSET Coordinates /\ ld \in Names
  BY InvariantParts, HoldersDiffer, LibraryAssumption DEF Names, OneEach
<1>2. CASE /\ \/ /\ isNew /\ CanAdd(content, c, refs)
                 /\ content' = Added(content, c, config, refs)
              \/ /\ ~isNew /\ CanUpdate(content, c, refs)
                 /\ content' = Updated(content, c, config, refs)
           /\ \E h \in Hearers(content', {k}) :
                 /\ Announce(content', ld, h)
                 /\ loaded' = LoadedAfter(content', ld, h)
           /\ SetSavedStatus(content', FALSE)
  <2>1. IsSound(content') /\ intact
    BY <1>1, <1>2, InvariantParts, AddedIsSound, UpdatedIsSound
    DEF CanAdd, CanUpdate, Accepts
  <2>2. PICK h \in Hearers(content', {k}) :
            Announce(content', ld, h) /\ loaded' = LoadedAfter(content', ld, h)
    BY <1>2
  <2> HIDE DEF k, ld
  <2>3. GuichetsOK' /\ ListsOK'
    BY <1>1, <2>1, <2>2, InvariantParts, AnnounceKeeps, LoadedAfterTyped
    DEF IsSound, ListsOK
  <2>4. saved' \in BOOLEAN /\ file' \in {content', file} /\ (saved' => file' = content')
    BY <1>2, InvariantParts, SavedStatus
  <2>5. SoundLibraries' /\ Written
    BY <2>1, <2>4, InvariantParts DEF SoundLibraries, Written
  <2>6. FlagsOK'
    BY <2>1, <2>4, InvariantParts DEF FlagsOK, SaveForm
  <2> QED
    BY <2>3, <2>5, <2>6, PartsMakeInvariant
<1>3. CASE /\ content' \in {NotAdded(content, c), NotUpdated(content, c)}
           /\ loaded' = ld
           /\ SetSavedStatus(content', saved)
           /\ UNCHANGED <<outside, selected, listing, listed>>
  <2>1. /\ IsSound(content') /\ Contents(content') = Contents(content)
        /\ ~intact => content' = <<>>
    BY <1>3, RefusedKeeps
  <2>2. saved' \in BOOLEAN /\ file' \in {content', file} /\ (saved => saved')
    BY <1>3, InvariantParts, SavedStatus
  <2>3. SoundLibraries' /\ Written
    BY <2>1, <2>2, InvariantParts DEF SoundLibraries, Written
  <2>4. FlagsOK'
    BY <2>1, <2>2, InvariantParts DEF FlagsOK, SaveForm
  <2>5. GuichetsOK' /\ ListsOK'
    BY <1>1, <1>3, InvariantParts DEF GuichetsOK, ListsOK
  <2> QED
    BY <2>3, <2>4, <2>5, PartsMakeInvariant
<1> QED
  BY <1>2, <1>3 DEF SaveForm

(* A boutique is loaded, maybe halfway.                                      *)
LEMMA LoadFormStep ==
    ASSUME IInv, NEW c \in Coordinates, LoadForm(c)
    PROVE  IInv' /\ Written
<1> DEFINE k == c.cat
<1>1. k \in Categories /\ k \in Holders \ Wickets
  BY HoldersDiffer, LibraryAssumption
<1>2. GuichetsOK'
  <2>1. CASE UNCHANGED <<outside, selected>>
    BY <2>1, InvariantParts DEF GuichetsOK
  <2>2. ASSUME NEW S \in SUBSET Coordinates,
               Select(content, [selected EXCEPT ![k] = S], {k} \X Coordinates)
        PROVE  GuichetsOK'
    BY <1>1, <2>2, InvariantParts, FormChangeKeeps, SelectKeeps
  <2>3. CASE /\ IsLoadable(content, c)
             /\ Select(content, [selected EXCEPT ![k] = content[c].config],
                       {k} \X Coordinates)
    <3>1. c \in DOMAIN content
      <4>1. {c} \in SUBSET Coordinates /\ IsGraph(Contents(content))
        BY InvariantParts, ContentsIsGraph
      <4> QED
        BY <2>3, <4>1, ClosureIsClosed DEF IsLoadable, UsingSet
    <3>2. content[c].config \in SUBSET Coordinates
      BY <3>1, InvariantParts DEF IsLibrary
    <3> QED
      BY <2>2, <2>3, <3>2
  <2>4. CASE /\ c \in DOMAIN content
             /\ \E P \in PartialLoads(content, c, k) :
                   Select(content, [selected EXCEPT ![k] = P], {k} \X Coordinates)
    BY <1>1, <2>2, <2>4, InvariantParts, PartialLoadsTyped
  <2> QED
    BY <2>1, <2>3, <2>4 DEF LoadForm
<1>3. SoundLibraries' /\ FlagsOK' /\ Written
  BY SameContent DEF LoadForm
<1>4. ListsOK'
  BY <1>1, InvariantParts DEF LoadForm, ListsOK, Names
<1> QED
  BY <1>2, <1>3, <1>4, PartsMakeInvariant

(* A boutique is cleared.                                                    *)
LEMMA ClearFormStep ==
    ASSUME IInv, NEW k \in Categories, ClearForm(k)
    PROVE  IInv' /\ Written
<1>1. GuichetsOK'
  BY InvariantParts, HoldersDiffer, FormChangeKeeps, SelectKeeps DEF ClearForm
<1>2. SoundLibraries' /\ FlagsOK' /\ Written
  BY SameContent DEF ClearForm
<1>3. ListsOK'
  BY InvariantParts DEF ClearForm, ListsOK, Names
<1> QED
  BY <1>1, <1>2, <1>3, PartsMakeInvariant

(* A configuration is deleted; when the event fails it is not saved.         *)
LEMMA DeleteStep ==
    ASSUME IInv, NEW k \in Categories, Delete(k)
    PROVE  IInv' /\ Written
<1> DEFINE c == listed[k]
           rest == Deleted(content, c)
<1>1. c \in Coordinates /\ c \in DOMAIN content
  BY InvariantParts DEF Delete, IsUnused, IsLibrary
<1>2. IsSound(rest) /\ IsLibrary(rest)
  BY <1>1, InvariantParts, DeletedIsSound DEF IsSound
<1>3. intact
  BY <1>1, InvariantParts DEF FlagsOK
<1>4. content' = rest
  BY DEF Delete
<1> HIDE DEF rest
<1>5. PICK h \in Hearers(rest, {k}) :
         /\ Announce(rest, loaded, h)
         /\ \/ /\ loaded' = [loaded EXCEPT ![k] = None]
               /\ SetSavedStatus(rest, FALSE)
            \/ /\ loaded' = LoadedAfter(rest, loaded, h)
               /\ saved' = FALSE /\ UNCHANGED file
  BY DEF Delete, rest
<1>6. GuichetsOK'
  BY <1>2, <1>5, InvariantParts, AnnounceKeeps
<1>7. ListsOK'
  <2>1. [loaded EXCEPT ![k] = None] \in Names /\ LoadedAfter(rest, loaded, h) \in Names
    <3>1. loaded \in Names
      BY InvariantParts
    <3> QED
      BY <3>1, LoadedAfterTyped DEF Names
  <2> QED
    BY <1>2, <1>5, <2>1, InvariantParts, AnnounceKeeps DEF ListsOK
<1>8. saved' \in BOOLEAN /\ file' \in {rest, file} /\ (saved' => file' = rest)
  BY <1>5, InvariantParts, SavedStatus
<1>9. SoundLibraries' /\ Written
  BY <1>2, <1>4, <1>8, InvariantParts DEF SoundLibraries, Written
<1>10. FlagsOK'
  BY <1>3, <1>8, InvariantParts DEF FlagsOK, Delete
<1> QED
  BY <1>6, <1>7, <1>9, <1>10, PartsMakeInvariant

-----------------------------------------------------------------------------
(* The wicket and its form are set together.                                 *)
LEMMA BothChangeKeeps ==
    ASSUME NEW sel, OneEach(sel), NEW w \in Wickets,
           NEW S \in SUBSET Coordinates, Cardinality(S) <= 1,
           NEW F \in SUBSET Coordinates
    PROVE  OneEach([sel EXCEPT ![w] = S, ![FormOf(w)] = F])
<1> DEFINE first == [sel EXCEPT ![w] = S]
<1>1. OneEach(first) /\ FormOf(w) \in Holders \ Wickets
  BY HoldersDiffer, WicketChangeKeeps
<1>2. [sel EXCEPT ![w] = S, ![FormOf(w)] = F] = [first EXCEPT ![FormOf(w)] = F]
  OBVIOUS
<1> HIDE DEF first
<1>3. OneEach([first EXCEPT ![FormOf(w)] = F])
  BY <1>1, FormChangeKeeps
<1> QED
  BY <1>2, <1>3

(* A wicket selects a configuration, or fails to.                            *)
LEMMA ChooseStep ==
    ASSUME IInv, NEW w \in Wickets, NEW c \in Coordinates, Choose(w, c)
    PROVE  IInv' /\ Written
<1>1. GuichetsOK'
  <2>1. /\ OneEach(selected) /\ {} \in SUBSET Coordinates /\ Cardinality({}) <= 1
        /\ {c} \in SUBSET Coordinates /\ Cardinality({c}) <= 1
    BY InvariantParts, SmallSets
  <2>2. CASE /\ IsLoadable(content, c)
             /\ Select(content, [selected EXCEPT ![w] = {c},
                                                 ![FormOf(w)] = content[c].config],
                       {FormOf(w)} \X Coordinates)
    <3>1. c \in DOMAIN content
      <4>1. IsGraph(Contents(content))
        BY InvariantParts, ContentsIsGraph
      <4> QED
        BY <2>1, <2>2, <4>1, ClosureIsClosed DEF IsLoadable, UsingSet
    <3>2. content[c].config \in SUBSET Coordinates
      BY <3>1, InvariantParts DEF IsLibrary
    <3> QED
      BY <2>1, <2>2, <3>2, BothChangeKeeps, SelectKeeps
  <2>3. CASE /\ c \in DOMAIN content
             /\ \E P \in PartialLoads(content, c, FormOf(w)) :
                   Select(content, [selected EXCEPT ![w] = {}, ![FormOf(w)] = P],
                          {FormOf(w)} \X Coordinates)
    <3>1. PICK P \in PartialLoads(content, c, FormOf(w)) :
             Select(content, [selected EXCEPT ![w] = {}, ![FormOf(w)] = P],
                    {FormOf(w)} \X Coordinates)
      BY <2>3
    <3>2. P \in SUBSET Coordinates
      BY <2>1, <2>3, <3>1, InvariantParts, HoldersDiffer, PartialLoadsTyped
    <3> QED
      BY <2>1, <3>1, <3>2, BothChangeKeeps, SelectKeeps
  <2>4. CASE Select(content, [selected EXCEPT ![w] = {}], {})
    BY <2>1, <2>4, WicketChangeKeeps, SelectKeeps
  <2> QED
    BY <2>2, <2>3, <2>4 DEF Choose
<1>2. SoundLibraries' /\ FlagsOK' /\ Written
  BY SameContent DEF Choose
<1>3. ListsOK'
  BY InvariantParts DEF Choose, ListsOK
<1> QED
  BY <1>1, <1>2, <1>3, PartsMakeInvariant

(* A wicket turns to manual mode.                                            *)
LEMMA ChooseManualStep ==
    ASSUME IInv, NEW w \in Wickets, ChooseManual(w)
    PROVE  IInv' /\ Written
<1>1. GuichetsOK'
  <2>1. OneEach(selected) /\ {} \in SUBSET Coordinates /\ Cardinality({}) <= 1
    BY InvariantParts, SmallSets
  <2>2. /\ OneEach([selected EXCEPT ![w] = {}])
        /\ OneEach([selected EXCEPT ![w] = {}, ![FormOf(w)] = {}])
    BY <2>1, BothChangeKeeps, WicketChangeKeeps
  <2> QED
    BY <2>2, SelectKeeps DEF ChooseManual
<1>2. SoundLibraries' /\ FlagsOK' /\ Written
  BY SameContent DEF ChooseManual
<1>3. ListsOK'
  BY InvariantParts DEF ChooseManual, ListsOK
<1> QED
  BY <1>1, <1>2, <1>3, PartsMakeInvariant

(* A manual configuration is added and selected, or refused.                 *)
LEMMA SaveAsStep ==
    ASSUME IInv, NEW w \in Wickets, NEW c \in Coordinates, SaveAs(w, c)
    PROVE  IInv' /\ Written
<1> DEFINE k == CategoryOf[w]
           config == selected[FormOf(w)]
           refs == UsingSet(content, config)
<1>1. config \in SUBSET Coordinates
  BY InvariantParts, HoldersDiffer DEF OneEach
<1>2. CASE /\ CanAdd(content, c, refs)
           /\ content' = Added(content, c, config, refs)
           /\ saved' = FALSE
           /\ \E h \in Hearers(content', {k}) :
                 /\ loaded' = LoadedAfter(content', loaded, h)
                 /\ IF Failing(content', {k}) # {}
                    THEN Announce(content', loaded, h)
                    ELSE /\ ListAgain(content', loaded, h)
                         /\ Select(content',
                                   [AfterEvent(content', h[2], {})
                                       EXCEPT ![w] = {c}, ![FormOf(w)] = config],
                                   h[2] \cup {FormOf(w)} \X Coordinates)
  <2>1. IsSound(content') /\ IsLibrary(content') /\ intact
    BY <1>1, <1>2, InvariantParts, AddedIsSound DEF CanAdd, Accepts, IsSound
  <2>2. PICK h \in Hearers(content', {k}) :
          /\ loaded' = LoadedAfter(content', loaded, h)
          /\ \/ Announce(content', loaded, h)
             \/ /\ ListAgain(content', loaded, h)
                /\ Select(content',
                          [AfterEvent(content', h[2], {})
                              EXCEPT ![w] = {c}, ![FormOf(w)] = config],
                          h[2] \cup {FormOf(w)} \X Coordinates)
    BY <1>2
  <2>3. GuichetsOK'
    <3>1. OneEach(AfterEvent(content', h[2], {}))
      BY <2>1, InvariantParts, AfterEventKeeps
    <3>2. {c} \in SUBSET Coordinates /\ Cardinality({c}) <= 1
      BY SmallSets
    <3> HIDE DEF config
    <3>3. OneEach([AfterEvent(content', h[2], {})
                     EXCEPT ![w] = {c}, ![FormOf(w)] = config])
      BY <1>1, <3>1, <3>2, BothChangeKeeps
    <3> QED
      BY <2>1, <2>2, <3>3, InvariantParts, AnnounceKeeps, SelectKeeps
  <2>4. ListsOK'
    <3>1. loaded' \in Names
      BY <2>2, InvariantParts, LoadedAfterTyped
    <3>2. CASE Announce(content', loaded, h)
      BY <2>1, <3>1, <3>2, InvariantParts, AnnounceKeeps DEF ListsOK
    <3>3. CASE ListAgain(content', loaded, h)
      BY <2>1, <3>1, <3>3, InvariantParts DEF ListAgain, ListsOK, Names, IsLibrary
    <3> QED
      BY <2>2, <3>2, <3>3
  <2>5. SoundLibraries' /\ Written
    BY <1>2, <2>1, InvariantParts DEF SoundLibraries, Written, SaveAs
  <2>6. FlagsOK'
    BY <1>2, <2>1, InvariantParts DEF FlagsOK, SaveAs
  <2> QED
    BY <2>3, <2>4, <2>5, <2>6, PartsMakeInvariant
<1>3. CASE /\ content' = NotAdded(content, c)
           /\ UNCHANGED <<outside, selected, listing, listed, loaded, saved>>
  <2>1. /\ IsSound(content') /\ Contents(content') = Contents(content)
        /\ ~intact => content' = <<>>
    BY <1>3, RefusedKeeps
  <2>2. SoundLibraries' /\ Written
    BY <2>1, InvariantParts DEF SoundLibraries, Written, SaveAs
  <2>3. GuichetsOK' /\ ListsOK' /\ FlagsOK'
    BY <1>3, <2>1, InvariantParts DEF GuichetsOK, ListsOK, FlagsOK, SaveAs
  <2> QED
    BY <2>2, <2>3, PartsMakeInvariant
<1> QED
  BY <1>2, <1>3 DEF SaveAs

-----------------------------------------------------------------------------
(* A whole library is read: that of the file, or what is not a library.      *)
LEMMA LoadJsonKeeps ==
    ASSUME IInv, NEW data, data \in {Foreign, Bare} \/ IsSound(data), LoadJson(data)
    PROVE  /\ IsSound(content') /\ content' \in {data, <<>>}
           /\ intact' \in BOOLEAN /\ (~intact' => content' = <<>>)
           /\ saved' = TRUE /\ autosave' \in BOOLEAN /\ GuichetsOK' /\ ListsOK'
<1>1. CASE data \in {Foreign, Bare}
  BY <1>1, InvariantParts, EmptyIsSound DEF LoadJson, GuichetsOK, ListsOK
<1>2. CASE data \notin {Foreign, Bare}
  <2>1. /\ IsSound(data) /\ IsLibrary(data) /\ content' = data /\ intact' = TRUE
        /\ autosave' \in BOOLEAN /\ saved' = TRUE
    BY <1>2, InvariantParts DEF LoadJson, IsSound
  <2>2. PICK h \in Hearers(data, Filled(data)) :
            Announce(data, loaded, h) /\ loaded' = LoadedAfter(data, loaded, h)
    BY <1>2 DEF LoadJson
  <2>3. GuichetsOK' /\ ListsOK'
    BY <2>1, <2>2, InvariantParts, AnnounceKeeps, LoadedAfterTyped DEF ListsOK
  <2> QED
    BY <2>1, <2>3
<1> QED
  BY <1>1, <1>2

(* The file is loaded; it may be absent.                                     *)
LEMMA LoadKeeps ==
    ASSUME IInv, Load, file' = file
    PROVE  /\ SoundLibraries' /\ GuichetsOK' /\ ListsOK' /\ Written
           /\ intact' \in BOOLEAN /\ (~intact' => content' = <<>> /\ saved')
           /\ saved' \in BOOLEAN /\ autosave' \in BOOLEAN
           /\ context' \in {"undefined", "load", "clear"}
<1>1. CASE file = Absent
  BY <1>1, InvariantParts
  DEF Load, SoundLibraries, GuichetsOK, ListsOK, FlagsOK, Written
<1>2. CASE file # Absent
  <2>1. LoadJson(file) /\ context' \in {"undefined", "load"}
    BY <1>2 DEF Load
  <2>2. file \in {Foreign, Bare} \/ IsSound(file)
    BY <1>2, InvariantParts
  <2> QED
    BY <2>1, <2>2, InvariantParts, LoadJsonKeeps DEF SoundLibraries, Written
<1> QED
  BY <1>1, <1>2

(* The library is cleared.                                                   *)
LEMMA ClearKeeps ==
    ASSUME IInv, Clear, file' = file
    PROVE  /\ SoundLibraries' /\ GuichetsOK' /\ ListsOK' /\ Written
           /\ intact' \in BOOLEAN /\ (~intact' => content' = <<>> /\ saved')
           /\ saved' \in BOOLEAN /\ autosave' \in BOOLEAN
           /\ context' \in {"undefined", "load", "clear"}
<1>1. IsLibrary(<<>>) /\ content' = <<>> /\ SoundLibraries' /\ Written
  BY InvariantParts, EmptyIsSound DEF Clear, SoundLibraries, IsSound, Written
<1>2. PICK h \in Hearers(<<>>, Categories) :
          Announce(<<>>, loaded, h) /\ loaded' = LoadedAfter(<<>>, loaded, h)
  BY DEF Clear
<1>3. GuichetsOK' /\ ListsOK'
  BY <1>1, <1>2, InvariantParts, AnnounceKeeps, LoadedAfterTyped DEF ListsOK
<1> QED
  BY <1>1, <1>3 DEF Clear

(* The question of html_bibliotheque, or what it stands for.                 *)
LEMMA RequestStep ==
    ASSUME IInv, NEW what \in {"load", "clear"}, Request(what)
    PROVE  IInv' /\ Written
<1>1. CASE /\ ~intact /\ context' = what
           /\ UNCHANGED <<content, intact, outside, saved, autosave, file,
                          selected, listing, listed, loaded, asked>>
  <2>1. /\ SoundLibraries' /\ Written
    BY <1>1, InvariantParts DEF SoundLibraries, Written
  <2>2. GuichetsOK' /\ ListsOK' /\ FlagsOK'
    BY <1>1, InvariantParts DEF GuichetsOK, ListsOK, FlagsOK
  <2> QED
    BY <2>1, <2>2, PartsMakeInvariant
<1>2. CASE /\ context' = what /\ asked' = TRUE
           /\ SetSavedStatus(content, saved)
           /\ UNCHANGED <<content, intact, outside, autosave, selected, listing,
                          listed, loaded>>
  <2>1. file' \in {content, file} /\ saved' \in BOOLEAN /\ (saved => saved')
    BY <1>2, InvariantParts, SavedStatus
  <2>2. /\ SoundLibraries' /\ Written
    BY <1>2, <2>1, InvariantParts DEF SoundLibraries, Written
  <2>3. GuichetsOK' /\ ListsOK' /\ FlagsOK'
    BY <1>2, <2>1, InvariantParts DEF GuichetsOK, ListsOK, FlagsOK
  <2> QED
    BY <2>2, <2>3, PartsMakeInvariant
<1>3. CASE context = "undefined" /\ (Load \/ Clear) /\ UNCHANGED <<file, asked>>
  <2>1. asked' = FALSE
    BY <1>3, InvariantParts DEF FlagsOK
  <2> QED
    BY <1>3, <2>1, LoadKeeps, ClearKeeps, PartsMakeInvariant DEF FlagsOK
<1> QED
  BY <1>1, <1>2, <1>3 DEF Request

(* The user confirms, ...                                                    *)
LEMMA AnswerYesStep ==
    ASSUME IInv, AnswerYes
    PROVE  IInv' /\ Written
<1>1. (Load \/ Clear) /\ file' = file /\ asked' = FALSE
  BY DEF AnswerYes
<1> QED
  BY <1>1, LoadKeeps, ClearKeeps, PartsMakeInvariant DEF FlagsOK

(* ... or does not.                                                          *)
LEMMA AnswerNoStep ==
    ASSUME IInv, AnswerNo
    PROVE  IInv' /\ Written
<1>1. file' \in {content, file} /\ saved' \in BOOLEAN /\ (saved => saved')
  BY InvariantParts, SavedStatus DEF AnswerNo
<1>2. SoundLibraries' /\ Written
  BY <1>1, InvariantParts DEF AnswerNo, SoundLibraries, Written
<1>3. GuichetsOK' /\ ListsOK' /\ FlagsOK'
  BY <1>1, InvariantParts DEF AnswerNo, GuichetsOK, ListsOK, FlagsOK
<1> QED
  BY <1>2, <1>3, PartsMakeInvariant

(* A file comes from the browser.                                            *)
LEMMA UploadStep ==
    ASSUME IInv, Upload
    PROVE  IInv' /\ Written
<1>1. PICK data \in {Foreign, file} \ {Absent} : LoadJson(data)
  BY DEF Upload
<1>2. data \in {Foreign, Bare} \/ (IsSound(data) /\ data = file)
  BY InvariantParts
<1>3. /\ IsSound(content') /\ content' \in {data, <<>>}
      /\ intact' \in BOOLEAN /\ (~intact' => content' = <<>>)
      /\ saved' = TRUE /\ autosave' \in BOOLEAN /\ GuichetsOK' /\ ListsOK'
  BY <1>1, <1>2, LoadJsonKeeps
<1>4. content' \in {file, <<>>}
  BY <1>1, <1>2, <1>3 DEF LoadJson
<1>5. SoundLibraries' /\ FlagsOK' /\ Written
  BY <1>3, <1>4, InvariantParts DEF Upload, SoundLibraries, FlagsOK, Written
<1> QED
  BY <1>3, <1>5, PartsMakeInvariant

(* Saving, downloading and the box of the automatic saving.                  *)
LEMMA SavingStep ==
    ASSUME IInv, Save \/ Download \/ SwitchAutosave \/ ShowConfigure
    PROVE  IInv' /\ Written
<1>1. /\ content' = content /\ intact' = intact /\ autosave' \in BOOLEAN
      /\ saved' \in BOOLEAN /\ (saved => saved') /\ file' \in {file, content, Bare}
  BY InvariantParts, SavedStatus DEF Save, Download, SwitchAutosave, ShowConfigure
<1>2. UNCHANGED <<outside, selected, listing, listed, loaded, context, asked>>
  BY DEF Save, Download, SwitchAutosave, ShowConfigure
<1>3. SoundLibraries' /\ FlagsOK' /\ Written
  BY <1>1, <1>2, InvariantParts DEF SoundLibraries, FlagsOK, Written
<1>4. GuichetsOK' /\ ListsOK'
  BY <1>2, InvariantParts DEF GuichetsOK, ListsOK
<1> QED
  BY <1>3, <1>4, PartsMakeInvariant

-----------------------------------------------------------------------------
(* The library is empty, and nothing selects anything.                       *)
LEMMA InitHolds == Init => IInv
<1> SUFFICES ASSUME Init PROVE IInv
  OBVIOUS
<1>1. SoundLibraries
  BY EmptyIsSound DEF Init, SoundLibraries
<1>2. GuichetsOK /\ ListsOK /\ FlagsOK
  <2>1. OneEach(selected)
    BY HoldersDiffer, SmallSets DEF Init, OneEach
  <2> QED
    BY <2>1 DEF Init, GuichetsOK, ListsOK, Names, FlagsOK
<1>3. TypeOK
  BY <1>1, <1>2, TypeParts DEF SoundLibraries, IsSound
<1> QED
  BY <1>1, <1>3 DEF IInv

(* Every request keeps the invariant, and writes what it says is saved.      *)
LEMMA NextKeeps == IInv /\ [Next]_vars => IInv' /\ [Written]_vars
<1> SUFFICES ASSUME IInv, [Next]_vars PROVE IInv' /\ [Written]_vars
  OBVIOUS
<1>1. CASE UNCHANGED vars
  <2>1. SoundLibraries'
    BY <1>1, InvariantParts DEF vars, SoundLibraries
  <2>2. GuichetsOK' /\ ListsOK' /\ FlagsOK'
    BY <1>1, InvariantParts DEF vars, GuichetsOK, ListsOK, FlagsOK
  <2> QED
    BY <1>1, <2>1, <2>2, PartsMakeInvariant
<1>2. ASSUME NEW k \in Categories,
             (\E c \in Coordinates : EditForm(k, c)) \/ ClearForm(k) \/ Delete(k)
      PROVE  IInv' /\ Written
  BY <1>2, EditFormStep, ClearFormStep, DeleteStep
<1>3. ASSUME NEW c \in Coordinates, SaveForm(c) \/ LoadForm(c)
      PROVE  IInv' /\ Written
  BY <1>3, SaveFormStep, LoadFormStep
<1>4. ASSUME NEW w \in Wickets,
             \/ \E c \in Coordinates : EditWicket(w, c) \/ Choose(w, c) \/ SaveAs(w, c)
             \/ ChooseManual(w)
      PROVE  IInv' /\ Written
  BY <1>4, EditWicketStep, ChooseStep, SaveAsStep, ChooseManualStep
<1>5. CASE \/ \E what \in {"load", "clear"} : Request(what)
           \/ AnswerYes \/ AnswerNo \/ Upload
           \/ Save \/ Download \/ SwitchAutosave \/ ShowConfigure
  BY <1>5, RequestStep, AnswerYesStep, AnswerNoStep, UploadStep, SavingStep
<1> QED
  BY <1>1, <1>2, <1>3, <1>4, <1>5 DEF Next

(* The library in memory and the one in the file are sound, whatever is      *)
(* edited, refused, uploaded or cut by an exception.                         *)
THEOREM Invariance == Spec => []IInv
<1>1. IInv /\ [Next]_vars => IInv'
  BY NextKeeps
<1> QED
  BY <1>1, InitHolds, PTL DEF Spec

(* Every variable keeps its type: a wicket selects one configuration at most,*)
(* and a library that lost its categories is empty and saved.                *)
THEOREM TypeCorrect == Spec => []TypeOK
<1>1. IInv => TypeOK
  BY DEF IInv
<1> QED
  BY <1>1, Invariance, PTL

(* Who is recorded as a user of a configuration is stored, so that           *)
(* delete_config refuses for no ghost, and no configuration relies on itself *)
(* at any depth, so that its loading ends: what get_using_set gives to       *)
(* check_against_cyclic_dependencies is enough, for any number of            *)
(* categories and configurations, although a refused update forgets records. *)
THEOREM RecordsExact == Spec => []RecordsAreExact
<1>1. IInv => RecordsAreExact
  BY DEF IInv, SoundLibraries, IsSound, RecordsAreExact, DependentsExist,
         DependentsStored, UsesAcyclic, Acyclic, Contents
<1> QED
  BY <1>1, Invariance, PTL

(* set_saved_status: whenever the content changes and the library says that  *)
(* it is saved, the content is the one of the file, or was cleared.          *)
THEOREM WrittenWhenSaved == Spec => ChangesAreWritten
<1>1. IInv /\ [Next]_vars => [Written]_vars
  BY NextKeeps
<1>2. [Written]_vars =>
        [saved' /\ Contents(content') # Contents(content)
            => content' \in {file', file, <<>>}]_vars
  BY DEF Written
<1> QED
  BY <1>1, <1>2, Invariance, PTL DEF Spec, ChangesAreWritten
-----------------------------------------------------------------------------
ClassNames ==
    {"test", "compare", "extract", "repair", "isolate", "create", "merge",
     "read", "slicing", "ciphering", "compr", "recompr", "sig_block"}

(* What the fields of a form may hold, what is assigned to one of them, what *)
(* a form displays.                                                          *)
Fields(c) == DOMAIN Start(c)

Held(c) == UNION {Entries(f) : f \in Fields(c)}

Values(c) == {v \in [Fields(c) -> Held(c)] : \A f \in Fields(c) : v[f] \in Entries(f)}

Pairs(c) == {p \in Fields(c) \X Held(c) : p[2] \in Entries(p[1])}

Labels(c) == Fields(c) \cup {"high minimum", "red border", "summary"}

Lockable(c) ==
    CASE c = "create" -> {"ea_name"} [] c = "read" -> {"force"}
      [] c \in {"compr", "recompr"} -> {"threads"} [] OTHER -> {}

States(c) ==
    [v : Values(c), shown : SUBSET Labels(c), locked : SUBSET Lockable(c),
     mute : BOOLEAN, skip : BOOLEAN, told : BOOLEAN]

-----------------------------------------------------------------------------
LEMMA EntriesAre ==
    /\ Entries("iterations") = 1..4 /\ Entries("kdf") = {"argon2", "sha1"}
    /\ Entries("cipher") = {"none", "aes"} /\ Entries("type") = {"sym", "asym"}
    /\ Entries("algo") = {"none", "lzo1x", "zip"} /\ Entries("function") = {"fixed", "root3"}
    /\ Entries("delta") = {"drop", "transfer", "compute"}
    /\ Entries("archtype") = {"full", "diff", "snapshot", "date"}
    /\ \A f \in {"masks", "ea_mask", "policy", "entrep", "params", "reference", "auxiliary",
                 "sig_block", "delta_mask", "compr", "compr_mask", "ref_entrep"} :
            Entries(f) = {"none", "own", "lib"}
    /\ Entries("recompr") = {"none", "own", "lib", "keep"}
    /\ \A f \in {"plain", "treated", "only_dir", "choice", "fsa", "empty_dir", "pause",
                 "delta_sig", "transfer", "date", "checked", "hourshift", "skipped", "by_ea",
                 "default_ea", "ea_name", "has_aux", "decremental", "digits", "leftover", "seq",
                 "force", "ext", "ref_path", "ref_plain", "slicing", "diff_first", "size",
                 "first_size", "pass1", "pass2", "threads", "gnupg", "level", "block", "resave",
                 "keep", "factors", "reversed"} : Entries(f) = BOOLEAN
<1>1. Entries("iterations") = 1..4 /\ Entries("kdf") = {"argon2", "sha1"}
  BY DEF Entries, GuichetFields
<1>2. Entries("cipher") = {"none", "aes"} /\ Entries("type") = {"sym", "asym"}
  BY DEF Entries, GuichetFields
<1>3. Entries("algo") = {"none", "lzo1x", "zip"} /\ Entries("function") = {"fixed", "root3"}
  BY DEF Entries, GuichetFields
<1>4. /\ Entries("delta") = {"drop", "transfer", "compute"}
      /\ Entries("archtype") = {"full", "diff", "snapshot", "date"}
  BY DEF Entries, GuichetFields
<1>5. Entries("recompr") = Store \cup {"keep"}
  BY DEF Entries, GuichetFields
<1>6. \A f \in {"masks", "ea_mask", "policy", "entrep", "params", "reference", "auxiliary",
                 "sig_block", "delta_mask", "compr", "compr_mask", "ref_entrep"} : Entries(f) = Store
  BY DEF Entries, GuichetFields
<1>7. Toggle = BOOLEAN /\ Store = {"none", "own", "lib"} /\ Store \cup {"keep"} = {"none", "own", "lib", "keep"}
  BY DEF Toggle, Store
<1>8. \A f \in {"plain", "treated", "only_dir", "choice", "fsa", "empty_dir", "pause",
                 "delta_sig", "transfer", "date", "checked", "hourshift", "skipped", "by_ea",
                 "default_ea", "ea_name", "has_aux", "decremental", "digits", "leftover", "seq",
                 "force", "ext", "ref_path", "ref_plain", "slicing", "diff_first", "size",
                 "first_size", "pass1", "pass2", "threads", "gnupg", "level", "block", "resave",
                 "keep", "factors", "reversed"} : Entries(f) = Toggle
  BY DEF Entries, GuichetFields
<1> QED
  BY <1>1, <1>2, <1>3, <1>4, <1>5, <1>6, <1>7, <1>8

LEMMA HeldIs ==
    ASSUME NEW c, NEW f \in Fields(c)
    PROVE  Entries(f) \subseteq Held(c)
BY DEF Held

LEMMA ValuesAre ==
    ASSUME NEW c, NEW v
    PROVE  v \in Values(c) <=> /\ v = [f \in Fields(c) |-> v[f]]
                               /\ \A f \in Fields(c) : v[f] \in Entries(f)
BY HeldIs DEF Values

(* The fields of each form, what they may hold, and what they hold at first. *)
LEMMA TestFields ==
    /\ DOMAIN TestStart = {"plain", "treated", "only_dir", "masks"}
    /\ Entries("plain") = BOOLEAN /\ Entries("treated") = BOOLEAN
    /\ Entries("only_dir") = BOOLEAN /\ Entries("masks") = {"none", "own", "lib"}
    /\ TestStart.plain = FALSE /\ TestStart.treated = TRUE /\ TestStart.only_dir = FALSE
    /\ TestStart.masks = "none"
BY EntriesAre DEF TestStart

LEMMA CompareFields ==
    /\ DOMAIN CompareStart = {"plain", "choice", "treated", "only_dir", "masks",
                              "fsa"}
    /\ Entries("plain") = BOOLEAN /\ Entries("choice") = BOOLEAN
    /\ Entries("treated") = BOOLEAN /\ Entries("only_dir") = BOOLEAN
    /\ Entries("masks") = {"none", "own", "lib"} /\ Entries("fsa") = BOOLEAN
    /\ CompareStart.plain = FALSE /\ CompareStart.choice = FALSE
    /\ CompareStart.treated = TRUE /\ CompareStart.only_dir = FALSE
    /\ CompareStart.masks = "none" /\ CompareStart.fsa = FALSE
BY EntriesAre DEF CompareStart

LEMMA ExtractFields ==
    /\ DOMAIN ExtractStart = {"plain", "choice", "empty_dir", "treated", "only_dir",
                              "policy", "masks", "fsa"}
    /\ Entries("plain") = BOOLEAN /\ Entries("choice") = BOOLEAN
    /\ Entries("empty_dir") = BOOLEAN /\ Entries("treated") = BOOLEAN
    /\ Entries("only_dir") = BOOLEAN /\ Entries("policy") = {"none", "own", "lib"}
    /\ Entries("masks") = {"none", "own", "lib"} /\ Entries("fsa") = BOOLEAN
    /\ ExtractStart.plain = FALSE /\ ExtractStart.choice = FALSE
    /\ ExtractStart.empty_dir = FALSE /\ ExtractStart.treated = FALSE
    /\ ExtractStart.only_dir = FALSE /\ ExtractStart.policy = "none"
    /\ ExtractStart.masks = "none" /\ ExtractStart.fsa = FALSE
BY EntriesAre DEF ExtractStart

LEMMA RepairFields ==
    /\ DOMAIN RepairStart = {"entrep", "plain", "treated", "only_dir", "pause",
                             "choice", "params"}
    /\ Entries("entrep") = {"none", "own", "lib"} /\ Entries("plain") = BOOLEAN
    /\ Entries("treated") = BOOLEAN /\ Entries("only_dir") = BOOLEAN
    /\ Entries("pause") = BOOLEAN /\ Entries("choice") = BOOLEAN
    /\ Entries("params") = {"none", "own", "lib"}
    /\ RepairStart.entrep = "none" /\ RepairStart.plain = FALSE
    /\ RepairStart.treated = FALSE /\ RepairStart.only_dir = FALSE
    /\ RepairStart.pause = FALSE /\ RepairStart.choice = FALSE
    /\ RepairStart.params = "none"
BY EntriesAre DEF RepairStart

LEMMA IsolateFields ==
    /\ DOMAIN IsolateStart = {"delta_sig", "transfer", "sig_block", "delta_mask",
                              "entrep", "plain", "pause", "choice", "compr",
                              "params"}
    /\ Entries("delta_sig") = BOOLEAN /\ Entries("transfer") = BOOLEAN
    /\ Entries("sig_block") = {"none", "own", "lib"}
    /\ Entries("delta_mask") = {"none", "own", "lib"}
    /\ Entries("entrep") = {"none", "own", "lib"} /\ Entries("plain") = BOOLEAN
    /\ Entries("pause") = BOOLEAN /\ Entries("choice") = BOOLEAN
    /\ Entries("compr") = {"none", "own", "lib"}
    /\ Entries("params") = {"none", "own", "lib"}
    /\ IsolateStart.delta_sig = FALSE /\ IsolateStart.transfer = FALSE
    /\ IsolateStart.sig_block = "none" /\ IsolateStart.delta_mask = "none"
    /\ IsolateStart.entrep = "none" /\ IsolateStart.plain = FALSE
    /\ IsolateStart.pause = FALSE /\ IsolateStart.choice = FALSE
    /\ IsolateStart.compr = "none" /\ IsolateStart.params = "none"
BY EntriesAre DEF IsolateStart

LEMMA CreateFields ==
    /\ DOMAIN CreateStart = {"entrep", "masks", "ea_mask", "archtype", "reference",
                             "date", "checked", "hourshift", "delta_sig", "sig_block",
                             "delta_mask", "plain", "skipped", "treated",
                             "only_dir", "by_ea", "default_ea", "ea_name", "compr",
                             "compr_mask", "params"}
    /\ Entries("entrep") = {"none", "own", "lib"}
    /\ Entries("masks") = {"none", "own", "lib"}
    /\ Entries("ea_mask") = {"none", "own", "lib"}
    /\ Entries("archtype") = {"full", "diff", "snapshot", "date"}
    /\ Entries("reference") = {"none", "own", "lib"} /\ Entries("date") = BOOLEAN
    /\ Entries("checked") = BOOLEAN /\ Entries("hourshift") = BOOLEAN
    /\ Entries("delta_sig") = BOOLEAN /\ Entries("sig_block") = {"none", "own", "lib"}
    /\ Entries("delta_mask") = {"none", "own", "lib"} /\ Entries("plain") = BOOLEAN
    /\ Entries("skipped") = BOOLEAN /\ Entries("treated") = BOOLEAN
    /\ Entries("only_dir") = BOOLEAN /\ Entries("by_ea") = BOOLEAN
    /\ Entries("default_ea") = BOOLEAN /\ Entries("ea_name") = BOOLEAN
    /\ Entries("compr") = {"none", "own", "lib"}
    /\ Entries("compr_mask") = {"none", "own", "lib"}
    /\ Entries("params") = {"none", "own", "lib"}
    /\ CreateStart.entrep = "none" /\ CreateStart.masks = "none"
    /\ CreateStart.ea_mask = "none"
    /\ CreateStart.archtype = "full" /\ CreateStart.reference = "none"
    /\ CreateStart.date = FALSE /\ CreateStart.checked = FALSE
    /\ CreateStart.hourshift = FALSE /\ CreateStart.delta_sig = FALSE
    /\ CreateStart.sig_block = "none" /\ CreateStart.delta_mask = "none"
    /\ CreateStart.plain = FALSE /\ CreateStart.skipped = FALSE
    /\ CreateStart.treated = FALSE /\ CreateStart.only_dir = FALSE
    /\ CreateStart.by_ea = FALSE /\ CreateStart.default_ea = TRUE
    /\ CreateStart.ea_name = FALSE /\ CreateStart.compr = "none"
    /\ CreateStart.compr_mask = "none" /\ CreateStart.params = "none"
BY EntriesAre DEF CreateStart

LEMMA MergeFields ==
    /\ DOMAIN MergeStart = {"entrep", "plain", "pause", "choice", "has_aux",
                            "auxiliary", "decremental", "delta", "sig_block",
                            "delta_mask", "treated", "only_dir", "masks", "policy",
                            "recompr", "compr_mask", "params"}
    /\ Entries("entrep") = {"none", "own", "lib"} /\ Entries("plain") = BOOLEAN
    /\ Entries("pause") = BOOLEAN /\ Entries("choice") = BOOLEAN
    /\ Entries("has_aux") = BOOLEAN /\ Entries("auxiliary") = {"none", "own", "lib"}
    /\ Entries("decremental") = BOOLEAN
    /\ Entries("delta") = {"drop", "transfer", "compute"}
    /\ Entries("sig_block") = {"none", "own", "lib"}
    /\ Entries("delta_mask") = {"none", "own", "lib"} /\ Entries("treated") = BOOLEAN
    /\ Entries("only_dir") = BOOLEAN /\ Entries("masks") = {"none", "own", "lib"}
    /\ Entries("policy") = {"none", "own", "lib"}
    /\ Entries("recompr") = {"none", "own", "lib", "keep"}
    /\ Entries("compr_mask") = {"none", "own", "lib"}
    /\ Entries("params") = {"none", "own", "lib"}
    /\ MergeStart.entrep = "none" /\ MergeStart.plain = FALSE
    /\ MergeStart.pause = FALSE /\ MergeStart.choice = FALSE
    /\ MergeStart.has_aux = FALSE /\ MergeStart.auxiliary = "none"
    /\ MergeStart.decremental = FALSE /\ MergeStart.delta = "transfer"
    /\ MergeStart.sig_block = "none" /\ MergeStart.delta_mask = "none"
    /\ MergeStart.treated = FALSE /\ MergeStart.only_dir = FALSE
    /\ MergeStart.masks = "none" /\ MergeStart.policy = "none"
    /\ MergeStart.recompr = "none" /\ MergeStart.compr_mask = "none"
    /\ MergeStart.params = "none"
BY EntriesAre DEF MergeStart

LEMMA ReadFields ==
    /\ DOMAIN ReadStart = {"entrep", "plain", "digits", "threads", "leftover", "seq",
                           "force", "ext", "ref_entrep", "ref_path", "ref_plain"}
    /\ Entries("entrep") = {"none", "own", "lib"} /\ Entries("plain") = BOOLEAN
    /\ Entries("digits") = BOOLEAN /\ Entries("threads") = BOOLEAN
    /\ Entries("leftover") = BOOLEAN
    /\ Entries("seq") = BOOLEAN /\ Entries("force") = BOOLEAN
    /\ Entries("ext") = BOOLEAN /\ Entries("ref_entrep") = {"none", "own", "lib"}
    /\ Entries("ref_path") = BOOLEAN /\ Entries("ref_plain") = BOOLEAN
    /\ ReadStart.entrep = "none" /\ ReadStart.plain = FALSE /\ ReadStart.digits = FALSE
    /\ ReadStart.threads = FALSE
    /\ ReadStart.leftover = FALSE /\ ReadStart.seq = FALSE /\ ReadStart.force = FALSE
    /\ ReadStart.ext = FALSE /\ ReadStart.ref_entrep = "none"
    /\ ReadStart.ref_path = FALSE /\ ReadStart.ref_plain = FALSE
BY EntriesAre DEF ReadStart

LEMMA SlicingFields ==
    /\ DOMAIN SlicingStart = {"plain", "slicing", "diff_first", "size",
                              "first_size"}
    /\ Entries("plain") = BOOLEAN /\ Entries("slicing") = BOOLEAN
    /\ Entries("diff_first") = BOOLEAN /\ Entries("size") = BOOLEAN
    /\ Entries("first_size") = BOOLEAN
    /\ SlicingStart.plain = FALSE /\ SlicingStart.slicing = FALSE
    /\ SlicingStart.diff_first = FALSE /\ SlicingStart.size = FALSE
    /\ SlicingStart.first_size = FALSE
BY EntriesAre DEF SlicingStart

LEMMA CipheringFields ==
    /\ DOMAIN CipheringStart = {"cipher", "type", "pass1", "pass2", "size",
                                "threads", "gnupg", "kdf", "iterations"}
    /\ Entries("cipher") = {"none", "aes"} /\ Entries("type") = {"sym", "asym"}
    /\ Entries("pass1") = BOOLEAN /\ Entries("pass2") = BOOLEAN
    /\ Entries("size") = BOOLEAN /\ Entries("threads") = BOOLEAN
    /\ Entries("gnupg") = BOOLEAN /\ Entries("kdf") = {"argon2", "sha1"}
    /\ Entries("iterations") = 1..4
    /\ CipheringStart.cipher = "none" /\ CipheringStart.type = "sym"
    /\ CipheringStart.pass1 = FALSE /\ CipheringStart.pass2 = FALSE
    /\ CipheringStart.size = FALSE /\ CipheringStart.threads = FALSE
    /\ CipheringStart.gnupg = FALSE /\ CipheringStart.kdf = "argon2"
    /\ CipheringStart.iterations = 2
BY EntriesAre DEF CipheringStart

LEMMA ComprFields ==
    /\ DOMAIN ComprStart = {"algo", "level", "block", "resave", "threads", "keep"}
    /\ Entries("algo") = {"none", "lzo1x", "zip"} /\ Entries("level") = BOOLEAN
    /\ Entries("block") = BOOLEAN /\ Entries("resave") = BOOLEAN
    /\ Entries("threads") = BOOLEAN /\ Entries("keep") = BOOLEAN
    /\ ComprStart.algo = "zip" /\ ComprStart.level = FALSE /\ ComprStart.block = TRUE
    /\ ComprStart.resave = FALSE /\ ComprStart.threads = TRUE /\ ComprStart.keep = FALSE
BY EntriesAre DEF ComprStart

LEMMA SigFields ==
    /\ DOMAIN SigStart = {"plain", "function", "factors", "reversed"}
    /\ Entries("plain") = BOOLEAN /\ Entries("function") = {"fixed", "root3"}
    /\ Entries("factors") = BOOLEAN /\ Entries("reversed") = BOOLEAN
    /\ SigStart.plain = FALSE /\ SigStart.function = "root3" /\ SigStart.factors = FALSE
    /\ SigStart.reversed = FALSE
BY EntriesAre DEF SigStart

LEMMA StartIs ==
    /\ Start("test") = TestStart /\ Start("compare") = CompareStart
    /\ Start("extract") = ExtractStart /\ Start("repair") = RepairStart
    /\ Start("isolate") = IsolateStart /\ Start("create") = CreateStart
    /\ Start("merge") = MergeStart /\ Start("read") = ReadStart
    /\ Start("slicing") = SlicingStart /\ Start("ciphering") = CipheringStart
    /\ Start("compr") = ComprStart /\ Start("recompr") = ComprStart
    /\ Start("sig_block") = SigStart
BY DEF Start

LEMMA StartTyped == ASSUME NEW c \in ClassNames PROVE Start(c) \in Values(c)
<1>1. Start(c) = [f \in Fields(c) |-> Start(c)[f]]
  BY DEF Fields, ClassNames, Start,
       TestStart, CompareStart, ExtractStart, RepairStart, IsolateStart,
       CreateStart, MergeStart, ReadStart, SlicingStart, CipheringStart, ComprStart, SigStart
<1>2. \A f \in Fields(c) : Start(c)[f] \in Entries(f)
  <2>1. CASE c = "test"
    BY <2>1, StartIs, TestFields DEF Fields
  <2>2. CASE c = "compare"
    BY <2>2, StartIs, CompareFields DEF Fields
  <2>3. CASE c = "extract"
    BY <2>3, StartIs, ExtractFields DEF Fields
  <2>4. CASE c = "repair"
    BY <2>4, StartIs, RepairFields DEF Fields
  <2>5. CASE c = "isolate"
    BY <2>5, StartIs, IsolateFields, ZenonT(60) DEF Fields
  <2>6. CASE c = "create"
    <3>0. 2 \in 1..4
      OBVIOUS
    <3>1. /\ CreateStart.entrep \in Entries("entrep")
          /\ CreateStart.masks \in Entries("masks")
          /\ CreateStart.ea_mask \in Entries("ea_mask")
          /\ CreateStart.archtype \in Entries("archtype")
          /\ CreateStart.reference \in Entries("reference")
          /\ CreateStart.date \in Entries("date")
          /\ CreateStart.checked \in Entries("checked")
          /\ CreateStart.hourshift \in Entries("hourshift")
          /\ CreateStart.delta_sig \in Entries("delta_sig")
          /\ CreateStart.sig_block \in Entries("sig_block")
          /\ CreateStart.delta_mask \in Entries("delta_mask")
          /\ CreateStart.plain \in Entries("plain")
          /\ CreateStart.skipped \in Entries("skipped")
          /\ CreateStart.treated \in Entries("treated")
          /\ CreateStart.only_dir \in Entries("only_dir")
          /\ CreateStart.by_ea \in Entries("by_ea")
          /\ CreateStart.default_ea \in Entries("default_ea")
          /\ CreateStart.ea_name \in Entries("ea_name")
          /\ CreateStart.compr \in Entries("compr")
          /\ CreateStart.compr_mask \in Entries("compr_mask")
          /\ CreateStart.params \in Entries("params")
      BY <3>0, CreateFields
    <3>2. \A f \in DOMAIN CreateStart : CreateStart[f] \in Entries(f)
      BY <3>1, CreateFields
    <3> QED
      BY <2>6, <3>2, StartIs DEF Fields
  <2>7. CASE c = "merge"
    <3>0. 2 \in 1..4
      OBVIOUS
    <3>1. /\ MergeStart.entrep \in Entries("entrep")
          /\ MergeStart.plain \in Entries("plain")
          /\ MergeStart.pause \in Entries("pause")
          /\ MergeStart.choice \in Entries("choice")
          /\ MergeStart.has_aux \in Entries("has_aux")
          /\ MergeStart.auxiliary \in Entries("auxiliary")
          /\ MergeStart.decremental \in Entries("decremental")
          /\ MergeStart.delta \in Entries("delta")
          /\ MergeStart.sig_block \in Entries("sig_block")
          /\ MergeStart.delta_mask \in Entries("delta_mask")
          /\ MergeStart.treated \in Entries("treated")
          /\ MergeStart.only_dir \in Entries("only_dir")
          /\ MergeStart.masks \in Entries("masks")
          /\ MergeStart.policy \in Entries("policy")
          /\ MergeStart.recompr \in Entries("recompr")
          /\ MergeStart.compr_mask \in Entries("compr_mask")
          /\ MergeStart.params \in Entries("params")
      BY <3>0, MergeFields
    <3>2. \A f \in DOMAIN MergeStart : MergeStart[f] \in Entries(f)
      BY <3>1, MergeFields
    <3> QED
      BY <2>7, <3>2, StartIs DEF Fields
  <2>8. CASE c = "read"
    BY <2>8, StartIs, ReadFields, ZenonT(60) DEF Fields
  <2>9. CASE c = "slicing"
    BY <2>9, StartIs, SlicingFields DEF Fields
  <2>10. CASE c = "ciphering"
    <3>0. 2 \in 1..4
      OBVIOUS
    <3>1. /\ CipheringStart.cipher \in Entries("cipher")
          /\ CipheringStart.type \in Entries("type")
          /\ CipheringStart.pass1 \in Entries("pass1")
          /\ CipheringStart.pass2 \in Entries("pass2")
          /\ CipheringStart.size \in Entries("size")
          /\ CipheringStart.threads \in Entries("threads")
          /\ CipheringStart.gnupg \in Entries("gnupg")
          /\ CipheringStart.kdf \in Entries("kdf")
          /\ CipheringStart.iterations \in Entries("iterations")
      BY <3>0, CipheringFields
    <3>2. \A f \in DOMAIN CipheringStart : CipheringStart[f] \in Entries(f)
      BY <3>1, CipheringFields
    <3> QED
      BY <2>10, <3>2, StartIs DEF Fields
  <2>11. CASE c = "compr"
    BY <2>11, StartIs, ComprFields, ZenonT(60) DEF Fields
  <2>12. CASE c = "recompr"
    BY <2>12, StartIs, ComprFields, ZenonT(60) DEF Fields
  <2>13. CASE c = "sig_block"
    BY <2>13, StartIs, SigFields DEF Fields
  <2> QED
    BY <2>1, <2>2, <2>3, <2>4, <2>5, <2>6, <2>7, <2>8, <2>9, <2>10, <2>11, <2>12, <2>13 DEF ClassNames
<1> QED
  BY <1>1, <1>2, ValuesAre
-----------------------------------------------------------------------------
(* What a form becomes: another value, another display.                      *)
LEMMA StateIs ==
    ASSUME NEW c, NEW s \in States(c)
    PROVE  /\ s.v \in Values(c) /\ s.shown \in SUBSET Labels(c) /\ s.locked \in SUBSET Lockable(c)
           /\ s.mute \in BOOLEAN /\ s.skip \in BOOLEAN /\ s.told \in BOOLEAN
BY DEF States

LEMMA WithValue ==
    ASSUME NEW c, NEW s \in States(c), NEW f \in Fields(c), NEW x \in Entries(f)
    PROVE  LET t == [s EXCEPT !.v[f] = x] IN
           /\ t \in States(c)
           /\ t.v[f] = x /\ \A g \in Fields(c) \ {f} : t.v[g] = s.v[g]
           /\ t = [s EXCEPT !.v = t.v]
<1>1. s.v \in Values(c)
  BY DEF States
<1>2. PICK w : w = [s.v EXCEPT ![f] = x]
  OBVIOUS
<1>3. w \in Values(c) /\ w[f] = x /\ \A g \in Fields(c) \ {f} : w[g] = s.v[g]
  BY <1>1, <1>2, HeldIs DEF Values
<1>4. [s EXCEPT !.v[f] = x] = [s EXCEPT !.v = w]
  BY <1>2 DEF States
<1>5. [s EXCEPT !.v = w] \in States(c) /\ [s EXCEPT !.v = w].v = w
  BY <1>3 DEF States
<1> QED
  BY <1>3, <1>4, <1>5

LEMMA WithShown ==
    ASSUME NEW c, NEW s \in States(c), NEW shown \in SUBSET Labels(c)
    PROVE  /\ Refresh(s, shown) \in States(c) /\ Tell(s) \in States(c)
           /\ Refresh(s, shown).v = s.v /\ Tell(s).v = s.v
           /\ Refresh(s, shown).shown = shown /\ Tell(s).shown = s.shown
           /\ Refresh(s, shown).locked = s.locked /\ Tell(s).locked = s.locked
           /\ Refresh(s, shown).mute = s.mute /\ Tell(s).mute = s.mute
BY DEF States, Refresh, Tell

(* The forms whose events change nothing but what is displayed, and their    *)
(* fields whose event does not even that.                                    *)
Plain == {"test", "compare", "extract", "repair", "isolate", "merge", "slicing"}

Quiet(c) ==
    CASE c = "test" -> {"masks"}
      [] c = "compare" -> {"choice", "fsa", "masks"}
      [] c = "extract" -> {"choice", "fsa", "masks", "policy"}
      [] c = "repair" -> {"choice", "entrep", "params"}
      [] c = "isolate" -> {"choice", "entrep", "sig_block", "delta_mask", "compr", "params"}
      [] c = "merge" -> {"choice", "entrep", "auxiliary", "sig_block", "delta_mask", "masks",
                         "policy", "compr_mask", "params"}
      [] OTHER -> {}

(* t is s once told of a change, with something displayed.                   *)
Displays(c, s, t, shown) ==
    /\ t \in States(c) /\ t.v = s.v /\ t.shown = shown
    /\ t.locked = s.locked /\ t.mute = s.mute /\ t.skip = s.skip
    /\ t.told = (s.told \/ ~s.mute)

LEMMA TellDisplays ==
    ASSUME NEW c, NEW s \in States(c), NEW shown \in SUBSET Labels(c)
    PROVE  /\ Displays(c, s, Refresh(s, shown), shown)
           /\ Displays(c, s, Tell(s), s.shown)
BY DEF States, Refresh, Tell, Displays

LEMMA TestEvents ==
    ASSUME NEW s \in States("test"), NEW f \in Fields("test")
    PROVE  /\ Shown("test", s.v) \subseteq Labels("test")
           /\ Displays("test", s, OnEvent("test", s, f),
                       IF f \in Quiet("test") THEN s.shown ELSE Shown("test", s.v))
<1>1. Shown("test", s.v) = TestShown(s.v) /\ OnEvent("test", s, f) = TestEvent(s, f)
  BY DEF Shown, OnEvent
<1>2. TestShown(s.v) \subseteq Labels("test")
  BY StartIs, TestFields DEF Labels, Fields, TestShown, TreatedShown
<1>3. s.shown \in SUBSET Labels("test")
  BY StateIs
<1>4. TestEvent(s, f) = Refresh(s, IF f \in Quiet("test") THEN s.shown ELSE TestShown(s.v))
  BY DEF TestEvent, TestGuichets, Quiet
<1> QED
  BY <1>1, <1>2, <1>3, <1>4, TellDisplays

LEMMA CompareEvents ==
    ASSUME NEW s \in States("compare"), NEW f \in Fields("compare")
    PROVE  /\ Shown("compare", s.v) \subseteq Labels("compare")
           /\ Displays("compare", s, OnEvent("compare", s, f),
                       IF f \in Quiet("compare") THEN s.shown ELSE Shown("compare", s.v))
<1>1. Shown("compare", s.v) = CompareShown(s.v) /\ OnEvent("compare", s, f) = CompareEvent(s, f)
  BY DEF Shown, OnEvent
<1>2. CompareShown(s.v) \subseteq Labels("compare")
  BY StartIs, CompareFields DEF Labels, Fields, CompareShown, TreatedShown
<1>3. s.shown \in SUBSET Labels("compare")
  BY StateIs
<1>4. CompareEvent(s, f) = Refresh(s, IF f \in Quiet("compare") THEN s.shown ELSE CompareShown(s.v))
  BY DEF CompareEvent, CompareGuichets, Quiet
<1> QED
  BY <1>1, <1>2, <1>3, <1>4, TellDisplays

LEMMA ExtractEvents ==
    ASSUME NEW s \in States("extract"), NEW f \in Fields("extract")
    PROVE  /\ Shown("extract", s.v) \subseteq Labels("extract")
           /\ Displays("extract", s, OnEvent("extract", s, f),
                       IF f \in Quiet("extract") THEN s.shown ELSE Shown("extract", s.v))
<1>1. Shown("extract", s.v) = ExtractShown(s.v) /\ OnEvent("extract", s, f) = ExtractEvent(s, f)
  BY DEF Shown, OnEvent
<1>2. ExtractShown(s.v) \subseteq Labels("extract")
  BY StartIs, ExtractFields DEF Labels, Fields, ExtractShown, TreatedShown
<1>3. s.shown \in SUBSET Labels("extract")
  BY StateIs
<1>4. ExtractEvent(s, f) = Refresh(s, IF f \in Quiet("extract") THEN s.shown ELSE ExtractShown(s.v))
  BY DEF ExtractEvent, ExtractGuichets, Quiet
<1> QED
  BY <1>1, <1>2, <1>3, <1>4, TellDisplays

LEMMA RepairEvents ==
    ASSUME NEW s \in States("repair"), NEW f \in Fields("repair")
    PROVE  /\ Shown("repair", s.v) \subseteq Labels("repair")
           /\ Displays("repair", s, OnEvent("repair", s, f),
                       IF f \in Quiet("repair") THEN s.shown ELSE Shown("repair", s.v))
<1>1. Shown("repair", s.v) = RepairShown(s.v) /\ OnEvent("repair", s, f) = RepairEvent(s, f)
  BY DEF Shown, OnEvent
<1>2. RepairShown(s.v) \subseteq Labels("repair")
  BY StartIs, RepairFields DEF Labels, Fields, RepairShown, TreatedShown
<1>3. s.shown \in SUBSET Labels("repair")
  BY StateIs
<1>4. RepairEvent(s, f) = Refresh(s, IF f \in Quiet("repair") THEN s.shown ELSE RepairShown(s.v))
  BY DEF RepairEvent, RepairGuichets, Quiet
<1> QED
  BY <1>1, <1>2, <1>3, <1>4, TellDisplays

LEMMA IsolateEvents ==
    ASSUME NEW s \in States("isolate"), NEW f \in Fields("isolate")
    PROVE  /\ Shown("isolate", s.v) \subseteq Labels("isolate")
           /\ Displays("isolate", s, OnEvent("isolate", s, f),
                       IF f \in Quiet("isolate") THEN s.shown ELSE Shown("isolate", s.v))
<1>1. Shown("isolate", s.v) = IsolateShown(s.v) /\ OnEvent("isolate", s, f) = IsolateEvent(s, f)
  BY DEF Shown, OnEvent
<1>2. IsolateShown(s.v) \subseteq Labels("isolate")
  BY StartIs, IsolateFields DEF Labels, Fields, IsolateShown
<1>3. s.shown \in SUBSET Labels("isolate")
  BY StateIs
<1>4. IsolateEvent(s, f) = Refresh(s, IF f \in Quiet("isolate") THEN s.shown ELSE IsolateShown(s.v))
  BY DEF IsolateEvent, IsolateGuichets, Quiet
<1> QED
  BY <1>1, <1>2, <1>3, <1>4, TellDisplays

LEMMA MergeEvents ==
    ASSUME NEW s \in States("merge"), NEW f \in Fields("merge")
    PROVE  /\ Shown("merge", s.v) \subseteq Labels("merge")
           /\ Displays("merge", s, OnEvent("merge", s, f),
                       IF f \in Quiet("merge") THEN s.shown ELSE Shown("merge", s.v))
<1>1. Shown("merge", s.v) = MergeShown(s.v) /\ OnEvent("merge", s, f) = MergeEvent(s, f)
  BY DEF Shown, OnEvent
<1>2. MergeShown(s.v) \subseteq Labels("merge")
  BY StartIs, MergeFields, ZenonT(60) DEF Labels, Fields, MergeShown, TreatedShown
<1>3. s.shown \in SUBSET Labels("merge")
  BY StateIs
<1>4. MergeEvent(s, f) = Refresh(s, IF f \in Quiet("merge") THEN s.shown ELSE MergeShown(s.v))
  BY DEF MergeEvent, MergeGuichets, Quiet
<1> QED
  BY <1>1, <1>2, <1>3, <1>4, TellDisplays

LEMMA SlicingEvents ==
    ASSUME NEW s \in States("slicing"), NEW f \in Fields("slicing")
    PROVE  /\ Shown("slicing", s.v) \subseteq Labels("slicing")
           /\ Displays("slicing", s, OnEvent("slicing", s, f),
                       IF f \in Quiet("slicing") THEN s.shown ELSE Shown("slicing", s.v))
<1>1. Shown("slicing", s.v) = SlicingShown(s.v) /\ OnEvent("slicing", s, f) = SlicingEvent(s, f)
  BY DEF Shown, OnEvent
<1>2. SlicingShown(s.v) \subseteq Labels("slicing")
  BY StartIs, SlicingFields DEF Labels, Fields, SlicingShown
<1>3. s.shown \in SUBSET Labels("slicing")
  BY StateIs
<1>4. SlicingEvent(s, f) = Refresh(s, IF f \in Quiet("slicing") THEN s.shown ELSE SlicingShown(s.v))
  BY DEF SlicingEvent, Refresh, Quiet
<1> QED
  BY <1>1, <1>2, <1>3, <1>4, TellDisplays

LEMMA PlainEvents ==
    ASSUME NEW c \in Plain, NEW s \in States(c), NEW f \in Fields(c)
    PROVE  /\ Shown(c, s.v) \subseteq Labels(c)
           /\ Displays(c, s, OnEvent(c, s, f), IF f \in Quiet(c) THEN s.shown ELSE Shown(c, s.v))
BY TestEvents, CompareEvents, ExtractEvents, RepairEvents, IsolateEvents, MergeEvents,
   SlicingEvents DEF Plain

LEMMA QuietIsNotShown ==
    ASSUME NEW c \in Plain, NEW f \in Quiet(c), NEW v, NEW w,
           \A g \in Fields(c) \ {f} : v[g] = w[g]
    PROVE  Shown(c, v) = Shown(c, w)
<1>1. CASE c = "test"
  BY <1>1, StartIs, TestFields DEF Fields, Quiet, Shown, TestShown, TreatedShown
<1>2. CASE c = "compare"
  BY <1>2, StartIs, CompareFields DEF Fields, Quiet, Shown, CompareShown, TreatedShown
<1>3. CASE c = "extract"
  BY <1>3, StartIs, ExtractFields DEF Fields, Quiet, Shown, ExtractShown, TreatedShown
<1>4. CASE c = "repair"
  BY <1>4, StartIs, RepairFields DEF Fields, Quiet, Shown, RepairShown, TreatedShown
<1>5. CASE c = "isolate"
  BY <1>5, StartIs, IsolateFields DEF Fields, Quiet, Shown, IsolateShown
<1>6. CASE c = "merge"
  BY <1>6, StartIs, MergeFields DEF Fields, Quiet, Shown, MergeShown, TreatedShown, OnCompute
<1>7. CASE c = "slicing"
  BY <1>7, StartIs, SlicingFields DEF Fields, Quiet, Shown, SlicingShown
<1> QED
  BY <1>1, <1>2, <1>3, <1>4, <1>5, <1>6, <1>7 DEF Plain
-----------------------------------------------------------------------------
(* A form that displays and locks what its values ask for, and whose values  *)
(* agree.                                                                    *)
Agree(c, v) ==
    /\ c = "create" => (v.by_ea /\ v.default_ea => ~v.ea_name)
    /\ c = "read" => v.force = ForcedSlice(v)
    /\ c \in {"compr", "recompr"} => (~v.keep /\ ~v.block => ~v.threads)

Coherent(c) ==
    {s \in States(c) :
        /\ s.shown = Shown(c, s.v)
        /\ s.locked \cap s.shown = Locked(c, s.v) \cap s.shown
        /\ Agree(c, s.v)}

LEMMA AssignIs ==
    ASSUME NEW c, NEW s \in States(c), NEW p \in Pairs(c)
    PROVE  \E t \in States(c) :
              /\ t = [s EXCEPT !.v[p[1]] = p[2]]
              /\ p[1] \in Fields(c) /\ p[2] \in Entries(p[1])
              /\ t.v[p[1]] = p[2] /\ \A g \in Fields(c) \ {p[1]} : t.v[g] = s.v[g]
              /\ t.shown = s.shown /\ t.locked = s.locked /\ t.mute = s.mute
              /\ t.skip = s.skip /\ t.told = s.told
              /\ Assign(c, s, p) = IF s.v[p[1]] # p[2] /\ p[1] \in WatchedBy(c)
                                   THEN OnEvent(c, t, p[1]) ELSE t
              /\ s.v[p[1]] = p[2] => t = s
<1>1. p[1] \in Fields(c) /\ p[2] \in Entries(p[1])
  BY DEF Pairs
<1>2. PICK t : t = [s EXCEPT !.v[p[1]] = p[2]]
  OBVIOUS
<1>3. /\ t \in States(c)
      /\ t.v[p[1]] = p[2] /\ \A g \in Fields(c) \ {p[1]} : t.v[g] = s.v[g]
      /\ t = [s EXCEPT !.v = t.v]
  BY <1>1, <1>2, WithValue
<1>4. /\ t.shown = s.shown /\ t.locked = s.locked /\ t.mute = s.mute
      /\ t.skip = s.skip /\ t.told = s.told
  BY <1>3 DEF States
<1>5. Assign(c, s, p) = IF s.v[p[1]] # p[2] /\ p[1] \in WatchedBy(c)
                        THEN OnEvent(c, t, p[1]) ELSE t
  BY <1>2 DEF Assign
<1>6. s.v[p[1]] = p[2] => t = s
  <2>1. s.v \in [Fields(c) -> Held(c)]
    BY DEF States, Values
  <2>2. s.v[p[1]] = p[2] => [s.v EXCEPT ![p[1]] = p[2]] = s.v
    BY <1>1, <2>1
  <2>3. t = [s EXCEPT !.v = [s.v EXCEPT ![p[1]] = p[2]]]
    BY <1>2 DEF States
  <2> QED
    BY <2>2, <2>3 DEF States
<1> QED
  BY <1>1, <1>2, <1>3, <1>4, <1>5, <1>6

LEMMA PlainWatches ==
    ASSUME NEW c \in Plain PROVE WatchedBy(c) = Fields(c) /\ Locked(c, Start(c)) = {}
BY DEF Plain, WatchedBy, Fields, Start, Locked, TestWatches, CompareWatches, ExtractWatches,
       RepairWatches, IsolateWatches, MergeWatches, SlicingWatches

LEMMA PlainAssign ==
    ASSUME NEW c \in Plain, NEW s \in States(c), NEW p \in Pairs(c)
    PROVE  LET t == Assign(c, s, p) IN
           /\ t \in States(c) /\ t.v = [s.v EXCEPT ![p[1]] = p[2]]
           /\ t.locked = s.locked /\ t.mute = s.mute /\ t.skip = s.skip
           /\ s.shown = Shown(c, s.v) => t.shown = Shown(c, t.v)
<1>1. PICK u \in States(c) :
              /\ u = [s EXCEPT !.v[p[1]] = p[2]]
              /\ p[1] \in Fields(c) /\ p[2] \in Entries(p[1])
              /\ u.v[p[1]] = p[2] /\ \A g \in Fields(c) \ {p[1]} : u.v[g] = s.v[g]
              /\ u.shown = s.shown /\ u.locked = s.locked /\ u.mute = s.mute
              /\ u.skip = s.skip /\ u.told = s.told
              /\ Assign(c, s, p) = IF s.v[p[1]] # p[2] /\ p[1] \in WatchedBy(c)
                                   THEN OnEvent(c, u, p[1]) ELSE u
              /\ s.v[p[1]] = p[2] => u = s
  BY AssignIs
<1>2. u.v = [s.v EXCEPT ![p[1]] = p[2]]
  BY <1>1 DEF States
<1>3. CASE s.v[p[1]] = p[2]
  BY <1>1, <1>2, <1>3
<1>4. CASE s.v[p[1]] # p[2]
  <2>1. PICK t : t = Assign(c, s, p)
    OBVIOUS
  <2>2. t = OnEvent(c, u, p[1])
    BY <1>1, <1>4, <2>1, PlainWatches
  <2>3. Displays(c, u, t, IF p[1] \in Quiet(c) THEN u.shown ELSE Shown(c, u.v))
    BY <1>1, <2>2, PlainEvents
  <2>4. ASSUME p[1] \in Quiet(c) PROVE Shown(c, s.v) = Shown(c, u.v)
    <3>1. \A g \in Fields(c) \ {p[1]} : s.v[g] = u.v[g]
      BY <1>1
    <3> QED
      BY <2>4, <3>1, QuietIsNotShown
  <2> QED
    BY <1>1, <1>2, <2>1, <2>3, <2>4 DEF Displays
<1> QED
  BY <1>3, <1>4
-----------------------------------------------------------------------------
CreateQuiet ==
    {"entrep", "masks", "ea_mask", "reference", "sig_block", "delta_mask", "compr_mask", "params",
     "date", "checked"}

LEMMA CreateEvents ==
    ASSUME NEW u \in States("create"), NEW f \in Fields("create")
    PROVE  LET t == OnEvent("create", u, f) IN
           /\ f \in CreateQuiet => Displays("create", u, t, u.shown)
           /\ f \notin CreateQuiet =>
                 /\ t \in Coherent("create")
                 /\ t.v = [u.v EXCEPT !.ea_name = IF u.v.by_ea /\ u.v.default_ea THEN FALSE ELSE @]
                 /\ t.mute = u.mute /\ t.skip = u.skip /\ t.told = (u.told \/ ~u.mute)
<1>0. u.shown \in SUBSET Labels("create") /\ OnEvent("create", u, f) = CreateEvent(u, f)
  BY StateIs DEF OnEvent
<1>1. (DOMAIN CreateGuichets \ {"compr"}) \cup {"date", "checked"} = CreateQuiet
  BY DEF CreateGuichets, CreateQuiet
<1>2. CASE f \in CreateQuiet
  <2>1. CreateEvent(u, f) = Tell(u)
    BY <1>1, <1>2 DEF CreateEvent
  <2> QED
    BY <1>0, <1>2, <2>1, TellDisplays
<1>3. CASE f \notin CreateQuiet
  <2>1. PICK w : w = [u.v EXCEPT !.ea_name = IF u.v.by_ea /\ u.v.default_ea THEN FALSE ELSE @]
    OBVIOUS
  <2>2. PICK l : l = IF u.v.by_ea THEN CreateLocked(u.v) ELSE u.locked
    OBVIOUS
  <2>3. /\ "ea_name" \in Fields("create") /\ FALSE \in Entries("ea_name")
        /\ "by_ea" \in Fields("create") /\ "default_ea" \in Fields("create")
    BY StartIs, CreateFields DEF Fields
  <2>4. /\ w \in Values("create") /\ \A g \in Fields("create") \ {"ea_name"} : w[g] = u.v[g]
        /\ w.by_ea /\ w.default_ea => w.ea_name = FALSE
    <3>1. u.v \in Values("create")
      BY StateIs
    <3>2. CASE u.v.by_ea /\ u.v.default_ea
      BY <2>1, <2>3, <3>1, <3>2, HeldIs DEF Values
    <3>3. CASE ~(u.v.by_ea /\ u.v.default_ea)
      <4>1. w = u.v
        BY <2>1, <3>1, <3>3 DEF Values
      <4> QED
        BY <3>1, <3>3, <4>1
    <3> QED
      BY <3>2, <3>3
  <2>5. l \in SUBSET {"ea_name"} /\ Lockable("create") = {"ea_name"}
    <3>1. Lockable("create") = {"ea_name"}
      BY DEF Lockable
    <3>2. u.locked \in SUBSET {"ea_name"}
      BY <3>1, StateIs
    <3> QED
      BY <2>2, <3>1, <3>2 DEF CreateLocked
  <2>6. PICK s : s = [u EXCEPT !.v = w, !.locked = l]
    OBVIOUS
  <2>7. /\ s \in States("create") /\ s.v = w /\ s.locked = l
        /\ s.mute = u.mute /\ s.skip = u.skip /\ s.told = u.told
    BY <2>4, <2>5, <2>6 DEF States
  <2>8. CreateEvent(u, f) = Refresh(s, CreateShown(u.v))
    <3>1. CreateEvent(u, f) =
            Refresh([u EXCEPT
                        !.v.ea_name = IF u.v.by_ea /\ u.v.default_ea THEN FALSE ELSE @,
                        !.locked = IF u.v.by_ea THEN CreateLocked(u.v) ELSE @],
                    CreateShown(u.v))
      BY <1>1, <1>3 DEF CreateEvent
    <3>2. [u EXCEPT !.v.ea_name = IF u.v.by_ea /\ u.v.default_ea THEN FALSE ELSE @,
                    !.locked = IF u.v.by_ea THEN CreateLocked(u.v) ELSE @] = s
      BY <2>1, <2>2, <2>6 DEF States
    <3> QED
      BY <3>1, <3>2
  <2>9. CreateShown(u.v) = CreateShown(w)
    BY <2>4, StartIs, CreateFields DEF Fields, CreateShown, OnDiff, OnDate, TreatedShown
  <2>10. CreateShown(w) \in SUBSET Labels("create")
    <3>1. Labels("create") = DOMAIN CreateStart \cup {"high minimum", "red border", "summary"}
      BY StartIs DEF Labels, Fields
    <3>2. CreateShown(w) \subseteq
            {"entrep", "masks", "ea_mask", "archtype", "delta_sig", "plain", "skipped",
             "by_ea", "compr", "params", "reference", "checked", "hourshift", "date", "sig_block", "delta_mask",
             "treated", "only_dir", "default_ea", "ea_name", "compr_mask"}
      BY DEF CreateShown, TreatedShown
    <3> QED
      BY <3>1, <3>2, CreateFields
  <2>11. PICK t : t = CreateEvent(u, f)
    OBVIOUS
  <2>12. Displays("create", s, t, CreateShown(w))
    BY <2>7, <2>8, <2>9, <2>10, <2>11, TellDisplays
  <2>13. l \cap CreateShown(w) = CreateLocked(w) \cap CreateShown(w)
    <3>1. CASE u.v.by_ea
      <4>1. CreateLocked(w) = CreateLocked(u.v)
        BY <2>3, <2>4 DEF CreateLocked
      <4> QED
        BY <2>2, <3>1, <4>1
    <3>2. CASE ~u.v.by_ea
      <4>1. ~w.by_ea
        BY <2>3, <2>4, <3>2
      <4>2. "ea_name" \notin CreateShown(w) /\ CreateLocked(w) = {}
        BY <4>1 DEF CreateShown, TreatedShown, CreateLocked
      <4> QED
        BY <2>5, <4>2
    <3> QED
      BY <3>1, <3>2
  <2>14. Shown("create", w) = CreateShown(w) /\ Locked("create", w) = CreateLocked(w)
    BY DEF Shown, Locked
  <2> QED
    BY <1>0, <1>3, <2>1, <2>4, <2>7, <2>11, <2>12, <2>13, <2>14 DEF Displays, Coherent, Agree
<1> QED
  BY <1>2, <1>3

LEMMA CreateSame ==
    ASSUME NEW v, NEW w, \A g \in Fields("create") \ (CreateQuiet \cup {"skipped"}) : v[g] = w[g]
    PROVE  /\ CreateShown(v) = CreateShown(w) /\ CreateLocked(v) = CreateLocked(w)
           /\ Agree("create", v) <=> Agree("create", w)
BY StartIs, CreateFields DEF Fields, CreateQuiet, CreateShown, CreateLocked, OnDiff, OnDate,
   TreatedShown, Agree

LEMMA CreateAssign ==
    ASSUME NEW s \in States("create"), NEW p \in Pairs("create")
    PROVE  LET t == Assign("create", s, p) IN
           /\ t \in States("create") /\ t.mute = s.mute /\ t.skip = s.skip
           /\ \A g \in Fields("create") \ {p[1], "ea_name"} : t.v[g] = s.v[g]
           /\ p[1] # "ea_name" => t.v[p[1]] = p[2]
           /\ p[1] \in CreateQuiet => t.v = [s.v EXCEPT ![p[1]] = p[2]]
           /\ s \in Coherent("create") => t \in Coherent("create")
<1>1. PICK u \in States("create") :
              /\ u = [s EXCEPT !.v[p[1]] = p[2]]
              /\ p[1] \in Fields("create") /\ p[2] \in Entries(p[1])
              /\ u.v[p[1]] = p[2] /\ \A g \in Fields("create") \ {p[1]} : u.v[g] = s.v[g]
              /\ u.shown = s.shown /\ u.locked = s.locked /\ u.mute = s.mute
              /\ u.skip = s.skip /\ u.told = s.told
              /\ Assign("create", s, p) = IF s.v[p[1]] # p[2] /\ p[1] \in WatchedBy("create")
                                      THEN OnEvent("create", u, p[1]) ELSE u
              /\ s.v[p[1]] = p[2] => u = s
  BY AssignIs
<1>2. PICK t : t = Assign("create", s, p)
  OBVIOUS
<1>3. u.v = [s.v EXCEPT ![p[1]] = p[2]]
  BY <1>1 DEF States
<1>4. CASE s.v[p[1]] = p[2]
  BY <1>1, <1>2, <1>3, <1>4
<1>5. CASE s.v[p[1]] # p[2] /\ p[1] = "skipped"
  <2>1. t = u
    BY <1>1, <1>2, <1>5 DEF WatchedBy, CreateWatches
  <2>2. /\ CreateShown(s.v) = CreateShown(u.v) /\ CreateLocked(s.v) = CreateLocked(u.v)
        /\ Agree("create", s.v) <=> Agree("create", u.v)
    <3>1. \A g \in Fields("create") \ (CreateQuiet \cup {"skipped"}) : s.v[g] = u.v[g]
      BY <1>1, <1>5
    <3> QED
      BY <3>1, CreateSame
  <2>3. s \in Coherent("create") => u \in Coherent("create")
    BY <1>1, <2>2 DEF Coherent, Shown, Locked
  <2> QED
    BY <1>1, <1>2, <1>3, <1>5, <2>1, <2>3, ZenonT(60)
<1>6. CASE s.v[p[1]] # p[2] /\ p[1] \in CreateQuiet
  <2>1. t = OnEvent("create", u, p[1])
    BY <1>1, <1>2, <1>6, StartIs, CreateFields DEF WatchedBy, CreateWatches, CreateQuiet
  <2>2. Displays("create", u, t, u.shown)
    BY <1>1, <1>6, <2>1, CreateEvents
  <2>3. /\ CreateShown(s.v) = CreateShown(u.v) /\ CreateLocked(s.v) = CreateLocked(u.v)
        /\ Agree("create", s.v) <=> Agree("create", u.v)
    <3>1. \A g \in Fields("create") \ (CreateQuiet \cup {"skipped"}) : s.v[g] = u.v[g]
      BY <1>1, <1>6
    <3> QED
      BY <3>1, CreateSame
  <2>4. s \in Coherent("create") => t \in Coherent("create")
    BY <1>1, <2>2, <2>3 DEF Coherent, Shown, Locked, Displays
  <2> QED
    BY <1>1, <1>2, <1>3, <1>6, <2>2, <2>4, ZenonT(60) DEF Displays
<1>7. CASE s.v[p[1]] # p[2] /\ p[1] # "skipped" /\ p[1] \notin CreateQuiet
  <2>1. t = OnEvent("create", u, p[1])
    BY <1>1, <1>2, <1>7, StartIs DEF WatchedBy, CreateWatches, Fields
  <2>2. /\ t \in Coherent("create") /\ t.mute = u.mute /\ t.skip = u.skip
        /\ t.v = [u.v EXCEPT !.ea_name = IF u.v.by_ea /\ u.v.default_ea THEN FALSE ELSE @]
    BY <1>1, <1>7, <2>1, CreateEvents, ZenonT(60)
  <2>3. u.v \in [Fields("create") -> Held("create")]
    BY <1>1 DEF States, Values
  <2>4. \A g \in Fields("create") \ {"ea_name"} : t.v[g] = u.v[g]
    BY <2>2, <2>3
  <2> QED
    BY <1>1, <1>2, <1>7, <2>2, <2>4, ZenonT(60) DEF Coherent
<1> QED
  BY <1>2, <1>4, <1>5, <1>6, <1>7

-----------------------------------------------------------------------------
LEMMA ReadFollows ==
    ASSUME NEW s \in States("read")
    PROVE  LET t == ReadFollow(s) IN
           /\ t \in States("read") /\ t.shown = ReadShown(s.v) /\ t.locked = s.locked
           /\ t.v = [s.v EXCEPT !.ref_entrep = IF s.v.ext THEN @ ELSE "none"]
           /\ t.mute = (s.v.ext /\ s.mute)
<1>1. PICK w : w = [s.v EXCEPT !.ref_entrep = IF s.v.ext THEN @ ELSE "none"]
  OBVIOUS
<1>2. w \in Values("read")
  <2>1. /\ "ref_entrep" \in Fields("read") /\ "none" \in Entries("ref_entrep")
        /\ s.v \in Values("read")
    BY StartIs, ReadFields, StateIs DEF Fields
  <2> QED
    BY <1>1, <2>1, HeldIs DEF Values
<1>3. ReadShown(s.v) \in SUBSET Labels("read")
  BY StartIs, ReadFields DEF Labels, Fields, ReadShown
<1>4. s.v.ext \in BOOLEAN /\ s.mute \in BOOLEAN
  <2>1. "ext" \in Fields("read") /\ Entries("ext") = BOOLEAN /\ s.v \in Values("read")
    BY StartIs, ReadFields, StateIs DEF Fields
  <2> QED
    BY <2>1, StateIs DEF Values
<1>5. PICK m : m = (s.v.ext /\ s.mute) /\ m \in BOOLEAN
  BY <1>4
<1>6. PICK t : t = [s EXCEPT !.shown = ReadShown(s.v), !.v = w, !.mute = m]
  OBVIOUS
<1>7. /\ t \in States("read") /\ t.v = w /\ t.shown = ReadShown(s.v) /\ t.mute = m
      /\ t.locked = s.locked /\ t.skip = s.skip /\ t.told = s.told
  BY <1>2, <1>3, <1>5, <1>6 DEF States
<1>8. ReadFollow(s) = IF t.skip THEN [t EXCEPT !.skip = FALSE] ELSE Tell(t)
  <2>1. t = [s EXCEPT !.shown = ReadShown(s.v),
                      !.v.ref_entrep = IF s.v.ext THEN @ ELSE "none",
                      !.mute = s.v.ext /\ @]
    BY <1>1, <1>5, <1>6 DEF States
  <2> QED
    BY <2>1 DEF ReadFollow
<1>9. /\ [t EXCEPT !.skip = FALSE] \in States("read") /\ [t EXCEPT !.skip = FALSE].v = w
      /\ [t EXCEPT !.skip = FALSE].shown = t.shown /\ [t EXCEPT !.skip = FALSE].mute = m
      /\ [t EXCEPT !.skip = FALSE].locked = s.locked
  BY <1>7 DEF States
<1>10. Displays("read", t, Tell(t), t.shown)
  BY <1>3, <1>7, TellDisplays
<1> QED
  BY <1>1, <1>5, <1>7, <1>8, <1>9, <1>10 DEF Displays

LEMMA ReadEvents ==
    ASSUME NEW u \in States("read"), NEW f \in Fields("read")
    PROVE  LET t == OnEvent("read", u, f) IN
           /\ f = "entrep" => Displays("read", u, t, u.shown)
           /\ f # "entrep" =>
                 /\ t \in Coherent("read") /\ (~u.mute => ~t.mute)
                 /\ \A g \in Fields("read") \ {"force", "ref_entrep"} : t.v[g] = u.v[g]
                 /\ t.v.force = ForcedSlice(u.v)
                 /\ t.v.ref_entrep = IF u.v.ext THEN u.v.ref_entrep ELSE "none"
<1>0. u.shown \in SUBSET Labels("read") /\ OnEvent("read", u, f) = ReadEvent(u, f)
  BY StateIs DEF OnEvent
<1>1. CASE f = "entrep"
  BY <1>0, <1>1, TellDisplays DEF ReadEvent
<1>2. CASE f # "entrep"
  <2>1. /\ Fields("read") = DOMAIN ReadStart /\ u.v \in Values("read")
        /\ \A g \in {"seq", "force", "ext"} : g \in Fields("read") /\ Entries(g) = BOOLEAN
        /\ "ref_entrep" \in Fields("read")
    BY StartIs, ReadFields, StateIs DEF Fields
  <2>2. u.v.seq \in BOOLEAN /\ u.v.force \in BOOLEAN /\ u.v.ext \in BOOLEAN
    BY <2>1 DEF Values
  <2>3. PICK x \in BOOLEAN : x = ForcedSlice(u.v)
    BY <2>2 DEF ForcedSlice
  <2>4. PICK w : w = [u.v EXCEPT !.force = x]
    OBVIOUS
  <2>5. /\ w \in Values("read") /\ w.force = x
        /\ \A g \in Fields("read") \ {"force"} : w[g] = u.v[g]
    BY <2>1, <2>3, <2>4, HeldIs DEF Values
  <2>6. ForcedSlice(w) = x /\ w.ext = u.v.ext /\ w.seq = u.v.seq
    BY <2>1, <2>2, <2>3, <2>5 DEF ForcedSlice
  <2>7. ReadLocked(u.v) \in SUBSET Lockable("read")
    BY DEF ReadLocked, Lockable
  <2>8. PICK s : s = [u EXCEPT !.v = w, !.locked = ReadLocked(u.v)]
    OBVIOUS
  <2>9. /\ s \in States("read") /\ s.v = w /\ s.locked = ReadLocked(u.v) /\ s.mute = u.mute
    BY <2>5, <2>7, <2>8 DEF States
  <2>10. ReadEvent(u, f) = IF s = u THEN ReadFollow(s) ELSE ReadFollow(ReadFollow(s))
    <3>1. s = [u EXCEPT !.v.force = ForcedSlice(u.v), !.locked = ReadLocked(u.v)]
      BY <2>3, <2>4, <2>8 DEF States
    <3> QED
      BY <1>2, <3>1 DEF ReadEvent
  <2>11. PICK t : t = ReadFollow(s)
    OBVIOUS
  <2>12. /\ t \in States("read") /\ t.shown = ReadShown(w) /\ t.locked = s.locked
         /\ t.v = [w EXCEPT !.ref_entrep = IF w.ext THEN @ ELSE "none"]
         /\ t.mute = (w.ext /\ s.mute)
    BY <2>9, <2>11, ReadFollows
  <2>13. PICK t2 : t2 = ReadFollow(t)
    OBVIOUS
  <2>14. /\ t2 \in States("read") /\ t2.shown = ReadShown(t.v) /\ t2.locked = t.locked
         /\ t2.v = [t.v EXCEPT !.ref_entrep = IF t.v.ext THEN @ ELSE "none"]
         /\ t2.mute = (t.v.ext /\ t.mute)
    BY <2>12, <2>13, ReadFollows
  <2>15. /\ \A g \in Fields("read") \ {"ref_entrep"} : t.v[g] = w[g]
         /\ t.v.ref_entrep = IF w.ext THEN w.ref_entrep ELSE "none"
    BY <2>1, <2>5, <2>12 DEF Values
  <2>16. /\ \A g \in Fields("read") \ {"ref_entrep"} : t2.v[g] = w[g]
         /\ t2.v.ref_entrep = IF w.ext THEN w.ref_entrep ELSE "none"
    <3>1. t.v \in [Fields("read") -> Held("read")]
      BY <2>12 DEF States, Values
    <3> QED
      BY <2>1, <2>14, <2>15, <3>1
  <2>17. ASSUME NEW r \in {t, t2}
         PROVE  /\ r \in Coherent("read") /\ (~u.mute => ~r.mute)
                /\ \A g \in Fields("read") \ {"force", "ref_entrep"} : r.v[g] = u.v[g]
                /\ r.v.force = ForcedSlice(u.v)
                /\ r.v.ref_entrep = IF u.v.ext THEN u.v.ref_entrep ELSE "none"
    <3>1. /\ \A g \in Fields("read") \ {"ref_entrep"} : r.v[g] = w[g]
          /\ r.v.ref_entrep = IF w.ext THEN w.ref_entrep ELSE "none"
          /\ r \in States("read") /\ r.locked = ReadLocked(u.v)
      BY <2>9, <2>12, <2>14, <2>15, <2>16
    <3>2. r.v.ext = u.v.ext /\ r.v.seq = u.v.seq /\ r.v.force = x
      BY <2>1, <2>5, <2>6, <3>1
    <3>3. r.shown = ReadShown(r.v)
      BY <2>1, <2>5, <2>12, <2>14, <2>15, <2>16, <3>2 DEF ReadShown
    <3>4. ReadLocked(r.v) = ReadLocked(u.v) /\ ForcedSlice(r.v) = x
      BY <2>2, <2>3, <3>2 DEF ReadLocked, ForcedSlice
    <3>5. ~u.mute => ~r.mute
      BY <2>9, <2>12, <2>14
    <3>6. r \in Coherent("read")
      BY <3>1, <3>2, <3>3, <3>4 DEF Coherent, Agree, Shown, Locked
    <3>7. \A g \in Fields("read") \ {"force", "ref_entrep"} : r.v[g] = u.v[g]
      BY <2>5, <3>1
    <3>8. r.v.ref_entrep = IF u.v.ext THEN u.v.ref_entrep ELSE "none"
      BY <2>1, <2>5, <2>6, <3>1
    <3> QED
      BY <2>3, <3>2, <3>5, <3>6, <3>7, <3>8
  <2> QED
    BY <1>0, <1>2, <2>10, <2>11, <2>13, <2>17
<1> QED
  BY <1>1, <1>2

LEMMA ReadSame ==
    ASSUME NEW v, NEW w, \A g \in {"seq", "force", "ext"} : v[g] = w[g]
    PROVE  /\ ReadShown(v) = ReadShown(w) /\ ReadLocked(v) = ReadLocked(w)
           /\ Agree("read", v) <=> Agree("read", w)
BY DEF ReadShown, ReadLocked, ForcedSlice, Agree

LEMMA ReadAssign ==
    ASSUME NEW s \in States("read"), NEW p \in Pairs("read")
    PROVE  LET t == Assign("read", s, p) IN
           /\ t \in States("read") /\ (~s.mute => ~t.mute)
           /\ \A g \in Fields("read") \ {p[1], "force", "ref_entrep"} : t.v[g] = s.v[g]
           /\ p[1] \notin {"force", "ref_entrep"} => t.v[p[1]] = p[2]
           /\ p[1] \in {"ref_entrep", "ref_path"} => t = [s EXCEPT !.v[p[1]] = p[2]]
           /\ s \in Coherent("read") => t \in Coherent("read")
<1>1. PICK u \in States("read") :
              /\ u = [s EXCEPT !.v[p[1]] = p[2]]
              /\ p[1] \in Fields("read") /\ p[2] \in Entries(p[1])
              /\ u.v[p[1]] = p[2] /\ \A g \in Fields("read") \ {p[1]} : u.v[g] = s.v[g]
              /\ u.shown = s.shown /\ u.locked = s.locked /\ u.mute = s.mute
              /\ u.skip = s.skip /\ u.told = s.told
              /\ Assign("read", s, p) = IF s.v[p[1]] # p[2] /\ p[1] \in WatchedBy("read")
                                     THEN OnEvent("read", u, p[1]) ELSE u
              /\ s.v[p[1]] = p[2] => u = s
  BY AssignIs
<1>2. PICK t : t = Assign("read", s, p)
  OBVIOUS
<1>3. u.v = [s.v EXCEPT ![p[1]] = p[2]]
  BY <1>1 DEF States
<1>4. CASE s.v[p[1]] = p[2]
  BY <1>1, <1>2, <1>3, <1>4
<1>5. ASSUME p[1] \notin {"seq", "force", "ext"}
      PROVE  /\ ReadShown(s.v) = ReadShown(u.v) /\ ReadLocked(s.v) = ReadLocked(u.v)
             /\ Agree("read", s.v) <=> Agree("read", u.v)
  <2>1. \A g \in {"seq", "force", "ext"} : s.v[g] = u.v[g]
    BY <1>1, <1>5, StartIs, ReadFields DEF Fields
  <2> QED
    BY <2>1, ReadSame
<1>6. CASE s.v[p[1]] # p[2] /\ p[1] \in {"ref_entrep", "ref_path"}
  <2>1. t = u
    BY <1>1, <1>2, <1>6 DEF WatchedBy, ReadWatches
  <2>2. s \in Coherent("read") => u \in Coherent("read")
    BY <1>1, <1>5, <1>6 DEF Coherent, Shown, Locked
  <2> QED
    BY <1>1, <1>2, <1>6, <2>1, <2>2, ZenonT(60)
<1>7. CASE s.v[p[1]] # p[2] /\ p[1] = "entrep"
  <2>1. t = OnEvent("read", u, p[1])
    BY <1>1, <1>2, <1>7, StartIs DEF WatchedBy, ReadWatches, Fields
  <2>2. Displays("read", u, t, u.shown)
    BY <1>1, <1>7, <2>1, ReadEvents
  <2>3. s \in Coherent("read") => t \in Coherent("read")
    BY <1>1, <1>5, <1>7, <2>2 DEF Coherent, Shown, Locked, Displays
  <2> QED
    BY <1>1, <1>2, <1>7, <2>2, <2>3, ZenonT(60) DEF Displays
<1>8. CASE s.v[p[1]] # p[2] /\ p[1] \notin {"ref_entrep", "ref_path", "entrep"}
  <2>1. t = OnEvent("read", u, p[1])
    BY <1>1, <1>2, <1>8, StartIs DEF WatchedBy, ReadWatches, Fields
  <2>2. /\ t \in Coherent("read") /\ (~u.mute => ~t.mute)
        /\ \A g \in Fields("read") \ {"force", "ref_entrep"} : t.v[g] = u.v[g]
    BY <1>1, <1>8, <2>1, ReadEvents, ZenonT(60)
  <2> QED
    BY <1>1, <1>2, <1>8, <2>2 DEF Coherent
<1> QED
  BY <1>2, <1>4, <1>6, <1>7, <1>8

-----------------------------------------------------------------------------
LEMMA SigEvents ==
    ASSUME NEW u \in States("sig_block"), NEW f
    PROVE  LET t == OnEvent("sig_block", u, f) IN
           /\ t \in States("sig_block") /\ t.v = u.v /\ t.mute = u.mute
           /\ u.mute => t = u
           /\ ~u.mute /\ ~u.v.reversed => t \in Coherent("sig_block") /\ t.told
<1>1. SigShown(u.v) \in SUBSET Labels("sig_block") /\ u.shown \cup {"red border"} \in SUBSET Labels("sig_block")
  BY StateIs, StartIs, SigFields DEF Labels, Fields, SigShown
<1>2. Displays("sig_block", u, Refresh(u, SigShown(u.v)), SigShown(u.v))
  BY <1>1, TellDisplays
<1>3. PICK t : t = [u EXCEPT !.shown = @ \cup {"red border"}]
  OBVIOUS
<1>4. t \in States("sig_block") /\ t.v = u.v /\ t.mute = u.mute
  BY <1>1, <1>3 DEF States
<1>5. Shown("sig_block", u.v) = SigShown(u.v) /\ OnEvent("sig_block", u, f) = SigEvent(u, f)
  BY DEF Shown, OnEvent
<1>6. Locked("sig_block", u.v) = {} /\ Lockable("sig_block") = {}
  BY DEF Locked, Lockable
<1>7. CASE u.mute
  BY <1>5, <1>7 DEF SigEvent
<1>8. CASE ~u.mute /\ u.v.reversed
  BY <1>3, <1>4, <1>5, <1>8 DEF SigEvent
<1>9. CASE ~u.mute /\ ~u.v.reversed
  <2>1. PICK r : r = Refresh(u, SigShown(u.v))
    OBVIOUS
  <2>2. OnEvent("sig_block", u, f) = r
    BY <1>5, <1>9, <2>1 DEF SigEvent
  <2>3. r \in States("sig_block") /\ r.v = u.v /\ r.mute = u.mute /\ r.shown = SigShown(u.v) /\ r.told
    BY <1>2, <1>9, <2>1 DEF Displays
  <2>4. r.locked = {}
    BY <1>6, <2>3, StateIs
  <2>5. r \in Coherent("sig_block")
    BY <1>5, <1>6, <2>3, <2>4 DEF Coherent, Agree
  <2> QED
    BY <1>9, <2>2, <2>3, <2>5
<1> QED
  BY <1>7, <1>8, <1>9

LEMMA SigAssign ==
    ASSUME NEW s \in States("sig_block"), NEW p \in Pairs("sig_block")
    PROVE  LET t == Assign("sig_block", s, p) IN
           /\ t \in States("sig_block") /\ t.mute = s.mute
           /\ t.v = [s.v EXCEPT ![p[1]] = p[2]]
           /\ ~s.mute /\ (s.v.reversed \/ s \in Coherent("sig_block")) =>
                 t.v.reversed \/ t \in Coherent("sig_block")
<1>1. PICK u \in States("sig_block") :
              /\ u = [s EXCEPT !.v[p[1]] = p[2]]
              /\ p[1] \in Fields("sig_block") /\ p[2] \in Entries(p[1])
              /\ u.v[p[1]] = p[2] /\ \A g \in Fields("sig_block") \ {p[1]} : u.v[g] = s.v[g]
              /\ u.shown = s.shown /\ u.locked = s.locked /\ u.mute = s.mute
              /\ u.skip = s.skip /\ u.told = s.told
              /\ Assign("sig_block", s, p) = IF s.v[p[1]] # p[2] /\ p[1] \in WatchedBy("sig_block")
                                     THEN OnEvent("sig_block", u, p[1]) ELSE u
              /\ s.v[p[1]] = p[2] => u = s
  BY AssignIs
<1>2. PICK t : t = Assign("sig_block", s, p)
  OBVIOUS
<1>3. u.v = [s.v EXCEPT ![p[1]] = p[2]]
  BY <1>1 DEF States
<1>4. CASE s.v[p[1]] = p[2]
  BY <1>1, <1>2, <1>3, <1>4
<1>5. CASE s.v[p[1]] # p[2]
  <2>1. t = OnEvent("sig_block", u, p[1])
    BY <1>1, <1>2, <1>5, StartIs DEF WatchedBy, SigWatches, Fields
  <2>2. /\ t \in States("sig_block") /\ t.v = u.v /\ t.mute = u.mute
        /\ ~u.mute /\ ~u.v.reversed => t \in Coherent("sig_block")
    BY <2>1, SigEvents
  <2>3. t.v.reversed = u.v.reversed
    BY <2>2
  <2> QED
    BY <1>1, <1>2, <1>3, <2>2, <2>3
<1> QED
  BY <1>2, <1>4, <1>5

-----------------------------------------------------------------------------
LEMMA ComprEvents ==
    ASSUME NEW c \in {"compr", "recompr"}, NEW u \in States(c), NEW f
    PROVE  LET t == OnEvent(c, u, f) IN
           /\ u.mute => t = u
           /\ ~u.mute =>
                 /\ t \in Coherent(c) /\ t.mute = u.mute /\ t.told
                 /\ \A g \in Fields(c) \ {"threads"} : t.v[g] = u.v[g]
                 /\ t.v.threads = IF ~u.v.keep /\ ~u.v.block THEN FALSE ELSE u.v.threads
<1>0. /\ OnEvent(c, u, f) = ComprEvent(c, u, f)
      /\ \A v : Shown(c, v) = ComprShown(c, v) /\ Locked(c, v) = ComprLocked(v)
      /\ Fields(c) = DOMAIN ComprStart /\ Lockable(c) = {"threads"}
  BY StartIs DEF OnEvent, Shown, Locked, Fields, Lockable
<1>1. /\ u.v \in Values(c) /\ u.v.block \in BOOLEAN /\ u.v.threads \in BOOLEAN /\ u.v.keep \in BOOLEAN
      /\ "threads" \in Fields(c) /\ Entries("threads") = BOOLEAN
  BY <1>0, StateIs, ComprFields DEF Values
<1>2. CASE u.mute
  BY <1>0, <1>2 DEF ComprEvent
<1>3. CASE ~u.mute /\ u.v.keep
  <2>1. ComprShown(c, u.v) \in SUBSET Labels(c)
    BY <1>0, <1>3, ComprFields DEF Labels, ComprShown
  <2>2. PICK t : t = Refresh(u, ComprShown(c, u.v))
    OBVIOUS
  <2>3. Displays(c, u, t, ComprShown(c, u.v))
    BY <2>1, <2>2, TellDisplays
  <2>4. OnEvent(c, u, f) = t
    BY <1>0, <1>3, <2>2 DEF ComprEvent
  <2>5. "threads" \notin ComprShown(c, u.v)
    BY <1>3 DEF ComprShown
  <2>6. t \in Coherent(c)
    BY <1>0, <1>3, <2>3, <2>5, StateIs DEF Displays, Coherent, Agree, ComprLocked
  <2> QED
    BY <1>3, <2>3, <2>4, <2>6 DEF Displays
<1>4. CASE ~u.mute /\ ~u.v.keep
  <2>1. PICK x \in BOOLEAN : x = (u.v.block /\ u.v.threads)
    BY <1>1
  <2>2. PICK w : w = [u.v EXCEPT !.threads = x]
    OBVIOUS
  <2>3. w \in Values(c) /\ w.threads = x /\ \A g \in Fields(c) \ {"threads"} : w[g] = u.v[g]
    BY <1>1, <2>1, <2>2, HeldIs DEF Values
  <2>4. PICK s : s = [u EXCEPT !.locked = ComprLocked(u.v), !.v = w]
    OBVIOUS
  <2>5. ComprLocked(u.v) \in SUBSET Lockable(c)
    BY <1>0 DEF ComprLocked
  <2>6. /\ s \in States(c) /\ s.v = w /\ s.locked = ComprLocked(u.v) /\ s.mute = u.mute
        /\ s.told = u.told
    BY <2>3, <2>4, <2>5 DEF States
  <2>7. ComprShown(c, u.v) \in SUBSET Labels(c)
    BY <1>0, ComprFields DEF Labels, ComprShown
  <2>8. PICK t : t = Refresh(s, ComprShown(c, u.v))
    OBVIOUS
  <2>9. Displays(c, s, t, ComprShown(c, u.v))
    BY <2>6, <2>7, <2>8, TellDisplays
  <2>10. OnEvent(c, u, f) = t
    <3>1. [u EXCEPT !.locked = ComprLocked(u.v), !.v.threads = u.v.block /\ @] = s
      BY <2>1, <2>2, <2>4 DEF States
    <3> QED
      BY <1>0, <1>4, <2>8, <3>1 DEF ComprEvent
  <2>11. \A g \in {"keep", "block", "algo"} : w[g] = u.v[g]
    BY <1>0, <2>3, ComprFields
  <2>12. ComprShown(c, u.v) = ComprShown(c, w) /\ ComprLocked(u.v) = ComprLocked(w)
    BY <2>11 DEF ComprShown, ComprLocked
  <2>13. ~w.block => ~w.threads
    BY <1>1, <2>1, <2>3, <2>11
  <2>14. t \in Coherent(c)
    BY <1>0, <2>6, <2>9, <2>12, <2>13 DEF Displays, Coherent, Agree
  <2>15. w.threads = IF ~u.v.keep /\ ~u.v.block THEN FALSE ELSE u.v.threads
    BY <1>1, <1>4, <2>1, <2>3
  <2> QED
    BY <1>4, <2>3, <2>6, <2>9, <2>10, <2>14, <2>15 DEF Displays
<1> QED
  BY <1>2, <1>3, <1>4

LEMMA ComprAssign ==
    ASSUME NEW c \in {"compr", "recompr"}, NEW s \in States(c), NEW p \in Pairs(c)
    PROVE  LET t == Assign(c, s, p) IN
           /\ t \in States(c) /\ t.mute = s.mute
           /\ s.mute => t.v = [s.v EXCEPT ![p[1]] = p[2]]
           /\ /\ ~s.mute /\ s \in Coherent(c)
              /\ p[1] = "threads" => s.v.keep \/ s.v.block \/ p[2] = FALSE
              => t \in Coherent(c)
<1>1. PICK u \in States(c) :
              /\ u = [s EXCEPT !.v[p[1]] = p[2]]
              /\ p[1] \in Fields(c) /\ p[2] \in Entries(p[1])
              /\ u.v[p[1]] = p[2] /\ \A g \in Fields(c) \ {p[1]} : u.v[g] = s.v[g]
              /\ u.shown = s.shown /\ u.locked = s.locked /\ u.mute = s.mute
              /\ u.skip = s.skip /\ u.told = s.told
              /\ Assign(c, s, p) = IF s.v[p[1]] # p[2] /\ p[1] \in WatchedBy(c)
                                     THEN OnEvent(c, u, p[1]) ELSE u
              /\ s.v[p[1]] = p[2] => u = s
  BY AssignIs
<1>2. PICK t : t = Assign(c, s, p)
  OBVIOUS
<1> SUFFICES /\ t \in States(c) /\ t.mute = s.mute
             /\ s.mute => t.v = [s.v EXCEPT ![p[1]] = p[2]]
             /\ /\ ~s.mute /\ s \in Coherent(c)
                /\ p[1] = "threads" => s.v.keep \/ s.v.block \/ p[2] = FALSE
                => t \in Coherent(c)
  BY <1>2
<1>3. u.v = [s.v EXCEPT ![p[1]] = p[2]]
  BY <1>1 DEF States
<1>4. CASE s.v[p[1]] = p[2]
  BY <1>1, <1>2, <1>3, <1>4
<1>5. CASE s.v[p[1]] # p[2] /\ p[1] \in ComprWatches
  <2>1. t = OnEvent(c, u, p[1])
    BY <1>1, <1>2, <1>5 DEF WatchedBy
  <2>2. /\ u.mute => OnEvent(c, u, p[1]) = u
        /\ ~u.mute => OnEvent(c, u, p[1]) \in Coherent(c) /\ OnEvent(c, u, p[1]).mute = u.mute
    <3>1. CASE c = "compr"
      BY <3>1, ComprEvents, ZenonT(60)
    <3>2. CASE c = "recompr"
      BY <3>2, ComprEvents, ZenonT(60)
    <3> QED
      BY <3>1, <3>2
  <2>3. t \in Coherent(c) => t \in States(c)
    BY DEF Coherent
  <2>4. u.mute \in BOOLEAN
    BY StateIs
  <2>5. CASE u.mute
    <3>1. t = u
      BY <2>1, <2>2, <2>5
    <3> QED
      BY <1>1, <1>3, <2>5, <3>1
  <2>6. CASE ~u.mute
    <3>1. t \in Coherent(c) /\ t.mute = u.mute
      BY <2>1, <2>2, <2>6
    <3> QED
      BY <1>1, <2>3, <2>6, <3>1
  <2> QED
    BY <2>5, <2>6
<1>6. CASE s.v[p[1]] # p[2] /\ p[1] \notin ComprWatches
  <2>1. t = u
    BY <1>1, <1>2, <1>6 DEF WatchedBy
  <2>2. \A v : Shown(c, v) = ComprShown(c, v) /\ Locked(c, v) = ComprLocked(v)
    BY DEF Shown, Locked
  <2>3. Fields(c) = DOMAIN ComprStart
    BY StartIs DEF Fields
  <2>4. \A g \in {"keep", "block", "algo"} : s.v[g] = u.v[g]
    BY <1>1, <1>6, <2>3, ComprFields DEF ComprWatches
  <2>5. ComprShown(c, s.v) = ComprShown(c, u.v) /\ ComprLocked(s.v) = ComprLocked(u.v)
    BY <2>4 DEF ComprShown, ComprLocked
  <2>6. ASSUME s \in Coherent(c), p[1] = "threads" => s.v.keep \/ s.v.block \/ p[2] = FALSE
        PROVE  u \in Coherent(c)
    <3>1. Agree(c, u.v)
      <4>1. "threads" \in Fields(c)
        BY <2>3, ComprFields
      <4>2. CASE p[1] = "threads"
        BY <1>1, <2>4, <2>6, <4>2 DEF Agree
      <4>3. CASE p[1] # "threads"
        BY <1>1, <2>4, <2>6, <4>1, <4>3 DEF Agree, Coherent
      <4> QED
        BY <4>2, <4>3
    <3>2. s.shown = ComprShown(c, s.v) /\ s.locked \cap s.shown = ComprLocked(s.v) \cap s.shown
      BY <2>2, <2>6 DEF Coherent
    <3>3. /\ u.shown = Shown(c, u.v)
          /\ u.locked \cap u.shown = Locked(c, u.v) \cap u.shown
      BY <1>1, <2>2, <2>5, <3>2
    <3> QED
      BY <1>1, <3>1, <3>3 DEF Coherent
  <2> QED
    BY <1>1, <1>2, <1>3, <2>1, <2>6, ZenonT(60)
<1> QED
  BY <1>2, <1>4, <1>5, <1>6

-----------------------------------------------------------------------------
(* A form of encryption displays the fields that its values ask for; when it *)
(* displays the high minimum, its count of iterations is not too low.        *)
IsCiphering(s) == s.shown \ {"high minimum"} = CipheringShown(s.v)

EnoughShown(s) ==
    "high minimum" \in s.shown => s.v.iterations >= FewestIterations(s.v.kdf)

LEMMA CipheringEvents ==
    ASSUME NEW u \in States("ciphering"), NEW f \in Fields("ciphering")
    PROVE  LET t == OnEvent("ciphering", u, f) IN
           /\ t \in States("ciphering") /\ t.mute = u.mute
           /\ u.mute => t = u
           /\ f # "kdf" => t.v = u.v
           /\ \A g \in Fields("ciphering") \ {"iterations"} : t.v[g] = u.v[g]
           /\ ~u.mute =>
                 /\ t.told
                 /\ f \in {"cipher", "type"} => IsCiphering(t)
                 /\ IsCiphering(u) => IsCiphering(t)
                 /\ EnoughShown(u) \/ f = "kdf" => EnoughShown(t)
<1>0. OnEvent("ciphering", u, f) = CipheringEvent(u, f) /\ u.shown \in SUBSET Labels("ciphering")
  BY StateIs DEF OnEvent
<1>1. /\ Fields("ciphering") = DOMAIN CipheringStart /\ u.v \in Values("ciphering")
      /\ "iterations" \in Fields("ciphering") /\ Entries("iterations") = 1..4
      /\ u.v.iterations \in 1..4
  <2>1. Fields("ciphering") = DOMAIN CipheringStart /\ u.v \in Values("ciphering")
    BY StartIs, StateIs DEF Fields
  <2> QED
    BY <2>1, CipheringFields DEF Values
<1>2. CASE u.mute
  BY <1>0, <1>2 DEF CipheringEvent
<1>3. CASE ~u.mute /\ f \in {"cipher", "type"}
  <2>1. PICK shown : shown = CipheringShown(u.v) \cup (u.shown \cap {"high minimum"})
    OBVIOUS
  <2>2. /\ shown \in SUBSET Labels("ciphering")
        /\ shown \ {"high minimum"} = CipheringShown(u.v)
        /\ "high minimum" \in shown <=> "high minimum" \in u.shown
    <3>1. CipheringShown(u.v) \subseteq {"cipher", "type", "size", "threads", "pass1", "pass2",
                                         "kdf", "iterations", "gnupg"}
      BY DEF CipheringShown
    <3> QED
      BY <1>1, <2>1, <3>1, CipheringFields DEF Labels
  <2>3. PICK t : t = Refresh(u, shown)
    OBVIOUS
  <2>4. OnEvent("ciphering", u, f) = t
    BY <1>0, <1>3, <2>1, <2>3 DEF CipheringEvent, Refresh
  <2>5. Displays("ciphering", u, t, shown)
    BY <2>2, <2>3, TellDisplays
  <2> QED
    BY <1>3, <2>2, <2>4, <2>5 DEF Displays, IsCiphering, EnoughShown
<1>4. CASE ~u.mute /\ f = "kdf"
  <2>1. PICK x \in 1..4 : x = EnoughIterations(u.v) /\ x >= FewestIterations(u.v.kdf)
    BY <1>1 DEF EnoughIterations, FewestIterations
  <2>2. PICK w : w = [u.v EXCEPT !.iterations = x]
    OBVIOUS
  <2>3. /\ w \in Values("ciphering") /\ w.iterations = x
        /\ \A g \in Fields("ciphering") \ {"iterations"} : w[g] = u.v[g]
    BY <1>1, <2>1, <2>2, HeldIs DEF Values
  <2>4. PICK shown : shown = (u.shown \ {"high minimum"}) \cup CipheringBound(u.v.kdf)
    OBVIOUS
  <2>5. shown \in SUBSET Labels("ciphering") /\ shown \ {"high minimum"} = u.shown \ {"high minimum"}
    BY <1>0, <2>4 DEF CipheringBound, Labels
  <2>6. PICK s : s = [u EXCEPT !.v = w, !.shown = shown]
    OBVIOUS
  <2>7. s \in States("ciphering") /\ s.v = w /\ s.shown = shown /\ s.mute = u.mute
    BY <2>3, <2>5, <2>6 DEF States
  <2>8. PICK t : t = Tell(s)
    OBVIOUS
  <2>9. OnEvent("ciphering", u, f) = t
    <3>1. s = [u EXCEPT !.v.iterations = EnoughIterations(u.v),
                        !.shown = (@ \ {"high minimum"}) \cup CipheringBound(u.v.kdf)]
      BY <2>1, <2>2, <2>4, <2>6 DEF States
    <3> QED
      BY <1>0, <1>4, <2>8, <3>1 DEF CipheringEvent
  <2>10. Displays("ciphering", s, t, shown)
    BY <2>7, <2>5, <2>8, TellDisplays
  <2>11. w.kdf = u.v.kdf /\ w.cipher = u.v.cipher /\ w.type = u.v.type
    BY <1>1, <2>3, CipheringFields
  <2>12. CipheringShown(w) = CipheringShown(u.v)
    BY <2>11 DEF CipheringShown, Symmetric, Asymmetric
  <2> QED
    BY <1>4, <2>1, <2>3, <2>5, <2>7, <2>9, <2>10, <2>11, <2>12 DEF Displays, IsCiphering, EnoughShown
<1>5. CASE ~u.mute /\ f \notin {"cipher", "type", "kdf"}
  <2>1. OnEvent("ciphering", u, f) = Tell(u)
    BY <1>0, <1>5 DEF CipheringEvent
  <2>2. PICK t : t = Tell(u)
    OBVIOUS
  <2>3. Displays("ciphering", u, t, u.shown)
    BY <1>0, <2>2, TellDisplays
  <2> QED
    BY <1>5, <2>1, <2>2, <2>3 DEF Displays, IsCiphering, EnoughShown
<1> QED
  BY <1>2, <1>3, <1>4, <1>5

LEMMA CipheringAssign ==
    ASSUME NEW s \in States("ciphering"), NEW p \in Pairs("ciphering")
    PROVE  LET t == Assign("ciphering", s, p) IN
           /\ t \in States("ciphering") /\ t.mute = s.mute
           /\ s.mute => t.v = [s.v EXCEPT ![p[1]] = p[2]]
           /\ p[1] # "kdf" => t.v = [s.v EXCEPT ![p[1]] = p[2]]
           /\ t.v[p[1]] = p[2]
           /\ \A g \in Fields("ciphering") \ {p[1], "iterations"} : t.v[g] = s.v[g]
           /\ ~s.mute =>
                 /\ IsCiphering(s) => IsCiphering(t)
                 /\ p[1] \in {"cipher", "type"} /\ s.v[p[1]] # p[2] => IsCiphering(t)
                 /\ EnoughShown(s)
                    /\ (p[1] = "iterations" /\ "high minimum" \in s.shown
                           => p[2] >= FewestIterations(s.v.kdf))
                    => EnoughShown(t)
<1>1. PICK u \in States("ciphering") :
              /\ u = [s EXCEPT !.v[p[1]] = p[2]]
              /\ p[1] \in Fields("ciphering") /\ p[2] \in Entries(p[1])
              /\ u.v[p[1]] = p[2] /\ \A g \in Fields("ciphering") \ {p[1]} : u.v[g] = s.v[g]
              /\ u.shown = s.shown /\ u.locked = s.locked /\ u.mute = s.mute
              /\ u.skip = s.skip /\ u.told = s.told
              /\ Assign("ciphering", s, p) = IF s.v[p[1]] # p[2] /\ p[1] \in WatchedBy("ciphering")
                                     THEN OnEvent("ciphering", u, p[1]) ELSE u
              /\ s.v[p[1]] = p[2] => u = s
  BY AssignIs
<1>2. PICK t : t = Assign("ciphering", s, p)
  OBVIOUS
<1>3. u.v = [s.v EXCEPT ![p[1]] = p[2]]
  BY <1>1 DEF States
<1>4. CASE s.v[p[1]] = p[2]
  BY <1>1, <1>2, <1>3, <1>4
<1>5. Fields("ciphering") = DOMAIN CipheringStart
  BY StartIs DEF Fields
<1>6. ASSUME p[1] \notin {"cipher", "type"} PROVE IsCiphering(s) => IsCiphering(u)
  <2>1. s.v.cipher = u.v.cipher /\ s.v.type = u.v.type
    BY <1>1, <1>5, <1>6, CipheringFields
  <2>2. CipheringShown(s.v) = CipheringShown(u.v)
    BY <2>1 DEF CipheringShown, Symmetric, Asymmetric
  <2> QED
    BY <1>1, <2>2 DEF IsCiphering
<1>7. ASSUME p[1] # "kdf", EnoughShown(s),
             p[1] = "iterations" /\ "high minimum" \in s.shown => p[2] >= FewestIterations(s.v.kdf)
      PROVE  EnoughShown(u)
  <2>1. s.v.kdf = u.v.kdf
    BY <1>1, <1>5, <1>7, CipheringFields
  <2>2. p[1] # "iterations" => s.v.iterations = u.v.iterations
    BY <1>1, <1>5, <1>7, CipheringFields
  <2> QED
    BY <1>1, <1>7, <2>1, <2>2 DEF EnoughShown
<1>8. CASE s.v[p[1]] # p[2] /\ p[1] = "threads"
  <2>1. t = u
    BY <1>1, <1>2, <1>8 DEF WatchedBy, CipheringWatches
  <2> QED
    BY <1>1, <1>2, <1>3, <1>6, <1>7, <1>8, <2>1, ZenonT(60)
<1>9. CASE s.v[p[1]] # p[2] /\ p[1] # "threads"
  <2>1. t = OnEvent("ciphering", u, p[1])
    BY <1>1, <1>2, <1>5, <1>9 DEF WatchedBy, CipheringWatches
  <2>2. /\ t \in States("ciphering") /\ t.mute = u.mute
        /\ u.mute => t = u
        /\ p[1] # "kdf" => t.v = u.v
        /\ \A g \in Fields("ciphering") \ {"iterations"} : t.v[g] = u.v[g]
        /\ ~u.mute =>
              /\ p[1] \in {"cipher", "type"} => IsCiphering(t)
              /\ IsCiphering(u) => IsCiphering(t)
              /\ EnoughShown(u) \/ p[1] = "kdf" => EnoughShown(t)
    <3>1. PICK f \in Fields("ciphering") : f = p[1]
      BY <1>1
    <3>2. PICK r : r = OnEvent("ciphering", u, f)
      OBVIOUS
    <3>3. /\ r \in States("ciphering") /\ r.mute = u.mute
          /\ u.mute => r = u
          /\ f # "kdf" => r.v = u.v
          /\ \A g \in Fields("ciphering") \ {"iterations"} : r.v[g] = u.v[g]
          /\ ~u.mute =>
                /\ f \in {"cipher", "type"} => IsCiphering(r)
                /\ IsCiphering(u) => IsCiphering(r)
                /\ EnoughShown(u) \/ f = "kdf" => EnoughShown(r)
      BY <3>2, CipheringEvents
    <3>4. r = t
      BY <2>1, <3>1, <3>2
    <3> QED
      BY <3>1, <3>3, <3>4
  <2>3. t.v[p[1]] = p[2]
    BY <1>1, <2>2
  <2>4. \A g \in Fields("ciphering") \ {p[1], "iterations"} : t.v[g] = s.v[g]
    BY <1>1, <2>2
  <2>5. ASSUME ~s.mute
        PROVE  /\ IsCiphering(s) => IsCiphering(t)
               /\ p[1] \in {"cipher", "type"} /\ s.v[p[1]] # p[2] => IsCiphering(t)
               /\ EnoughShown(s)
                    /\ (p[1] = "iterations" /\ "high minimum" \in s.shown
                           => p[2] >= FewestIterations(s.v.kdf))
                    => EnoughShown(t)
    BY <1>1, <1>6, <1>7, <2>2, <2>5
  <2>6. s.mute => t.v = u.v
    BY <1>1, <2>2
  <2> QED
    BY <1>1, <1>2, <1>3, <2>2, <2>3, <2>4, <2>5, <2>6
<1> QED
  BY <1>2, <1>4, <1>8, <1>9
-----------------------------------------------------------------------------
(* A set of numbers that holds 0 and what follows each of its members.      *)
LEMMA NatSets ==
    ASSUME NEW S \in SUBSET Nat, 0 \in S, \A n \in S : n + 1 \in S
    PROVE  S = Nat
<1> SUFFICES ASSUME Nat \ S # {} PROVE FALSE
  OBVIOUS
<1>0. PICK R : R = OpToRel(<, Nat)
  OBVIOUS
<1>1. \A x, y \in Nat : x < y => <<x, y>> \in R
  BY <1>0 DEF OpToRel
<1>2. IsWellFoundedOn(R, Nat)
  BY <1>0, NatLessThanWellFounded
<1>3. PICK T : T = Nat \ S
  OBVIOUS
<1>4. T \subseteq Nat /\ T # {}
  BY <1>3
<1>5. PICK m \in T : \A y \in T : ~ (<<y, m>> \in R)
  BY <1>2, <1>4, WFMin
<1>6. m # 0 /\ m - 1 \in Nat /\ m - 1 < m /\ m = (m - 1) + 1
  BY <1>3, <1>5
<1>7. m - 1 \in S
  BY <1>1, <1>3, <1>5, <1>6
<1> QED
  BY <1>3, <1>5, <1>6, <1>7

LEMMA MaxIs ==
    ASSUME NEW n \in Nat, NEW s \in SUBSET (1..n), n \in s
    PROVE  Max(s) = n
<1>1. \A y \in s : n >= y
  OBVIOUS
<1>2. \A x \in s : (\A y \in s : x >= y) => x = n
  OBVIOUS
<1> QED
  BY <1>1, <1>2 DEF Max

LEMMA MaxIn ==
    ASSUME NEW n \in Nat
    PROVE  \A s \in SUBSET (1..n) : s # {} => Max(s) \in s /\ Max(s) \in 1..n
<1>1. PICK S : S = {m \in Nat : \A s \in SUBSET (1..m) : s # {} => Max(s) \in s}
  OBVIOUS
<1>2. 0 \in S
  <2>1. \A s \in SUBSET (1..0) : s = {}
    OBVIOUS
  <2> QED
    BY <1>1, <2>1
<1>3. ASSUME NEW m \in S PROVE m + 1 \in S
  <2> SUFFICES ASSUME NEW s \in SUBSET (1..(m + 1)), s # {} PROVE Max(s) \in s
    BY <1>1, <1>3
  <2>0. m \in Nat
    BY <1>1
  <2>1. CASE m + 1 \in s
    BY <2>0, <2>1, MaxIs
  <2>2. CASE m + 1 \notin s
    BY <1>1, <2>0, <2>2
  <2> QED
    BY <2>1, <2>2
<1>4. n \in S
  BY <1>1, <1>2, <1>3, NatSets
<1> QED
  BY <1>1, <1>4

(* A fold over what is before n: the function that MapThenFoldSet makes.     *)
IsFold(it, T, base, H, n) ==
    /\ it \in [SUBSET (1..n) -> T]
    /\ \A s \in SUBSET (1..n) :
          it[s] = IF s = {} THEN base ELSE H[Max(s), it[s \ {Max(s)}]]

Folds(T, base, H, n) == \E it : IsFold(it, T, base, H, n)

LEMMA FoldNothing ==
    ASSUME NEW T, NEW base \in T, NEW H
    PROVE  Folds(T, base, H, 0)
<1>1. PICK it : it = [s \in SUBSET (1..0) |-> base]
  OBVIOUS
<1>2. \A s \in SUBSET (1..0) : s = {}
  OBVIOUS
<1>3. it \in [SUBSET (1..0) -> T]
  BY <1>1
<1>4. \A s \in SUBSET (1..0) : it[s] = base
  BY <1>1
<1> QED
  BY <1>2, <1>3, <1>4 DEF Folds, IsFold

LEMMA FoldOneMore ==
    ASSUME NEW m \in Nat, NEW n \in Nat, m + 1 <= n,
           NEW T, NEW base \in T, NEW H \in [(1..n) \X T -> T], Folds(T, base, H, m)
    PROVE  Folds(T, base, H, m + 1)
<1>1. PICK it : IsFold(it, T, base, H, m)
  BY DEF Folds
<1>2. PICK new : new = [s \in SUBSET (1..(m + 1)) |->
                          IF m + 1 \in s THEN H[m + 1, it[s \ {m + 1}]] ELSE it[s]]
  OBVIOUS
<1>3. \A s \in SUBSET (1..(m + 1)) : s \ {m + 1} \in SUBSET (1..m) /\ (m + 1 \notin s => s \in SUBSET (1..m))
  OBVIOUS
<1>4. \A s \in SUBSET (1..m) : it[s] \in T
  BY <1>1 DEF IsFold
<1>5. m + 1 \in 1..n
  OBVIOUS
<1>6. \A s \in SUBSET (1..(m + 1)) : new[s] \in T
  <2> SUFFICES ASSUME NEW s \in SUBSET (1..(m + 1)) PROVE new[s] \in T
    OBVIOUS
  <2>1. CASE m + 1 \in s
    <3>1. it[s \ {m + 1}] \in T
      BY <1>3, <1>4
    <3>2. <<m + 1, it[s \ {m + 1}]>> \in (1..n) \X T
      BY <3>1, <1>5
    <3>3. H[m + 1, it[s \ {m + 1}]] \in T
      BY <3>2
    <3> QED
      BY <1>2, <2>1, <3>3
  <2>2. CASE m + 1 \notin s
    BY <1>2, <1>3, <1>4, <2>2
  <2> QED
    BY <2>1, <2>2
<1>7. new \in [SUBSET (1..(m + 1)) -> T]
  BY <1>2, <1>6
<1>8. ASSUME NEW s \in SUBSET (1..(m + 1))
      PROVE  new[s] = IF s = {} THEN base ELSE H[Max(s), new[s \ {Max(s)}]]
  <3>1. CASE m + 1 \in s
    <4>1. Max(s) = m + 1
      BY <3>1, MaxIs
    <4>2. s \ {m + 1} \in SUBSET (1..(m + 1)) /\ m + 1 \notin s \ {m + 1}
      OBVIOUS
    <4>3. new[s \ {m + 1}] = it[s \ {m + 1}]
      BY <1>2, <4>2
    <4>4. new[s] = H[m + 1, it[s \ {m + 1}]]
      BY <1>2, <3>1
    <4> QED
      BY <3>1, <4>1, <4>3, <4>4
  <3>2. CASE m + 1 \notin s
    <4>1. s \in SUBSET (1..m) /\ new[s] = it[s]
      BY <1>2, <1>3, <3>2
    <4>2. CASE s = {}
      BY <1>1, <4>1, <4>2 DEF IsFold
    <4>3. CASE s # {}
      <5>2. s \ {Max(s)} \in SUBSET (1..(m + 1)) /\ m + 1 \notin s \ {Max(s)}
        BY <3>2
      <5>3. new[s \ {Max(s)}] = it[s \ {Max(s)}]
        BY <1>2, <5>2
      <5>4. it[s] = H[Max(s), it[s \ {Max(s)}]]
        BY <1>1, <4>1, <4>3 DEF IsFold
      <5> QED
        BY <4>1, <4>3, <5>3, <5>4
    <4> QED
      BY <4>2, <4>3
  <3> QED
    BY <3>1, <3>2
<1>9. IsFold(new, T, base, H, m + 1)
  BY <1>7, <1>8 DEF IsFold
<1> QED
  BY <1>9 DEF Folds

LEMMA FoldExists ==
    ASSUME NEW n \in Nat, NEW T, NEW base \in T, NEW H \in [(1..n) \X T -> T]
    PROVE  Folds(T, base, H, n)
<1>1. PICK S : S = {m \in Nat : m <= n => Folds(T, base, H, m)}
  OBVIOUS
<1>2. 0 \in S
  BY <1>1, FoldNothing
<1>3. ASSUME NEW m \in S PROVE m + 1 \in S
  <2>0. m \in Nat
    BY <1>1
  <2>1. CASE m + 1 <= n
    BY <1>1, <2>0, <2>1, FoldOneMore
  <2> QED
    BY <1>1, <2>0, <2>1
<1>4. n \in S
  BY <1>1, <1>2, <1>3, NatSets
<1> QED
  BY <1>1, <1>4

(* The first numbers, which a fold adds one by one.                         *)
LEMMA Segment ==
    ASSUME NEW n \in Nat, NEW k \in 1..n
    PROVE  /\ 1..k \in SUBSET (1..n) /\ 1..k # {} /\ Max(1..k) = k
           /\ (1..k) \ {k} = 1..(k - 1) /\ 1..(k - 1) \in SUBSET (1..n)
<1>1. k \in Nat /\ k \in 1..k /\ 1..k \in SUBSET (1..k)
  OBVIOUS
<1>2. PICK s \in SUBSET (1..k) : s = 1..k
  BY <1>1
<1>3. Max(s) = k
  BY <1>1, <1>2, MaxIs
<1>4. Max(1..k) = k
  BY <1>2, <1>3
<1>5. 1..k \in SUBSET (1..n) /\ 1..k # {}
  BY <1>1
<1>6. (1..k) \ {k} = 1..(k - 1)
  OBVIOUS
<1>7. 1..(k - 1) \in SUBSET (1..n)
  OBVIOUS
<1> QED
  BY <1>4, <1>5, <1>6, <1>7

(* What is so of base, and of each step, is so of the whole.                 *)
LEMMA UpTo ==
    ASSUME NEW n \in Nat, NEW P, 0 \in P, \A k \in 1..n : k - 1 \in P => k \in P
    PROVE  \A k \in 0..n : k \in P
<1>1. PICK S : S = {m \in Nat : m <= n => m \in P}
  OBVIOUS
<1>2. 0 \in S
  BY <1>1
<1>3. ASSUME NEW m \in S PROVE m + 1 \in S
  <2>1. m \in Nat /\ (m <= n => m \in P)
    BY <1>1
  <2>2. CASE m + 1 <= n
    <3>1. m + 1 \in 1..n /\ (m + 1) - 1 = m /\ m <= n
      BY <2>1, <2>2
    <3>2. m + 1 \in P
      BY <2>1, <3>1
    <3> QED
      BY <1>1, <2>1, <3>2
  <2> QED
    BY <1>1, <2>1, <2>2
<1>4. S = Nat
  BY <1>1, <1>2, <1>3, NatSets
<1> QED
  BY <1>1, <1>4


-----------------------------------------------------------------------------
LEMMA AssignTyped ==
    ASSUME NEW c \in ClassNames, NEW s \in States(c), NEW p \in Pairs(c)
    PROVE  Assign(c, s, p) \in States(c)
<1>1. CASE c \in Plain
  BY <1>1, PlainAssign
<1>2. CASE c \in {"compr", "recompr"}
  BY <1>2, ComprAssign
<1>3. CASE c = "create"
  BY <1>3, CreateAssign
<1>4. CASE c = "read"
  BY <1>4, ReadAssign
<1>5. CASE c = "ciphering"
  BY <1>5, CipheringAssign
<1>6. CASE c = "sig_block"
  BY <1>6, SigAssign
<1> QED
  BY <1>1, <1>2, <1>3, <1>4, <1>5, <1>6 DEF ClassNames, Plain

(* AssignAll assigns one by one: the states that a form goes through.        *)
LEMMA AssignRun ==
    ASSUME NEW c \in ClassNames, NEW pairs \in Seq(Pairs(c)), NEW s \in States(c)
    PROVE  \E r \in [0..Len(pairs) -> States(c)] :
              /\ r[0] = s /\ AssignAll(c, s, pairs) = r[Len(pairs)]
              /\ \A k \in 1..Len(pairs) : r[k] = Assign(c, r[k - 1], pairs[k])
<1>1. PICK n \in Nat : n = Len(pairs) /\ DOMAIN pairs = 1..n
  OBVIOUS
<1>2. \A k \in 1..n : pairs[k] \in Pairs(c)
  BY <1>1
<1>3. PICK T : T = States(c)
  OBVIOUS
<1>4. PICK H : H = [p \in (1..n) \X T |-> Assign(c, p[2], pairs[p[1]])]
  OBVIOUS
<1>5. H \in [(1..n) \X T -> T]
  <2>1. \A p \in (1..n) \X T : p[1] \in 1..n /\ p[2] \in T
    OBVIOUS
  <2>2. \A p \in (1..n) \X T : Assign(c, p[2], pairs[p[1]]) \in T
    BY <1>2, <1>3, <2>1, AssignTyped
  <2> QED
    BY <1>4, <2>2
<1>6. \A k \in 1..n, t \in T : H[k, t] = Assign(c, t, pairs[k])
  BY <1>4
<1>7. PICK it : IsFold(it, T, s, H, n)
  BY <1>3, <1>5, FoldExists DEF Folds
<1>8. it = [S \in SUBSET (1..n) |-> IF S = {} THEN s
                                   ELSE Assign(c, it[S \ {Max(S)}], pairs[Max(S)])]
  <2>1. \A S \in SUBSET (1..n) : S # {} =>
           Max(S) \in 1..n /\ S \ {Max(S)} \in SUBSET (1..n)
    BY MaxIn
  <2>2. \A S \in SUBSET (1..n) : S # {} => it[S] = Assign(c, it[S \ {Max(S)}], pairs[Max(S)])
    <3> SUFFICES ASSUME NEW S \in SUBSET (1..n), S # {}
                 PROVE  it[S] = Assign(c, it[S \ {Max(S)}], pairs[Max(S)])
      OBVIOUS
    <3>1. it[S] = H[Max(S), it[S \ {Max(S)}]]
      BY <1>7 DEF IsFold
    <3>2. Max(S) \in 1..n /\ it[S \ {Max(S)}] \in T
      BY <1>7, <2>1 DEF IsFold
    <3> QED
      BY <1>6, <3>1, <3>2
  <2>3. \A S \in SUBSET (1..n) : S = {} => it[S] = s
    BY <1>7 DEF IsFold
  <2>4. it = [S \in SUBSET (1..n) |-> it[S]]
    BY <1>7 DEF IsFold
  <2> QED
    BY <2>2, <2>3, <2>4
<1> DEFINE I == CHOOSE it1 : it1 = [S \in SUBSET DOMAIN pairs |-> IF S = {} THEN s
                               ELSE Assign(c, it1[S \ {Max(S)}], pairs[Max(S)])]
<1>9. I = [S \in SUBSET DOMAIN pairs |-> IF S = {} THEN s
                               ELSE Assign(c, I[S \ {Max(S)}], pairs[Max(S)])]
  BY <1>1, <1>8
<1>10. AssignAll(c, s, pairs) = I[DOMAIN pairs]
  BY DEF AssignAll, FoldLeft, MapThenFoldSet
<1> HIDE DEF I
<1>11. I[{}] = s
  <2>1. {} \in SUBSET DOMAIN pairs
    OBVIOUS
  <2> QED
    BY <1>9, <2>1
<1>12. ASSUME NEW k \in 1..n PROVE I[1..k] = Assign(c, I[1..(k - 1)], pairs[k])
  <2>1. /\ 1..k \in SUBSET DOMAIN pairs /\ 1..k # {} /\ Max(1..k) = k
        /\ (1..k) \ {k} = 1..(k - 1)
    BY <1>1, Segment
  <2>2. I[1..k] = Assign(c, I[(1..k) \ {Max(1..k)}], pairs[Max(1..k)])
    BY <1>9, <2>1
  <2> QED
    BY <2>1, <2>2
<1>13. \A k \in 0..n : I[1..k] \in T
  <2>1. PICK P : P = {k \in 0..n : I[1..k] \in T}
    OBVIOUS
  <2>2. 0 \in P
    <3>1. 1..0 = {}
      OBVIOUS
    <3> QED
      BY <1>3, <1>11, <2>1, <3>1
  <2>3. \A k \in 1..n : k - 1 \in P => k \in P
    <3> SUFFICES ASSUME NEW k \in 1..n, k - 1 \in P PROVE k \in P
      OBVIOUS
    <3>1. Assign(c, I[1..(k - 1)], pairs[k]) \in T
      BY <1>2, <1>3, <2>1, AssignTyped
    <3> QED
      BY <1>12, <2>1, <3>1
  <2>4. \A k \in 0..n : k \in P
    BY <2>2, <2>3, UpTo
  <2> QED
    BY <2>1, <2>4
<1>14. PICK r : r = [k \in 0..n |-> I[1..k]]
  OBVIOUS
<1>15. r \in [0..n -> States(c)]
  BY <1>3, <1>13, <1>14
<1>16. r[0] = s /\ r[n] = I[DOMAIN pairs]
  <2>1. 1..0 = {} /\ 0 \in 0..n /\ n \in 0..n
    OBVIOUS
  <2> QED
    BY <1>1, <1>11, <1>14, <2>1
<1>17. \A k \in 1..n : r[k] = Assign(c, r[k - 1], pairs[k])
  <2>1. \A k \in 1..n : k \in 0..n /\ k - 1 \in 0..n
    OBVIOUS
  <2> QED
    BY <1>12, <1>14, <2>1
<1> QED
  BY <1>1, <1>10, <1>15, <1>16, <1>17

(* What each assignment keeps, all of them keep.                             *)
LEMMA AssignAllKeeps ==
    ASSUME NEW c \in ClassNames, NEW pairs \in Seq(Pairs(c)), NEW S \in SUBSET States(c),
           NEW s \in S, \A t \in S, k \in 1..Len(pairs) : Assign(c, t, pairs[k]) \in S
    PROVE  AssignAll(c, s, pairs) \in S
<1>1. PICK r \in [0..Len(pairs) -> States(c)] :
              /\ r[0] = s /\ AssignAll(c, s, pairs) = r[Len(pairs)]
              /\ \A k \in 1..Len(pairs) : r[k] = Assign(c, r[k - 1], pairs[k])
  BY AssignRun
<1>2. PICK n \in Nat : n = Len(pairs)
  OBVIOUS
<1>3. PICK P : P = {k \in 0..n : r[k] \in S}
  OBVIOUS
<1>4. 0 \in P
  BY <1>1, <1>2, <1>3
<1>5. \A k \in 1..n : k - 1 \in P => k \in P
  BY <1>1, <1>2, <1>3
<1>6. \A k \in 0..n : k \in P
  BY <1>4, <1>5, UpTo
<1>7. n \in P
  BY <1>6
<1> QED
  BY <1>1, <1>2, <1>3, <1>7

LEMMA AssignAllTyped ==
    ASSUME NEW c \in ClassNames, NEW pairs \in Seq(Pairs(c)), NEW s \in States(c)
    PROVE  AssignAll(c, s, pairs) \in States(c)
<1>1. \A t \in States(c), k \in 1..Len(pairs) : Assign(c, t, pairs[k]) \in States(c)
  BY AssignTyped
<1> QED
  BY <1>1, AssignAllKeeps

(* The last value assigned to a field stays, and what is not assigned; X are *)
(* the fields that the form revises by itself.                               *)
Sets(c, t, u, p, X) ==
    /\ \A g \in Fields(c) \ (X \cup {p[1]}) : u.v[g] = t.v[g]
    /\ p[1] \notin X => u.v[p[1]] = p[2]

AllSet(c, s, u, pairs, k, X) ==
    /\ \A g \in Fields(c) \ X : (\A j \in 1..k : pairs[j][1] # g) => u.v[g] = s.v[g]
    /\ \A j \in 1..k : pairs[j][1] \notin X /\ (\A i \in 1..k : i > j => pairs[i][1] # pairs[j][1])
                          => u.v[pairs[j][1]] = pairs[j][2]

LEMMA SetOneMore ==
    ASSUME NEW c, NEW pairs \in Seq(Pairs(c)), NEW k \in 1..Len(pairs), NEW X,
           NEW s, NEW t, NEW u, AllSet(c, s, t, pairs, k - 1, X), Sets(c, t, u, pairs[k], X)
    PROVE  AllSet(c, s, u, pairs, k, X)
<1>0. \A j \in 1..k : pairs[j][1] \in Fields(c)
  <2>1. \A j \in 1..k : pairs[j] \in Pairs(c)
    OBVIOUS
  <2> QED
    BY <2>1 DEF Pairs
<1>1. ASSUME NEW g \in Fields(c) \ X, \A j \in 1..k : pairs[j][1] # g
      PROVE  u.v[g] = s.v[g]
  <2>1. g # pairs[k][1] /\ \A j \in 1..(k - 1) : pairs[j][1] # g
    BY <1>1
  <2>2. u.v[g] = t.v[g] /\ t.v[g] = s.v[g]
    BY <2>1 DEF Sets, AllSet
  <2> QED
    BY <2>2
<1>2. ASSUME NEW j \in 1..k, pairs[j][1] \notin X,
             \A i \in 1..k : i > j => pairs[i][1] # pairs[j][1]
      PROVE  u.v[pairs[j][1]] = pairs[j][2]
  <2>1. CASE j = k
    BY <1>2, <2>1 DEF Sets
  <2>2. CASE j # k
    <3>1. j \in 1..(k - 1) /\ k > j /\ \A i \in 1..(k - 1) : i > j => pairs[i][1] # pairs[j][1]
      BY <1>2, <2>2
    <3>2. t.v[pairs[j][1]] = pairs[j][2]
      BY <1>2, <3>1 DEF AllSet
    <3>3. pairs[k][1] # pairs[j][1]
      BY <1>2, <3>1
    <3> QED
      BY <1>0, <1>2, <3>2, <3>3 DEF Sets
  <2> QED
    BY <2>1, <2>2
<1> QED
  BY <1>1, <1>2 DEF AllSet

LEMMA AssignAllSets ==
    ASSUME NEW c \in ClassNames, NEW pairs \in Seq(Pairs(c)), NEW S \in SUBSET States(c),
           NEW s \in S, NEW X,
           \A t \in S, k \in 1..Len(pairs) :
              Assign(c, t, pairs[k]) \in S /\ Sets(c, t, Assign(c, t, pairs[k]), pairs[k], X)
    PROVE  /\ AssignAll(c, s, pairs) \in S
           /\ AllSet(c, s, AssignAll(c, s, pairs), pairs, Len(pairs), X)
<1>1. PICK r \in [0..Len(pairs) -> States(c)] :
              /\ r[0] = s /\ AssignAll(c, s, pairs) = r[Len(pairs)]
              /\ \A k \in 1..Len(pairs) : r[k] = Assign(c, r[k - 1], pairs[k])
  BY AssignRun
<1>2. PICK n \in Nat : n = Len(pairs)
  OBVIOUS
<1>3. PICK P : P = {k \in 0..n : r[k] \in S /\ AllSet(c, s, r[k], pairs, k, X)}
  OBVIOUS
<1>4. 0 \in P
  <2>1. AllSet(c, s, s, pairs, 0, X)
    BY DEF AllSet
  <2> QED
    BY <1>1, <1>2, <1>3, <2>1
<1>5. \A k \in 1..n : k - 1 \in P => k \in P
  <2> SUFFICES ASSUME NEW k \in 1..n, k - 1 \in P PROVE k \in P
    OBVIOUS
  <2>1. r[k - 1] \in S /\ AllSet(c, s, r[k - 1], pairs, k - 1, X)
    BY <1>3
  <2>2. r[k] \in S /\ Sets(c, r[k - 1], r[k], pairs[k], X)
    BY <1>1, <1>2, <2>1
  <2>3. k \in 1..Len(pairs)
    BY <1>2
  <2>4. AllSet(c, s, r[k], pairs, k, X)
    BY <2>1, <2>2, <2>3, SetOneMore
  <2> QED
    BY <1>3, <2>2, <2>4
<1>6. \A k \in 0..n : k \in P
  BY <1>4, <1>5, UpTo
<1>7. n \in P
  BY <1>6
<1> QED
  BY <1>1, <1>2, <1>3, <1>7
-----------------------------------------------------------------------------
(* What an operation assigns is a value that the field may hold.             *)
LEMMA PairIs ==
    ASSUME NEW c, NEW f \in Fields(c), NEW x \in Entries(f)
    PROVE  <<f, x>> \in Pairs(c)
BY HeldIs DEF Pairs

LEMMA Both ==
    ASSUME NEW T, NEW p \in Seq(T), NEW q \in Seq(T)
    PROVE  p \o q \in Seq(T)
BY ConcatProperties

(* What is assigned to each of some fields in turn, and what is read of them *)
(* in a file that holds them.                                                *)
LEMMA InTurn ==
    ASSUME NEW c, NEW labels \in Seq(Fields(c)), NEW w,
           \A i \in 1..Len(labels) : w[labels[i]] \in Entries(labels[i])
    PROVE  [i \in 1..Len(labels) |-> <<labels[i], w[labels[i]]>>] \in Seq(Pairs(c))
<1>1. \A i \in 1..Len(labels) : labels[i] \in Fields(c)
  OBVIOUS
<1>2. \A i \in 1..Len(labels) : <<labels[i], w[labels[i]]>> \in Pairs(c)
  BY <1>1, PairIs
<1>3. Len(labels) \in Nat
  OBVIOUS
<1> QED
  BY <1>2, <1>3


(* What a form has saved: its labels, with values that their fields may hold *)
IsSaved(c, k) ==
    /\ DOMAIN k = Saved(c, k)
    /\ \A f \in DOMAIN k : f \in Fields(c) /\ k[f] \in Entries(f)

LEMMA FromTyped ==
    ASSUME NEW c, NEW k, IsSaved(c, k), NEW labels \in Seq(DOMAIN k)
    PROVE  From(k, labels) \in Seq(Pairs(c))
<1>1. \A i \in 1..Len(labels) : labels[i] \in DOMAIN k
  OBVIOUS
<1>2. From(k, labels) = [i \in 1..Len(labels) |-> <<labels[i], k[labels[i]]>>]
  BY <1>1 DEF From
<1>3. DOMAIN k \subseteq Fields(c)
  BY DEF IsSaved
<1>4. labels \in Seq(Fields(c))
  BY <1>3
<1>5. \A i \in 1..Len(labels) : k[labels[i]] \in Entries(labels[i])
  BY <1>1 DEF IsSaved
<1> QED
  BY <1>2, <1>4, <1>5, InTurn

LEMMA TestSets ==
    TestClear \in Seq(Pairs("test")) /\ TestDefaults \in Seq(Pairs("test"))
<1>1. PICK P : P = Pairs("test")
  OBVIOUS
<1>2. Fields("test") = DOMAIN TestStart
  BY StartIs DEF Fields
<1>3. /\ <<"plain", FALSE>> \in P
      /\ <<"treated", TRUE>> \in P
      /\ <<"only_dir", FALSE>> \in P
      /\ <<"masks", "none">> \in P
  BY <1>1, <1>2, PairIs, TestFields
<1> QED
  BY <1>1, <1>3 DEF TestClear, TestDefaults

LEMMA CompareSets ==
    CompareClear \in Seq(Pairs("compare")) /\ CompareDefaults \in Seq(Pairs("compare"))
<1>1. PICK P : P = Pairs("compare")
  OBVIOUS
<1>2. Fields("compare") = DOMAIN CompareStart
  BY StartIs DEF Fields
<1>3. /\ <<"choice", FALSE>> \in P
      /\ <<"plain", FALSE>> \in P
      /\ <<"treated", TRUE>> \in P
      /\ <<"only_dir", FALSE>> \in P
      /\ <<"masks", "none">> \in P
  BY <1>1, <1>2, PairIs, CompareFields
<1> QED
  BY <1>1, <1>3 DEF CompareClear, CompareDefaults

LEMMA RepairSets ==
    RepairClear \in Seq(Pairs("repair")) /\ RepairDefaults \in Seq(Pairs("repair"))
<1>1. PICK P : P = Pairs("repair")
  OBVIOUS
<1>2. Fields("repair") = DOMAIN RepairStart
  BY StartIs DEF Fields
<1>3. /\ <<"entrep", "none">> \in P
      /\ <<"plain", FALSE>> \in P
      /\ <<"treated", FALSE>> \in P
      /\ <<"only_dir", FALSE>> \in P
      /\ <<"pause", FALSE>> \in P
      /\ <<"choice", FALSE>> \in P
      /\ <<"params", "none">> \in P
      /\ <<"entrep", "lib">> \in P
      /\ <<"plain", TRUE>> \in P
      /\ <<"treated", TRUE>> \in P
      /\ <<"choice", TRUE>> \in P
      /\ <<"params", "lib">> \in P
  BY <1>1, <1>2, PairIs, RepairFields
<1> QED
  BY <1>1, <1>3 DEF RepairClear, RepairDefaults

LEMMA SlicingSets ==
    SlicingClear \in Seq(Pairs("slicing"))
<1>1. PICK P : P = Pairs("slicing")
  OBVIOUS
<1>2. Fields("slicing") = DOMAIN SlicingStart
  BY StartIs DEF Fields
<1>3. /\ <<"slicing", FALSE>> \in P
      /\ <<"size", FALSE>> \in P
      /\ <<"diff_first", FALSE>> \in P
      /\ <<"first_size", FALSE>> \in P
      /\ <<"plain", FALSE>> \in P
  BY <1>1, <1>2, PairIs, SlicingFields
<1> QED
  BY <1>1, <1>3 DEF SlicingClear

LEMMA CipheringSets ==
    CipheringClear \in Seq(Pairs("ciphering")) /\ CipheringDefaults \in Seq(Pairs("ciphering"))
<1>1. PICK P : P = Pairs("ciphering")
  OBVIOUS
<1>2. Fields("ciphering") = DOMAIN CipheringStart
  BY StartIs DEF Fields
<1>3. /\ <<"type", "sym">> \in P
      /\ <<"cipher", "none">> \in P
      /\ <<"pass1", FALSE>> \in P
      /\ <<"pass2", FALSE>> \in P
      /\ <<"size", FALSE>> \in P
      /\ <<"threads", FALSE>> \in P
      /\ <<"gnupg", FALSE>> \in P
      /\ <<"kdf", "argon2">> \in P
      /\ <<"cipher", "aes">> \in P
  BY <1>1, <1>2, PairIs, CipheringFields
<1>4. 2 \in 1..4 /\ 3 \in 1..4
  OBVIOUS
<1>5. /\ <<"iterations", 2>> \in P
      /\ <<"iterations", 3>> \in P
  BY <1>1, <1>2, <1>4, PairIs, CipheringFields
<1> QED
  BY <1>1, <1>3, <1>5 DEF CipheringClear, CipheringDefaults

LEMMA ComprSets ==
    ComprClear \in Seq(Pairs("compr")) /\ ComprDefaults \in Seq(Pairs("compr"))
<1>1. PICK P : P = Pairs("compr")
  OBVIOUS
<1>2. Fields("compr") = DOMAIN ComprStart
  BY StartIs DEF Fields
<1>3. /\ <<"algo", "zip">> \in P
      /\ <<"level", FALSE>> \in P
      /\ <<"block", TRUE>> \in P
      /\ <<"resave", FALSE>> \in P
      /\ <<"threads", TRUE>> \in P
      /\ <<"keep", FALSE>> \in P
      /\ <<"level", TRUE>> \in P
  BY <1>1, <1>2, PairIs, ComprFields
<1> QED
  BY <1>1, <1>3 DEF ComprClear, ComprDefaults

LEMMA RecomprSets ==
    ComprClear \in Seq(Pairs("recompr")) /\ ComprDefaults \in Seq(Pairs("recompr"))
<1>1. PICK P : P = Pairs("recompr")
  OBVIOUS
<1>2. Fields("recompr") = DOMAIN ComprStart
  BY StartIs DEF Fields
<1>3. /\ <<"algo", "zip">> \in P
      /\ <<"level", FALSE>> \in P
      /\ <<"block", TRUE>> \in P
      /\ <<"resave", FALSE>> \in P
      /\ <<"threads", TRUE>> \in P
      /\ <<"keep", FALSE>> \in P
      /\ <<"level", TRUE>> \in P
  BY <1>1, <1>2, PairIs, ComprFields
<1> QED
  BY <1>1, <1>3 DEF ComprClear, ComprDefaults

LEMMA SigBlockSets ==
    SigClear \in Seq(Pairs("sig_block"))
<1>1. PICK P : P = Pairs("sig_block")
  OBVIOUS
<1>2. Fields("sig_block") = DOMAIN SigStart
  BY StartIs DEF Fields
<1>3. /\ <<"plain", FALSE>> \in P
      /\ <<"function", "root3">> \in P
      /\ <<"reversed", FALSE>> \in P
  BY <1>1, <1>2, PairIs, SigFields
<1> QED
  BY <1>1, <1>3 DEF SigClear

LEMMA ExtractSets ==
    ExtractClear \in Seq(Pairs("extract")) /\ ExtractDefaults \in Seq(Pairs("extract"))
<1>1. PICK P : P = Pairs("extract")
  OBVIOUS
<1>2. Fields("extract") = DOMAIN ExtractStart /\ ExtractStart \in Values("extract")
  BY StartIs, StartTyped DEF Fields, ClassNames
<1>3. /\ <<"empty_dir", TRUE>> \in P
      /\ <<"choice", TRUE>> \in P
      /\ <<"plain", TRUE>> \in P
      /\ <<"treated", TRUE>> \in P
      /\ <<"only_dir", FALSE>> \in P
      /\ <<"policy", "lib">> \in P
  BY <1>1, <1>2, PairIs, ExtractFields
<1>4. ExtractDefaults \in Seq(P)
  BY <1>3 DEF ExtractDefaults
<1>5. PICK labels : labels =
          <<"plain", "choice", "empty_dir", "treated", "only_dir",
            "policy", "masks", "fsa">>
  OBVIOUS
<1>6. labels \in Seq(Fields("extract"))
  BY <1>2, <1>5, ExtractFields
<1>7. \A i \in 1..Len(labels) : ExtractStart[labels[i]] \in Entries(labels[i])
  <2>1. \A i \in 1..Len(labels) : labels[i] \in Fields("extract")
    BY <1>6
  <2> QED
    BY <1>2, <2>1 DEF Values
<1>8. ExtractClear = [i \in 1..Len(labels) |-> <<labels[i], ExtractStart[labels[i]]>>]
  BY <1>5 DEF ExtractClear, ExtractLabels
<1> QED
  BY <1>1, <1>4, <1>6, <1>7, <1>8, InTurn

LEMMA MergeSets ==
    MergeClear \in Seq(Pairs("merge")) /\ MergeDefaults \in Seq(Pairs("merge"))
<1>1. PICK P : P = Pairs("merge")
  OBVIOUS
<1>2. Fields("merge") = DOMAIN MergeStart /\ MergeStart \in Values("merge")
  BY StartIs, StartTyped DEF Fields, ClassNames
<1>3. /\ <<"entrep", "lib">> \in P
      /\ <<"plain", TRUE>> \in P
      /\ <<"choice", TRUE>> \in P
      /\ <<"delta", "transfer">> \in P
      /\ <<"treated", TRUE>> \in P
      /\ <<"only_dir", FALSE>> \in P
      /\ <<"policy", "lib">> \in P
      /\ <<"recompr", "none">> \in P
      /\ <<"recompr", "keep">> \in P
      /\ <<"params", "lib">> \in P
  BY <1>1, <1>2, PairIs, MergeFields, ZenonT(60)
<1>4. MergeDefaults \in Seq(P)
  BY <1>3 DEF MergeDefaults
<1>5. PICK labels : labels =
          <<"entrep", "plain", "pause", "choice", "has_aux", "decremental",
            "auxiliary", "delta", "sig_block", "delta_mask", "treated",
            "only_dir", "masks", "policy", "recompr", "compr_mask", "params">>
  OBVIOUS
<1>6. labels \in Seq(Fields("merge"))
  BY <1>2, <1>5, MergeFields
<1>7. \A i \in 1..Len(labels) : MergeStart[labels[i]] \in Entries(labels[i])
  <2>1. \A i \in 1..Len(labels) : labels[i] \in Fields("merge")
    BY <1>6
  <2> QED
    BY <1>2, <2>1 DEF Values
<1>8. MergeClear = [i \in 1..Len(labels) |-> <<labels[i], MergeStart[labels[i]]>>]
  BY <1>5 DEF MergeClear
<1> QED
  BY <1>1, <1>4, <1>6, <1>7, <1>8, InTurn

LEMMA IsolateSets ==
    /\ IsolateClear \in Seq(Pairs("isolate")) /\ IsolateDefaults \in Seq(Pairs("isolate"))
    /\ NoSignature \in Seq(Pairs("isolate"))
<1>1. PICK P : P = Pairs("isolate")
  OBVIOUS
<1>2. Fields("isolate") = DOMAIN IsolateStart
  BY StartIs DEF Fields
<1>3. /\ <<"delta_sig", FALSE>> \in P
      /\ <<"transfer", FALSE>> \in P
      /\ <<"entrep", "none">> \in P
      /\ <<"plain", FALSE>> \in P
      /\ <<"pause", FALSE>> \in P
      /\ <<"choice", FALSE>> \in P
      /\ <<"compr", "none">> \in P
      /\ <<"params", "none">> \in P
      /\ <<"delta_sig", TRUE>> \in P
      /\ <<"entrep", "lib">> \in P
      /\ <<"plain", TRUE>> \in P
      /\ <<"choice", TRUE>> \in P
      /\ <<"compr", "lib">> \in P
      /\ <<"params", "lib">> \in P
      /\ <<"sig_block", "none">> \in P
      /\ <<"delta_mask", "none">> \in P
  BY <1>1, <1>2, PairIs, IsolateFields
<1>4. NoSignature \in Seq(P) /\ IsolateDefaults \in Seq(P)
  BY <1>3 DEF NoSignature, IsolateDefaults
<1>5. <<<<"delta_sig", FALSE>>, <<"transfer", FALSE>>>> \in Seq(P)
  BY <1>3
<1>6. <<<<"entrep", "none">>, <<"plain", FALSE>>, <<"pause", FALSE>>,
        <<"choice", FALSE>>, <<"compr", "none">>, <<"params", "none">>>> \in Seq(P)
  BY <1>3
<1>7. <<<<"delta_sig", FALSE>>, <<"transfer", FALSE>>>> \o NoSignature \in Seq(P)
  BY <1>4, <1>5, Both
<1>8. IsolateClear \in Seq(P)
  BY <1>6, <1>7, Both DEF IsolateClear
<1> QED
  BY <1>1, <1>4, <1>8

LEMMA ReadSets ==
    /\ ReadClear \in Seq(Pairs("read")) /\ ReadDefaults \in Seq(Pairs("read"))
    /\ NoCatalogue \in Seq(Pairs("read"))
<1>1. PICK P : P = Pairs("read")
  OBVIOUS
<1>2. Fields("read") = DOMAIN ReadStart
  BY StartIs DEF Fields
<1>3. /\ <<"entrep", "none">> \in P
      /\ <<"plain", FALSE>> \in P
      /\ <<"digits", FALSE>> \in P
      /\ <<"seq", FALSE>> \in P
      /\ <<"force", FALSE>> \in P
      /\ <<"entrep", "lib">> \in P
      /\ <<"leftover", TRUE>> \in P
      /\ <<"threads", TRUE>> \in P
      /\ <<"ref_entrep", "lib">> \in P
      /\ <<"ref_entrep", "none">> \in P
      /\ <<"ext", FALSE>> \in P
      /\ <<"ref_path", FALSE>> \in P
      /\ <<"ref_plain", FALSE>> \in P
  BY <1>1, <1>2, PairIs, ReadFields
<1>4. NoCatalogue \in Seq(P)
  BY <1>3 DEF NoCatalogue
<1>5. <<<<"entrep", "none">>, <<"plain", FALSE>>, <<"digits", FALSE>>, <<"seq", FALSE>>,
        <<"force", FALSE>>>> \in Seq(P)
  BY <1>3
<1>6. ReadClear \in Seq(P)
  BY <1>4, <1>5, Both DEF ReadClear
<1>7. <<<<"entrep", "lib">>, <<"leftover", TRUE>>, <<"threads", TRUE>>,
        <<"ref_entrep", "lib">>>> \in Seq(P)
  BY <1>3
<1>8. ReadDefaults \in Seq(P)
  BY <1>6, <1>7, Both DEF ReadDefaults
<1> QED
  BY <1>1, <1>4, <1>6, <1>8

LEMMA CreateSets ==
    /\ \A v \in Values("create") : CreateClear(v) \in Seq(Pairs("create"))
    /\ CreateDefaults \in Seq(Pairs("create"))
<1>1. PICK P : P = Pairs("create")
  OBVIOUS
<1>2. Fields("create") = DOMAIN CreateStart
  BY StartIs DEF Fields
<1>3. /\ <<"entrep", "none">> \in P
      /\ <<"masks", "none">> \in P
      /\ <<"ea_mask", "none">> \in P
      /\ <<"archtype", "full">> \in P
      /\ <<"date", FALSE>> \in P
      /\ <<"reference", "none">> \in P
      /\ <<"delta_sig", FALSE>> \in P
      /\ <<"delta_mask", "none">> \in P
      /\ <<"plain", FALSE>> \in P
      /\ <<"checked", FALSE>> \in P
      /\ <<"hourshift", FALSE>> \in P
      /\ <<"treated", FALSE>> \in P
      /\ <<"only_dir", FALSE>> \in P
      /\ <<"skipped", FALSE>> \in P
      /\ <<"by_ea", FALSE>> \in P
      /\ <<"default_ea", TRUE>> \in P
      /\ <<"compr", "none">> \in P
      /\ <<"compr_mask", "none">> \in P
      /\ <<"params", "none">> \in P
      /\ <<"entrep", "lib">> \in P
      /\ <<"plain", TRUE>> \in P
      /\ <<"treated", TRUE>> \in P
      /\ <<"skipped", TRUE>> \in P
      /\ <<"by_ea", TRUE>> \in P
      /\ <<"compr", "lib">> \in P
      /\ <<"compr_mask", "lib">> \in P
      /\ <<"params", "lib">> \in P
  BY <1>1, <1>2, PairIs, CreateFields, ZenonT(60)
<1>4. CreateDefaults \in Seq(P)
  BY <1>3 DEF CreateDefaults
<1>5. ASSUME NEW v \in Values("create") PROVE CreateClear(v) \in Seq(P)
  <2>1. v.sig_block \in Entries("sig_block") /\ "none" \in Entries("sig_block")
    BY <1>2, CreateFields DEF Values
  <2>2. <<"sig_block", IF v.sig_block = "own" THEN "none" ELSE v.sig_block>> \in P
    BY <1>1, <1>2, <2>1, PairIs, CreateFields
  <2> QED
    BY <1>3, <2>2 DEF CreateClear
<1> QED
  BY <1>1, <1>4, <1>5

LEMMA ClearTyped ==
    ASSUME NEW c \in ClassNames, NEW v \in Values(c)
    PROVE  ClearOf(c, v) \in Seq(Pairs(c)) /\ DefaultsOf(c) \in Seq(Pairs(c))
<1>0. \A T : <<>> \in Seq(T)
  OBVIOUS
<1>1. CASE c = "test"
  <2>1. ClearOf(c, v) = TestClear /\ DefaultsOf(c) = TestDefaults
    BY <1>1 DEF ClearOf, DefaultsOf
  <2> QED
    BY <1>0, <1>1, <2>1, TestSets
<1>2. CASE c = "compare"
  <2>1. ClearOf(c, v) = CompareClear /\ DefaultsOf(c) = CompareDefaults
    BY <1>2 DEF ClearOf, DefaultsOf
  <2> QED
    BY <1>0, <1>2, <2>1, CompareSets
<1>3. CASE c = "extract"
  <2>1. ClearOf(c, v) = ExtractClear /\ DefaultsOf(c) = ExtractDefaults
    BY <1>3 DEF ClearOf, DefaultsOf
  <2> QED
    BY <1>0, <1>3, <2>1, ExtractSets
<1>4. CASE c = "repair"
  <2>1. ClearOf(c, v) = RepairClear /\ DefaultsOf(c) = RepairDefaults
    BY <1>4 DEF ClearOf, DefaultsOf
  <2> QED
    BY <1>0, <1>4, <2>1, RepairSets
<1>5. CASE c = "isolate"
  <2>1. ClearOf(c, v) = IsolateClear /\ DefaultsOf(c) = IsolateDefaults
    BY <1>5 DEF ClearOf, DefaultsOf
  <2> QED
    BY <1>0, <1>5, <2>1, IsolateSets
<1>6. CASE c = "create"
  <2>1. ClearOf(c, v) = CreateClear(v) /\ DefaultsOf(c) = CreateDefaults
    BY <1>6 DEF ClearOf, DefaultsOf
  <2> QED
    BY <1>0, <1>6, <2>1, CreateSets
<1>7. CASE c = "merge"
  <2>1. ClearOf(c, v) = MergeClear /\ DefaultsOf(c) = MergeDefaults
    BY <1>7 DEF ClearOf, DefaultsOf
  <2> QED
    BY <1>0, <1>7, <2>1, MergeSets
<1>8. CASE c = "read"
  <2>1. ClearOf(c, v) = ReadClear /\ DefaultsOf(c) = ReadDefaults
    BY <1>8 DEF ClearOf, DefaultsOf
  <2> QED
    BY <1>0, <1>8, <2>1, ReadSets
<1>9. CASE c = "slicing"
  <2>1. ClearOf(c, v) = SlicingClear /\ DefaultsOf(c) = <<>>
    BY <1>9 DEF ClearOf, DefaultsOf
  <2> QED
    BY <1>0, <1>9, <2>1, SlicingSets
<1>10. CASE c = "ciphering"
  <2>1. ClearOf(c, v) = CipheringClear /\ DefaultsOf(c) = CipheringDefaults
    BY <1>10 DEF ClearOf, DefaultsOf
  <2> QED
    BY <1>0, <1>10, <2>1, CipheringSets
<1>11. CASE c = "compr"
  <2>1. ClearOf(c, v) = ComprClear /\ DefaultsOf(c) = ComprDefaults
    BY <1>11 DEF ClearOf, DefaultsOf
  <2> QED
    BY <1>0, <1>11, <2>1, ComprSets
<1>12. CASE c = "recompr"
  <2>1. ClearOf(c, v) = ComprClear /\ DefaultsOf(c) = ComprDefaults
    BY <1>12 DEF ClearOf, DefaultsOf
  <2> QED
    BY <1>0, <1>12, <2>1, RecomprSets
<1>13. CASE c = "sig_block"
  <2>1. ClearOf(c, v) = SigClear /\ DefaultsOf(c) = <<>>
    BY <1>13 DEF ClearOf, DefaultsOf
  <2> QED
    BY <1>0, <1>13, <2>1, SigBlockSets
<1> QED
  BY <1>1, <1>2, <1>3, <1>4, <1>5, <1>6, <1>7, <1>8, <1>9, <1>10, <1>11, <1>12, <1>13 DEF ClassNames

LEMMA TestLoads ==
    ASSUME NEW k, IsSaved("test", k) PROVE LoadOf("test", k) \in Seq(Pairs("test"))
<1>1. DOMAIN k = TestSaved
  BY DEF IsSaved, Saved
<1>2. TestLabels \in Seq(TestSaved)
  BY DEF TestLabels, TestSaved
<1>3. LoadOf("test", k) = From(k, TestLabels)
  BY DEF LoadOf
<1> QED
  BY <1>1, <1>2, <1>3, FromTyped

LEMMA CompareLoads ==
    ASSUME NEW k, IsSaved("compare", k) PROVE LoadOf("compare", k) \in Seq(Pairs("compare"))
<1>1. DOMAIN k = CompareSaved
  BY DEF IsSaved, Saved
<1>2. CompareLabels \in Seq(CompareSaved)
  BY DEF CompareLabels, CompareSaved
<1>3. LoadOf("compare", k) = From(k, CompareLabels)
  BY DEF LoadOf
<1> QED
  BY <1>1, <1>2, <1>3, FromTyped

LEMMA ExtractLoads ==
    ASSUME NEW k, IsSaved("extract", k) PROVE LoadOf("extract", k) \in Seq(Pairs("extract"))
<1>1. DOMAIN k = ExtractSaved
  BY DEF IsSaved, Saved
<1>2. ExtractLabels \in Seq(ExtractSaved)
  BY DEF ExtractLabels, ExtractSaved
<1>3. LoadOf("extract", k) = From(k, ExtractLabels)
  BY DEF LoadOf
<1> QED
  BY <1>1, <1>2, <1>3, FromTyped

LEMMA RepairLoads ==
    ASSUME NEW k, IsSaved("repair", k) PROVE LoadOf("repair", k) \in Seq(Pairs("repair"))
<1>1. DOMAIN k = RepairSaved
  BY DEF IsSaved, Saved
<1>2. RepairLabels \in Seq(RepairSaved)
  BY DEF RepairLabels, RepairSaved
<1>3. LoadOf("repair", k) = From(k, RepairLabels)
  BY DEF LoadOf
<1> QED
  BY <1>1, <1>2, <1>3, FromTyped

LEMMA SlicingLoads ==
    ASSUME NEW k, IsSaved("slicing", k) PROVE LoadOf("slicing", k) \in Seq(Pairs("slicing"))
<1>1. DOMAIN k = SlicingSaved
  BY DEF IsSaved, Saved
<1>2. SlicingLabels \in Seq(SlicingSaved)
  BY DEF SlicingLabels, SlicingSaved
<1>3. LoadOf("slicing", k) = From(k, SlicingLabels)
  BY DEF LoadOf
<1> QED
  BY <1>1, <1>2, <1>3, FromTyped

LEMMA ComprLoads ==
    ASSUME NEW k, IsSaved("compr", k) PROVE LoadOf("compr", k) \in Seq(Pairs("compr"))
<1>1. DOMAIN k = ComprSaved
  BY DEF IsSaved, Saved
<1>2. ComprLabels \in Seq(ComprSaved)
  BY DEF ComprLabels, ComprSaved
<1>3. LoadOf("compr", k) = From(k, ComprLabels)
  BY DEF LoadOf
<1> QED
  BY <1>1, <1>2, <1>3, FromTyped

LEMMA RecomprLoads ==
    ASSUME NEW k, IsSaved("recompr", k) PROVE LoadOf("recompr", k) \in Seq(Pairs("recompr"))
<1>1. DOMAIN k = ComprSaved
  BY DEF IsSaved, Saved
<1>2. ComprLabels \in Seq(ComprSaved)
  BY DEF ComprLabels, ComprSaved
<1>3. LoadOf("recompr", k) = From(k, ComprLabels)
  BY DEF LoadOf
<1> QED
  BY <1>1, <1>2, <1>3, FromTyped

LEMMA SigBlockLoads ==
    ASSUME NEW k, IsSaved("sig_block", k) PROVE LoadOf("sig_block", k) \in Seq(Pairs("sig_block"))
<1>1. DOMAIN k = SigSaved
  BY DEF IsSaved, Saved
<1>2. SigLabels \in Seq(SigSaved)
  BY DEF SigLabels, SigSaved
<1>3. LoadOf("sig_block", k) = From(k, SigLabels)
  BY DEF LoadOf
<1> QED
  BY <1>1, <1>2, <1>3, FromTyped

LEMMA CipheringLoads ==
    ASSUME NEW k, IsSaved("ciphering", k) PROVE LoadOf("ciphering", k) \in Seq(Pairs("ciphering"))
<1>1. PICK P : P = Pairs("ciphering")
  OBVIOUS
<1>2. DOMAIN k = CipheringSaved /\ Fields("ciphering") = DOMAIN CipheringStart
  BY StartIs DEF IsSaved, Saved, Fields
<1>3. <<"type", "cipher", "pass1">> \in Seq(DOMAIN k)
  BY <1>2 DEF CipheringSaved
<1>4. <<"size", "threads", "gnupg", "kdf", "iterations">> \in Seq(DOMAIN k)
  BY <1>2 DEF CipheringSaved
<1>5. PICK x : x = IF "pass1" \in DOMAIN k THEN k.pass1 ELSE Missing
  OBVIOUS
<1>6. "pass2" \in Fields("ciphering") /\ x \in Entries("pass2")
  BY <1>2, <1>5, CipheringFields DEF IsSaved, CipheringSaved
<1>7. <<"pass2", x>> \in P
  BY <1>1, <1>6, PairIs
<1>8. <<<<"pass2", x>>>> \in Seq(P)
  BY <1>7
<1>9. /\ From(k, <<"type", "cipher", "pass1">>) \in Seq(P)
      /\ From(k, <<"size", "threads", "gnupg", "kdf", "iterations">>) \in Seq(P)
  BY <1>1, <1>3, <1>4, FromTyped
<1>10. From(k, <<"type", "cipher", "pass1">>) \o <<<<"pass2", x>>>> \in Seq(P)
  BY <1>8, <1>9, Both
<1>11. CipheringLoad(k) \in Seq(P)
  BY <1>5, <1>9, <1>10, Both DEF CipheringLoad
<1> QED
  BY <1>1, <1>11 DEF LoadOf

LEMMA NoSignatureTyped ==
    ASSUME NEW c \in {"isolate", "create", "merge"}
    PROVE  NoSignature \in Seq(Pairs(c))
<1>1. /\ "sig_block" \in Fields(c) /\ "delta_mask" \in Fields(c)
      /\ "none" \in Entries("sig_block") /\ "none" \in Entries("delta_mask")
  BY StartIs, IsolateFields, CreateFields, MergeFields DEF Fields
<1>2. <<"sig_block", "none">> \in Pairs(c) /\ <<"delta_mask", "none">> \in Pairs(c)
  BY <1>1, PairIs
<1> QED
  BY <1>2 DEF NoSignature

LEMMA IsolateLoads ==
    ASSUME NEW k, IsSaved("isolate", k) PROVE LoadOf("isolate", k) \in Seq(Pairs("isolate"))
<1>1. PICK P : P = Pairs("isolate")
  OBVIOUS
<1>2. DOMAIN k = IsolateSaved(k)
  BY DEF IsSaved, Saved
<1>3. <<"delta_sig", "transfer">> \in Seq(DOMAIN k)
  BY <1>2 DEF IsolateSaved
<1>4. <<"entrep", "plain", "choice", "compr", "params">> \in Seq(DOMAIN k)
  BY <1>2 DEF IsolateSaved
<1>5. k.delta_sig /\ k.transfer => <<"sig_block", "delta_mask">> \in Seq(DOMAIN k)
  BY <1>2 DEF IsolateSaved
<1>6. /\ From(k, <<"delta_sig", "transfer">>) \in Seq(P)
      /\ From(k, <<"entrep", "plain", "choice", "compr", "params">>) \in Seq(P)
      /\ k.delta_sig /\ k.transfer => From(k, <<"sig_block", "delta_mask">>) \in Seq(P)
  BY <1>1, <1>3, <1>4, <1>5, FromTyped
<1>7. PICK q : q = IF k.delta_sig /\ k.transfer THEN From(k, <<"sig_block", "delta_mask">>)
                   ELSE NoSignature
  OBVIOUS
<1>8. q \in Seq(P)
  BY <1>1, <1>6, <1>7, NoSignatureTyped
<1>9. From(k, <<"delta_sig", "transfer">>) \o q \in Seq(P)
  BY <1>6, <1>8, Both
<1>10. IsolateLoad(k) \in Seq(P)
  BY <1>6, <1>7, <1>9, Both DEF IsolateLoad
<1> QED
  BY <1>1, <1>10 DEF LoadOf

LEMMA CreateLoads ==
    ASSUME NEW k, IsSaved("create", k) PROVE LoadOf("create", k) \in Seq(Pairs("create"))
<1>1. PICK P : P = Pairs("create")
  OBVIOUS
<1>2. DOMAIN k = CreateSaved(k) /\ Fields("create") = DOMAIN CreateStart
  BY StartIs DEF IsSaved, Saved, Fields
<1>3. <<"entrep", "masks", "ea_mask", "archtype", "date">> \in Seq(DOMAIN k)
  BY <1>2, CreateFields DEF CreateSaved
<1>4. OnDiff(k) => <<"reference">> \in Seq(DOMAIN k)
  BY <1>2, CreateFields DEF CreateSaved
<1>5. <<"delta_sig">> \in Seq(DOMAIN k)
  BY <1>2, CreateFields DEF CreateSaved
<1>6. k.delta_sig => <<"sig_block", "delta_mask">> \in Seq(DOMAIN k)
  BY <1>2, CreateFields DEF CreateSaved
<1>7. <<"checked", "hourshift", "plain", "treated", "only_dir", "skipped",
        "by_ea", "default_ea", "ea_name", "compr", "compr_mask", "params">> \in Seq(DOMAIN k)
  BY <1>2, CreateFields DEF CreateSaved
<1>8. <<"reference", "none">> \in P
  BY <1>1, <1>2, CreateFields, PairIs
<1>9. PICK q : q = IF OnDiff(k) THEN From(k, <<"reference">>) ELSE <<<<"reference", "none">>>>
  OBVIOUS
<1>10. PICK r : r = IF k.delta_sig THEN From(k, <<"sig_block", "delta_mask">>) ELSE NoSignature
  OBVIOUS
<1>11. q \in Seq(P)
  <2>1. CASE OnDiff(k)
    BY <1>1, <1>4, <1>9, <2>1, FromTyped
  <2>2. CASE ~OnDiff(k)
    <3>1. q = <<<<"reference", "none">>>>
      BY <1>9, <2>2
    <3> QED
      BY <1>8, <3>1
  <2> QED
    BY <2>1, <2>2
<1>12. r \in Seq(P)
  BY <1>1, <1>6, <1>10, FromTyped, NoSignatureTyped
<1>13. From(k, <<"entrep", "masks", "ea_mask", "archtype", "date">>) \o q \in Seq(P)
  BY <1>1, <1>3, <1>11, FromTyped, Both
<1>14. From(k, <<"entrep", "masks", "ea_mask", "archtype", "date">>) \o q \o From(k, <<"delta_sig">>) \in Seq(P)
  BY <1>1, <1>5, <1>13, FromTyped, Both
<1>15. From(k, <<"entrep", "masks", "ea_mask", "archtype", "date">>) \o q \o From(k, <<"delta_sig">>) \o r
        \in Seq(P)
  BY <1>12, <1>14, Both
<1>16. CreateLoad(k) \in Seq(P)
  BY <1>1, <1>7, <1>9, <1>10, <1>15, FromTyped, Both DEF CreateLoad
<1> QED
  BY <1>1, <1>16 DEF LoadOf

LEMMA MergeLoads ==
    ASSUME NEW k, IsSaved("merge", k) PROVE LoadOf("merge", k) \in Seq(Pairs("merge"))
<1>1. PICK P : P = Pairs("merge")
  OBVIOUS
<1>2. DOMAIN k = MergeSaved(k) /\ Fields("merge") = DOMAIN MergeStart
  BY StartIs DEF IsSaved, Saved, Fields
<1>3. <<"entrep", "plain", "choice", "has_aux">> \in Seq(DOMAIN k)
  BY <1>2, MergeFields DEF MergeSaved
<1>4. k.has_aux => <<"auxiliary">> \in Seq(DOMAIN k)
  BY <1>2, MergeFields DEF MergeSaved
<1>5. <<"decremental", "delta">> \in Seq(DOMAIN k)
  BY <1>2, MergeFields DEF MergeSaved
<1>6. OnCompute(k) => <<"sig_block", "delta_mask">> \in Seq(DOMAIN k)
  BY <1>2, MergeFields DEF MergeSaved
<1>7. <<"treated", "only_dir", "masks", "policy", "recompr", "compr_mask", "params">>
        \in Seq(DOMAIN k)
  BY <1>2, MergeFields DEF MergeSaved
<1>8. <<"auxiliary", "none">> \in P
  BY <1>1, <1>2, MergeFields, PairIs
<1>9. PICK q : q = IF k.has_aux THEN From(k, <<"auxiliary">>) ELSE <<<<"auxiliary", "none">>>>
  OBVIOUS
<1>10. PICK r : r = IF OnCompute(k) THEN From(k, <<"sig_block", "delta_mask">>) ELSE NoSignature
  OBVIOUS
<1>11. q \in Seq(P)
  BY <1>1, <1>4, <1>8, <1>9, FromTyped, SMTT(30)
<1>12. r \in Seq(P)
  BY <1>1, <1>6, <1>10, FromTyped, NoSignatureTyped
<1>13. From(k, <<"entrep", "plain", "choice", "has_aux">>) \o q \in Seq(P)
  BY <1>1, <1>3, <1>11, FromTyped, Both
<1>14. From(k, <<"entrep", "plain", "choice", "has_aux">>) \o q
        \o From(k, <<"decremental", "delta">>) \in Seq(P)
  BY <1>1, <1>5, <1>13, FromTyped, Both
<1>15. From(k, <<"entrep", "plain", "choice", "has_aux">>) \o q
        \o From(k, <<"decremental", "delta">>) \o r \in Seq(P)
  BY <1>12, <1>14, Both
<1>16. MergeLoad(k) \in Seq(P)
  BY <1>1, <1>7, <1>9, <1>10, <1>15, FromTyped, Both DEF MergeLoad
<1> QED
  BY <1>1, <1>16 DEF LoadOf

LEMMA ReadLoads ==
    ASSUME NEW k, IsSaved("read", k) PROVE LoadOf("read", k) \in Seq(Pairs("read"))
<1>1. PICK P : P = Pairs("read")
  OBVIOUS
<1>2. DOMAIN k = ReadSaved(k)
  BY DEF IsSaved, Saved
<1>3. <<"entrep", "plain", "leftover", "seq", "force", "ext">> \in Seq(DOMAIN k)
  BY <1>2 DEF ReadSaved
<1>4. k.ext => <<"ref_entrep", "ref_path", "ref_plain">> \in Seq(DOMAIN k)
  BY <1>2 DEF ReadSaved
<1>5. PICK q : q = IF k.ext THEN From(k, <<"ref_entrep", "ref_path", "ref_plain">>) ELSE NoCatalogue
  OBVIOUS
<1>6. q \in Seq(P)
  BY <1>1, <1>4, <1>5, FromTyped, ReadSets
<1>7. ReadLoad(k) \in Seq(P)
  BY <1>1, <1>3, <1>5, <1>6, FromTyped, Both DEF ReadLoad
<1> QED
  BY <1>1, <1>7 DEF LoadOf

LEMMA LoadTyped ==
    ASSUME NEW c \in ClassNames, NEW k, IsSaved(c, k)
    PROVE  LoadOf(c, k) \in Seq(Pairs(c))
<1>1. CASE c = "test"
  BY <1>1, TestLoads
<1>2. CASE c = "compare"
  BY <1>2, CompareLoads
<1>3. CASE c = "extract"
  BY <1>3, ExtractLoads
<1>4. CASE c = "repair"
  BY <1>4, RepairLoads
<1>5. CASE c = "isolate"
  BY <1>5, IsolateLoads
<1>6. CASE c = "create"
  BY <1>6, CreateLoads
<1>7. CASE c = "merge"
  BY <1>7, MergeLoads
<1>8. CASE c = "read"
  BY <1>8, ReadLoads
<1>9. CASE c = "slicing"
  BY <1>9, SlicingLoads
<1>10. CASE c = "ciphering"
  BY <1>10, CipheringLoads
<1>11. CASE c = "compr"
  BY <1>11, ComprLoads
<1>12. CASE c = "recompr"
  BY <1>12, RecomprLoads
<1>13. CASE c = "sig_block"
  BY <1>13, SigBlockLoads
<1> QED
  BY <1>1, <1>2, <1>3, <1>4, <1>5, <1>6, <1>7, <1>8, <1>9, <1>10, <1>11, <1>12, <1>13 DEF ClassNames
-----------------------------------------------------------------------------
(* A form that ignores its events or not, that awaits a change or not, is    *)
(* otherwise the same.                                                       *)
SameBut(c, s, t) ==
    /\ t \in States(c) /\ t.v = s.v /\ t.shown = s.shown /\ t.locked = s.locked

LEMMA WithFlags ==
    ASSUME NEW c, NEW s \in States(c), NEW b \in BOOLEAN
    PROVE  /\ SameBut(c, s, [s EXCEPT !.mute = b]) /\ [s EXCEPT !.mute = b].mute = b
           /\ SameBut(c, s, [s EXCEPT !.told = b]) /\ [s EXCEPT !.told = b].mute = s.mute
           /\ SameBut(c, s, [s EXCEPT !.skip = b]) /\ [s EXCEPT !.skip = b].mute = s.mute
BY DEF States, SameBut

LEMMA SameIsCoherent ==
    ASSUME NEW c, NEW s \in States(c), NEW t, SameBut(c, s, t)
    PROVE  /\ s \in Coherent(c) => t \in Coherent(c)
           /\ IsCiphering(s) => IsCiphering(t)
           /\ EnoughShown(s) => EnoughShown(t)
BY DEF SameBut, Coherent, IsCiphering, EnoughShown

LEMMA AssignAwake ==
    ASSUME NEW c \in ClassNames, NEW s \in States(c), ~s.mute, NEW p \in Pairs(c)
    PROVE  ~Assign(c, s, p).mute
<1>0. PICK t : t = Assign(c, s, p)
  OBVIOUS
<1>1. CASE c = "read"
  BY <1>0, <1>1, ReadAssign
<1>2. CASE c # "read"
  <2>1. CASE c \in Plain
    <3>1. t.mute = s.mute
      BY <1>0, <2>1, PlainAssign
    <3> QED
      BY <1>0, <3>1
  <2>2. CASE c = "create"
    <3>1. t.mute = s.mute
      BY <1>0, <2>2, CreateAssign
    <3> QED
      BY <1>0, <3>1
  <2>3. CASE c = "ciphering"
    <3>1. t.mute = s.mute
      BY <1>0, <2>3, CipheringAssign
    <3> QED
      BY <1>0, <3>1
  <2>4. CASE c = "sig_block"
    <3>1. t.mute = s.mute
      BY <1>0, <2>4, SigAssign
    <3> QED
      BY <1>0, <3>1
  <2>5. CASE c \in {"compr", "recompr"}
    <3>1. t.mute = s.mute
      BY <1>0, <2>5, ComprAssign, ZenonT(60)
    <3> QED
      BY <1>0, <3>1
  <2> QED
    BY <1>0, <1>2, <2>1, <2>2, <2>3, <2>4, <2>5 DEF ClassNames, Plain
<1> QED
  BY <1>0, <1>1, <1>2

(* The forms that each assignment leaves coherent, whether they ignore their *)
(* events or not.                                                            *)
Still == Plain \cup {"create", "read"}

LEMMA PlainIs ==
    ASSUME NEW c \in Plain, NEW s \in States(c)
    PROVE  s \in Coherent(c) <=> s.shown = Shown(c, s.v)
<1>1. s.locked \in SUBSET Lockable(c)
  BY StateIs
<1>2. Lockable(c) = {} /\ Locked(c, s.v) = {} /\ Agree(c, s.v)
  BY DEF Plain, Lockable, Locked, Agree
<1> QED
  BY <1>1, <1>2 DEF Coherent

LEMMA StillAssign ==
    ASSUME NEW c \in Still, NEW s \in Coherent(c), NEW p \in Pairs(c)
    PROVE  Assign(c, s, p) \in Coherent(c)
<1>0. s \in States(c)
  BY DEF Coherent
<1>1. CASE c \in Plain
  <2>1. PICK t : t = Assign(c, s, p)
    OBVIOUS
  <2>2. s.shown = Shown(c, s.v)
    BY DEF Coherent
  <2>3. t \in States(c) /\ t.shown = Shown(c, t.v)
    BY <1>0, <1>1, <2>1, <2>2, PlainAssign
  <2> QED
    BY <1>1, <2>1, <2>3, PlainIs
<1>2. CASE c = "create"
  BY <1>0, <1>2, CreateAssign
<1>3. CASE c = "read"
  BY <1>0, <1>3, ReadAssign
<1> QED
  BY <1>1, <1>2, <1>3 DEF Still

LEMMA AssignAllAwake ==
    ASSUME NEW c \in ClassNames, NEW pairs \in Seq(Pairs(c)), NEW s \in States(c), ~s.mute
    PROVE  AssignAll(c, s, pairs) \in States(c) /\ ~AssignAll(c, s, pairs).mute
<1>1. PICK S : S = {t \in States(c) : ~t.mute}
  OBVIOUS
<1>2. \A t \in S, k \in 1..Len(pairs) : Assign(c, t, pairs[k]) \in S
  <2> SUFFICES ASSUME NEW t \in S, NEW k \in 1..Len(pairs) PROVE Assign(c, t, pairs[k]) \in S
    OBVIOUS
  <2>1. pairs[k] \in Pairs(c)
    OBVIOUS
  <2> QED
    BY <1>1, <2>1, AssignTyped, AssignAwake
<1>3. S \in SUBSET States(c) /\ s \in S
  BY <1>1
<1>4. AssignAll(c, s, pairs) \in S
  BY <1>2, <1>3, AssignAllKeeps
<1> QED
  BY <1>1, <1>4

LEMMA AssignAllStill ==
    ASSUME NEW c \in Still, NEW pairs \in Seq(Pairs(c)), NEW s \in Coherent(c)
    PROVE  AssignAll(c, s, pairs) \in Coherent(c)
<1>1. Coherent(c) \in SUBSET States(c) /\ c \in ClassNames
  BY DEF Coherent, Still, Plain, ClassNames
<1>2. \A t \in Coherent(c), k \in 1..Len(pairs) : Assign(c, t, pairs[k]) \in Coherent(c)
  BY StillAssign
<1> QED
  BY <1>1, <1>2, AssignAllKeeps

LEMMA AssignNothing ==
    ASSUME NEW c \in ClassNames, NEW s \in States(c)
    PROVE  AssignAll(c, s, <<>>) = s
<1>0. \A T : <<>> \in Seq(T)
  OBVIOUS
<1>1. PICK pairs \in Seq(Pairs(c)) : pairs = <<>>
  BY <1>0
<1>2. PICK r \in [0..Len(pairs) -> States(c)] :
              r[0] = s /\ AssignAll(c, s, pairs) = r[Len(pairs)]
  BY AssignRun
<1> QED
  BY <1>1, <1>2

LEMMA SlicingFinish ==
    ASSUME NEW s \in States("slicing"), NEW f
    PROVE  Displays("slicing", s, OnEvent("slicing", s, f), Shown("slicing", s.v))
<1>1. Shown("slicing", s.v) = SlicingShown(s.v) /\ OnEvent("slicing", s, f) = SlicingEvent(s, f)
  BY DEF Shown, OnEvent
<1>2. SlicingShown(s.v) \subseteq Labels("slicing")
  BY StartIs, SlicingFields DEF Labels, Fields, SlicingShown
<1>3. SlicingEvent(s, f) = Refresh(s, SlicingShown(s.v))
  BY DEF SlicingEvent, Refresh
<1> QED
  BY <1>1, <1>2, <1>3, TellDisplays

(* What a form does when its events are heard again: it becomes coherent.    *)
Settles(c, s, t) ==
    /\ t \in States(c) /\ ~t.mute
    /\ c \in Still /\ s \in Coherent(c) => t \in Coherent(c)
    /\ c \in {"compr", "recompr"} => t \in Coherent(c)
    /\ c = "sig_block" => t.v.reversed \/ t \in Coherent(c)
    /\ c = "ciphering" => IsCiphering(t) /\ t.v = s.v /\ (EnoughShown(s) => EnoughShown(t))

LEMMA FinishSettles ==
    ASSUME NEW c \in ClassNames, NEW s \in States(c), ~s.mute
    PROVE  Settles(c, s, Finish(c, s))
<1>1. PICK t : t = Finish(c, s)
  OBVIOUS
<1>2. CASE c = "slicing"
  <2>1. t = OnEvent("slicing", s, "algo")
    BY <1>1, <1>2 DEF Finish
  <2>2. Displays("slicing", s, t, Shown("slicing", s.v))
    BY <1>2, <2>1, SlicingFinish
  <2>3. t \in Coherent(c)
    BY <1>2, <2>2, PlainIs DEF Displays, Plain
  <2> QED
    BY <1>1, <1>2, <2>2, <2>3 DEF Displays, Settles
<1>3. CASE c \in {"compr", "recompr"}
  <2>1. t = OnEvent(c, s, "algo")
    BY <1>1, <1>3 DEF Finish
  <2>2. t \in Coherent(c) /\ t.mute = s.mute
    <3>1. ~s.mute => OnEvent(c, s, "algo") \in Coherent(c) /\ OnEvent(c, s, "algo").mute = s.mute
      <4>1. CASE c = "compr"
        BY <4>1, ComprEvents, ZenonT(60)
      <4>2. CASE c = "recompr"
        BY <4>2, ComprEvents
      <4> QED
        BY <1>3, <4>1, <4>2
    <3> QED
      BY <2>1, <3>1
  <2> QED
    BY <1>1, <1>3, <2>2 DEF Settles, Coherent, Still, Plain
<1>4. CASE c = "sig_block"
  <2>1. t = OnEvent("sig_block", s, "plain")
    BY <1>1, <1>4 DEF Finish
  <2>2. /\ t \in States(c) /\ t.v = s.v /\ t.mute = s.mute
        /\ ~s.v.reversed => t \in Coherent(c)
    BY <1>4, <2>1, SigEvents
  <2> QED
    BY <1>1, <1>4, <2>2 DEF Settles, Still, Plain
<1>5. CASE c = "ciphering"
  <2>1. t = OnEvent("ciphering", s, "type")
    BY <1>1, <1>5 DEF Finish
  <2>2. "type" \in Fields("ciphering")
    BY StartIs, CipheringFields DEF Fields
  <2>3. /\ t \in States(c) /\ t.mute = s.mute /\ t.v = s.v
        /\ IsCiphering(t) /\ (EnoughShown(s) => EnoughShown(t))
    BY <1>5, <2>1, <2>2, CipheringEvents
  <2> QED
    BY <1>1, <1>5, <2>3 DEF Settles, Still, Plain
<1>6. CASE c \in Still \ {"slicing"}
  <2>1. t = Tell(s)
    BY <1>1, <1>6 DEF Finish, Still, Plain
  <2>2. s.shown \in SUBSET Labels(c)
    BY StateIs
  <2>3. Displays(c, s, t, s.shown)
    BY <2>1, <2>2, TellDisplays
  <2>4. s \in Coherent(c) => t \in Coherent(c)
    BY <2>3, SameIsCoherent DEF Displays, SameBut
  <2> QED
    BY <1>1, <1>6, <2>3, <2>4 DEF Displays, Settles, Still, Plain
<1> QED
  BY <1>2, <1>3, <1>4, <1>5, <1>6 DEF ClassNames, Still, Plain

LEMMA LoadingIs ==
    ASSUME NEW c \in ClassNames, NEW s \in States(c), NEW pairs \in Seq(Pairs(c))
    PROVE  LET t == [Loading(c, s, pairs) EXCEPT !.mute = FALSE] IN
           /\ t \in States(c) /\ ~t.mute
           /\ c \in Still /\ s \in Coherent(c) => t \in Coherent(c)
           /\ t.v = Loading(c, s, pairs).v
<1>1. PICK b \in BOOLEAN : b = (c # "slicing")
  OBVIOUS
<1>2. PICK u : u = [s EXCEPT !.mute = b]
  OBVIOUS
<1>3. SameBut(c, s, u)
  BY <1>2, WithFlags
<1>4. u \in States(c)
  BY <1>3 DEF SameBut
<1>5. PICK w : w = AssignAll(c, u, pairs)
  OBVIOUS
<1>6. Loading(c, s, pairs) = w
  BY <1>1, <1>2, <1>5 DEF Loading
<1>7. w \in States(c)
  BY <1>4, <1>5, AssignAllTyped
<1>8. c \in Still /\ s \in Coherent(c) => w \in Coherent(c)
  <2>1. s \in Coherent(c) => u \in Coherent(c)
    BY <1>3, SameIsCoherent
  <2> QED
    BY <1>5, <2>1, AssignAllStill
<1>9. PICK t : t = [w EXCEPT !.mute = FALSE]
  OBVIOUS
<1>10. SameBut(c, w, t) /\ t.mute = FALSE
  BY <1>7, <1>9, WithFlags
<1>11. w \in Coherent(c) => t \in Coherent(c)
  BY <1>7, <1>10, SameIsCoherent
<1> QED
  BY <1>6, <1>8, <1>9, <1>10, <1>11 DEF SameBut

LEMMA ThreeParts ==
    ASSUME NEW T, NEW a \in Seq(T), NEW b \in Seq(T), NEW d \in Seq(T),
           Len(a) = 3, Len(b) = 1, Len(d) = 5
    PROVE  Len(a \o b \o d) = 9 /\ (a \o b \o d)[8] = d[4] /\ (a \o b \o d)[9] = d[5]
<1>1. PICK e : e = a \o b
  OBVIOUS
<1>2. e \in Seq(T) /\ Len(e) = Len(a) + Len(b)
  BY <1>1, ConcatProperties
<1>3. Len(e) = 4
  BY <1>2
<1>4. PICK q : q = e \o d
  OBVIOUS
<1>5. /\ Len(q) = Len(e) + Len(d)
      /\ \A i \in 1..(Len(e) + Len(d)) : q[i] = IF i <= Len(e) THEN e[i] ELSE d[i - Len(e)]
  <2>1. /\ Len(e \o d) = Len(e) + Len(d)
        /\ \A i \in 1..(Len(e) + Len(d)) : (e \o d)[i] = IF i <= Len(e) THEN e[i] ELSE d[i - Len(e)]
    <3>1. e \in Seq(T)
      BY <1>2
    <3> QED
      BY <3>1, ConcatProperties, Zenon
  <2> QED
    BY <1>4, <2>1
<1>6. \A i \in 1..9 : q[i] = IF i <= 4 THEN e[i] ELSE d[i - 4]
  BY <1>3, <1>5
<1>7. q[8] = d[8 - 4] /\ q[9] = d[9 - 4]
  BY <1>6
<1>8. 8 - 4 = 4 /\ 9 - 4 = 5
  OBVIOUS
<1> QED
  BY <1>1, <1>3, <1>4, <1>5, <1>7, <1>8

(* What is assigned alone.                                                   *)
LEMMA ExceptSets ==
    ASSUME NEW c, NEW t \in States(c), NEW p \in Pairs(c), NEW X, NEW u,
           u.v = [t.v EXCEPT ![p[1]] = p[2]]
    PROVE  Sets(c, t, u, p, X)
<1>1. p[1] \in Fields(c) /\ DOMAIN t.v = Fields(c)
  BY DEF States, Values, Pairs
<1> QED
  BY <1>1 DEF Sets

(* What the form of encryption that was loaded holds in the end.             *)
LEMMA CipheringLoadEnds ==
    ASSUME NEW k, IsSaved("ciphering", k)
    PROVE  LET q == CipheringLoad(k) IN
           Len(q) = 9 /\ q[8] = <<"kdf", k.kdf>> /\ q[9] = <<"iterations", k.iterations>>
<1>1. DOMAIN k = CipheringSaved
  BY DEF IsSaved, Saved
<1>2. PICK a : a = From(k, <<"type", "cipher", "pass1">>)
  OBVIOUS
<1>3. PICK b : b = <<<<"pass2", IF "pass1" \in DOMAIN k THEN k.pass1 ELSE Missing>>>>
  OBVIOUS
<1>4. PICK labels : labels = <<"size", "threads", "gnupg", "kdf", "iterations">>
  OBVIOUS
<1>5. PICK d : d = From(k, labels)
  OBVIOUS
<1>6. /\ Len(labels) = 5 /\ labels[4] = "kdf" /\ labels[5] = "iterations"
      /\ "kdf" \in DOMAIN k /\ "iterations" \in DOMAIN k
  BY <1>1, <1>4 DEF CipheringSaved
<1>7. d = [i \in 1..5 |-> <<labels[i], IF labels[i] \in DOMAIN k THEN k[labels[i]] ELSE Missing>>]
  BY <1>5, <1>6 DEF From
<1>8. Len(d) = 5 /\ d[4] = <<"kdf", k.kdf>> /\ d[5] = <<"iterations", k.iterations>>
  BY <1>6, <1>7
<1>9. PICK T : T = {a[i] : i \in 1..3} \cup {b[1]} \cup {d[i] : i \in 1..5}
  OBVIOUS
<1>10. a \in Seq(T) /\ Len(a) = 3
  <2>1. a = [i \in 1..3 |-> a[i]]
    BY <1>2 DEF From
  <2>2. \A i \in 1..3 : a[i] \in T
    BY <1>9
  <2> QED
    BY <2>1, <2>2
<1>11. b \in Seq(T) /\ Len(b) = 1
  BY <1>3, <1>9
<1>12. d \in Seq(T)
  BY <1>7, <1>9
<1>13. Len(a \o b \o d) = 9 /\ (a \o b \o d)[8] = d[4] /\ (a \o b \o d)[9] = d[5]
  BY <1>8, <1>10, <1>11, <1>12, ThreeParts, ZenonT(60)
<1>14. CipheringLoad(k) = a \o b \o d
  BY <1>2, <1>3, <1>4, <1>5 DEF CipheringLoad
<1> QED
  BY <1>8, <1>13, <1>14

LEMMA CipheringLoaded ==
    ASSUME NEW s \in States("ciphering"), NEW k, IsSaved("ciphering", k)
    PROVE  LET t == Loading("ciphering", s, LoadOf("ciphering", k)) IN
           t.v.kdf = k.kdf /\ t.v.iterations = k.iterations
<1>1. PICK pairs \in Seq(Pairs("ciphering")) : pairs = LoadOf("ciphering", k)
  BY CipheringLoads
<1>2. Len(pairs) = 9 /\ pairs[8] = <<"kdf", k.kdf>> /\ pairs[9] = <<"iterations", k.iterations>>
  BY <1>1, CipheringLoadEnds DEF LoadOf
<1>3. PICK u : u = [s EXCEPT !.mute = TRUE]
  OBVIOUS
<1>4. u \in States("ciphering") /\ u.mute = TRUE
  BY <1>3 DEF States
<1>5. Loading("ciphering", s, pairs) = AssignAll("ciphering", u, pairs)
  BY <1>3 DEF Loading
<1>6. "ciphering" \in ClassNames
  BY DEF ClassNames
<1>7. PICK S : S = {t \in States("ciphering") : t.mute = TRUE}
  OBVIOUS
<1>8. \A t \in S, i \in 1..Len(pairs) :
          /\ Assign("ciphering", t, pairs[i]) \in S
          /\ Sets("ciphering", t, Assign("ciphering", t, pairs[i]), pairs[i], {})
  <2> SUFFICES ASSUME NEW t \in S, NEW i \in 1..Len(pairs)
               PROVE  /\ Assign("ciphering", t, pairs[i]) \in S
                      /\ Sets("ciphering", t, Assign("ciphering", t, pairs[i]), pairs[i], {})
    OBVIOUS
  <2>1. PICK p \in Pairs("ciphering") : p = pairs[i]
    OBVIOUS
  <2>2. PICK w : w = Assign("ciphering", t, p)
    OBVIOUS
  <2>3. t \in States("ciphering") /\ t.mute = TRUE
    BY <1>7
  <2>4. w \in States("ciphering") /\ w.mute = TRUE /\ w.v = [t.v EXCEPT ![p[1]] = p[2]]
    BY <2>2, <2>3, CipheringAssign
  <2> QED
    BY <1>7, <2>1, <2>2, <2>3, <2>4, ExceptSets
<1>9. S \in SUBSET States("ciphering") /\ u \in S
  BY <1>4, <1>7
<1>10. PICK w : w = AssignAll("ciphering", u, pairs)
  OBVIOUS
<1>11. AllSet("ciphering", u, w, pairs, Len(pairs), {})
  BY <1>6, <1>8, <1>9, <1>10, AssignAllSets
<1>12. \A j \in 1..9 : (\A i \in 1..9 : i > j => pairs[i][1] # pairs[j][1])
                           => w.v[pairs[j][1]] = pairs[j][2]
  BY <1>2, <1>11 DEF AllSet
<1>13. \A i \in 1..9 : (i > 8 => i = 9) /\ ~(i > 9)
  OBVIOUS
<1>14. w.v.kdf = k.kdf /\ w.v.iterations = k.iterations
  <2>1. pairs[8][1] = "kdf" /\ pairs[9][1] = "iterations" /\ 8 \in 1..9 /\ 9 \in 1..9
    BY <1>2
  <2>2. \A i \in 1..9 : i > 8 => pairs[i][1] # pairs[8][1]
    BY <1>13, <2>1
  <2>3. \A i \in 1..9 : i > 9 => pairs[i][1] # pairs[9][1]
    BY <1>13
  <2>4. w.v[pairs[8][1]] = pairs[8][2] /\ w.v[pairs[9][1]] = pairs[9][2]
    BY <1>12, <2>1, <2>2, <2>3
  <2> QED
    BY <1>2, <2>4
<1> QED
  BY <1>1, <1>5, <1>10, <1>14

LEMMA LoadedSettles ==
    ASSUME NEW c \in ClassNames, NEW s \in States(c), NEW k, IsSaved(c, k)
    PROVE  LET t == Loaded(c, s, k) IN
           /\ t \in States(c) /\ ~t.mute
           /\ c \in Still /\ s \in Coherent(c) => t \in Coherent(c)
           /\ c \in {"compr", "recompr"} => t \in Coherent(c)
           /\ c = "sig_block" => t.v.reversed \/ t \in Coherent(c)
           /\ c = "ciphering" =>
                IsCiphering(t) /\ (k.iterations >= FewestIterations(k.kdf) => EnoughShown(t))
<1>1. PICK pairs \in Seq(Pairs(c)) : pairs = LoadOf(c, k)
  BY LoadTyped
<1>2. PICK l : l = [Loading(c, s, pairs) EXCEPT !.mute = FALSE]
  OBVIOUS
<1>3. /\ l \in States(c) /\ ~l.mute
      /\ c \in Still /\ s \in Coherent(c) => l \in Coherent(c)
      /\ l.v = Loading(c, s, pairs).v
  BY <1>2, LoadingIs
<1>4. PICK f : f = Finish(c, l)
  OBVIOUS
<1>5. Settles(c, l, f)
  BY <1>3, <1>4, FinishSettles
<1>6. f \in States(c) /\ ~f.mute /\ f.skip \in BOOLEAN
  BY <1>5, StateIs DEF Settles
<1>7. PICK b \in BOOLEAN : b = (c = "read" \/ f.skip)
  BY <1>6
<1>8. PICK t : t = [f EXCEPT !.skip = b]
  OBVIOUS
<1>9. Loaded(c, s, k) = t
  BY <1>1, <1>2, <1>4, <1>7, <1>8 DEF Loaded
<1>10. SameBut(c, f, t) /\ ~t.mute
  <2>1. SameBut(c, f, [f EXCEPT !.skip = b]) /\ [f EXCEPT !.skip = b].mute = f.mute
    BY <1>6, WithFlags
  <2> QED
    BY <1>6, <1>8, <2>1
<1>11. /\ f \in Coherent(c) => t \in Coherent(c)
       /\ IsCiphering(f) => IsCiphering(t)
       /\ EnoughShown(f) => EnoughShown(t)
  BY <1>6, <1>10, SameIsCoherent
<1>12. ASSUME c = "ciphering", k.iterations >= FewestIterations(k.kdf) PROVE EnoughShown(l)
  <2>1. l.v.kdf = k.kdf /\ l.v.iterations = k.iterations
    BY <1>1, <1>3, <1>12, CipheringLoaded
  <2> QED
    BY <1>12, <2>1 DEF EnoughShown
<1> QED
  BY <1>3, <1>5, <1>6, <1>9, <1>10, <1>11, <1>12 DEF Settles, SameBut

LEMMA CipheringStep ==
    ASSUME NEW s \in States("ciphering"), NEW p \in Pairs("ciphering"), NEW t,
           t = Assign("ciphering", s, p)
    PROVE  /\ t.mute = s.mute /\ t.v[p[1]] = p[2]
           /\ \A g \in Fields("ciphering") \ {p[1], "iterations"} : t.v[g] = s.v[g]
           /\ ~s.mute /\ IsCiphering(s) => IsCiphering(t)
           /\ ~s.mute /\ p[1] \in {"cipher", "type"} /\ s.v[p[1]] # p[2] => IsCiphering(t)
BY CipheringAssign

(* A form of encryption that is cleared hears its events: the count that is  *)
(* set last is enough for the function that was set before it.               *)
LEMMA CipheringClears ==
    ASSUME NEW s \in States("ciphering"), ~s.mute
    PROVE  LET t == AssignAll("ciphering", s, CipheringClear) IN
           /\ t \in States("ciphering") /\ ~t.mute
           /\ t.v.cipher = "none" /\ t.v.kdf = "argon2" /\ t.v.iterations = 2
           /\ EnoughShown(t) /\ (IsCiphering(s) => IsCiphering(t))
<1>1. PICK pairs \in Seq(Pairs("ciphering")) : pairs = CipheringClear
  BY CipheringSets
<1>2. /\ Len(pairs) = 9 /\ pairs[2] = <<"cipher", "none">> /\ pairs[8] = <<"kdf", "argon2">>
      /\ pairs[9] = <<"iterations", 2>>
      /\ pairs[3][1] = "pass1" /\ pairs[4][1] = "pass2" /\ pairs[5][1] = "size"
      /\ pairs[6][1] = "threads" /\ pairs[7][1] = "gnupg"
  BY <1>1 DEF CipheringClear
<1>3. "ciphering" \in ClassNames /\ \A i \in 1..9 : pairs[i] \in Pairs("ciphering")
  <2>1. \A i \in 1..Len(pairs) : pairs[i] \in Pairs("ciphering")
    OBVIOUS
  <2> QED
    BY <1>2, <2>1 DEF ClassNames
<1>4. PICK t : t = AssignAll("ciphering", s, pairs)
  OBVIOUS
<1>5. t \in States("ciphering") /\ ~t.mute
  BY <1>3, <1>4, AssignAllAwake
<1>6. PICK r \in [0..Len(pairs) -> States("ciphering")] :
              /\ r[0] = s /\ AssignAll("ciphering", s, pairs) = r[Len(pairs)]
              /\ \A i \in 1..Len(pairs) : r[i] = Assign("ciphering", r[i - 1], pairs[i])
  BY <1>3, AssignRun
<1>7. \A i \in 1..9 :
          /\ r[i].v[pairs[i][1]] = pairs[i][2]
          /\ \A g \in Fields("ciphering") \ {pairs[i][1], "iterations"} : r[i].v[g] = r[i - 1].v[g]
  <2> SUFFICES ASSUME NEW i \in 1..9
               PROVE  /\ r[i].v[pairs[i][1]] = pairs[i][2]
                      /\ \A g \in Fields("ciphering") \ {pairs[i][1], "iterations"} :
                            r[i].v[g] = r[i - 1].v[g]
    OBVIOUS
  <2>1. r[i - 1] \in States("ciphering") /\ r[i] = Assign("ciphering", r[i - 1], pairs[i])
    BY <1>2, <1>6
  <2>2. PICK u \in States("ciphering") : u = r[i - 1]
    BY <2>1
  <2>3. PICK p \in Pairs("ciphering") : p = pairs[i]
    BY <1>3
  <2>4. PICK w : w = Assign("ciphering", u, p)
    OBVIOUS
  <2>5. w.v[p[1]] = p[2] /\ \A g \in Fields("ciphering") \ {p[1], "iterations"} : w.v[g] = u.v[g]
    BY <2>4, CipheringAssign
  <2> QED
    BY <2>1, <2>2, <2>3, <2>4, <2>5
<1>8. "cipher" \in Fields("ciphering") /\ "kdf" \in Fields("ciphering")
  BY StartIs, CipheringFields DEF Fields
<1>9. r[2].v.cipher = "none" /\ r[8].v.kdf = "argon2" /\ r[9].v.iterations = 2
  <2>1. /\ r[2].v[pairs[2][1]] = pairs[2][2] /\ r[8].v[pairs[8][1]] = pairs[8][2]
        /\ r[9].v[pairs[9][1]] = pairs[9][2]
    BY <1>7
  <2> QED
    BY <1>2, <2>1
<1>10. r[9].v.kdf = "argon2"
  <2>1. r[9].v.kdf = r[9 - 1].v.kdf
    BY <1>2, <1>7, <1>8
  <2> QED
    BY <1>9, <2>1
<1>11. r[9].v.cipher = "none"
  <2>1. \A i \in 3..9 : pairs[i][1] # "cipher"
    BY <1>2
  <2>2. \A i \in 3..9 : r[i].v.cipher = r[i - 1].v.cipher
    <3> SUFFICES ASSUME NEW i \in 3..9 PROVE r[i].v.cipher = r[i - 1].v.cipher
      OBVIOUS
    <3>1. i \in 1..9 /\ pairs[i][1] # "cipher"
      BY <2>1
    <3>2. "cipher" \in Fields("ciphering") \ {pairs[i][1], "iterations"}
      BY <1>8, <3>1
    <3> QED
      BY <1>7, <3>1, <3>2
  <2>3. r[3].v.cipher = r[2].v.cipher /\ r[4].v.cipher = r[3].v.cipher
    BY <2>2
  <2>4. r[5].v.cipher = r[4].v.cipher /\ r[6].v.cipher = r[5].v.cipher
    BY <2>2
  <2>5. r[7].v.cipher = r[6].v.cipher /\ r[8].v.cipher = r[7].v.cipher
    BY <2>2
  <2>6. r[9].v.cipher = r[8].v.cipher
    BY <2>2
  <2> QED
    BY <1>9, <2>3, <2>4, <2>5, <2>6
<1>12. t = r[9]
  BY <1>2, <1>4, <1>6
<1>13. EnoughShown(t)
  <2>1. t.v.iterations = 2 /\ FewestIterations(t.v.kdf) = 2
    BY <1>9, <1>10, <1>12 DEF FewestIterations
  <2>2. 2 >= 2
    OBVIOUS
  <2> QED
    BY <2>1, <2>2 DEF EnoughShown
<1>14. IsCiphering(s) => IsCiphering(t)
  <2>1. PICK S : S = {u \in States("ciphering") : ~u.mute /\ IsCiphering(u)}
    OBVIOUS
  <2>2. \A u \in S, i \in 1..Len(pairs) : Assign("ciphering", u, pairs[i]) \in S
    <3> SUFFICES ASSUME NEW u \in S, NEW i \in 1..Len(pairs)
                 PROVE  Assign("ciphering", u, pairs[i]) \in S
      OBVIOUS
    <3>1. PICK p \in Pairs("ciphering") : p = pairs[i]
      OBVIOUS
    <3>2. PICK w : w = Assign("ciphering", u, p)
      OBVIOUS
    <3>3. u \in States("ciphering") /\ ~u.mute /\ IsCiphering(u)
      BY <2>1
    <3>4. w \in States("ciphering") /\ w.mute = u.mute
      BY <3>2, <3>3, CipheringAssign
    <3>5. IsCiphering(w)
      BY <3>2, <3>3, CipheringAssign
    <3> QED
      BY <2>1, <3>1, <3>2, <3>3, <3>4, <3>5
  <2>3. S \in SUBSET States("ciphering")
    BY <2>1
  <2>4. s \in S => AssignAll("ciphering", s, pairs) \in S
    BY <1>3, <2>2, <2>3, AssignAllKeeps
  <2> QED
    BY <1>4, <2>1, <2>4
<1> QED
  BY <1>1, <1>4, <1>5, <1>9, <1>10, <1>11, <1>12, <1>13, <1>14

(* What becomes of a form that is cleared, or reset.                         *)
Renewed(c, s, t) ==
    /\ t \in States(c) /\ (c # "merge" => ~t.mute)
    /\ c \in Still /\ s \in Coherent(c) => t \in Coherent(c)
    /\ c \in {"compr", "recompr"} => t \in Coherent(c)
    /\ c = "sig_block" => t.v.reversed \/ t \in Coherent(c)
    /\ c = "ciphering" => EnoughShown(t) /\ (IsCiphering(s) => IsCiphering(t))

LEMMA ClearedIs ==
    ASSUME NEW c \in ClassNames, NEW s \in States(c), c # "merge" => ~s.mute
    PROVE  /\ Renewed(c, s, Cleared(c, s))
           /\ c = "ciphering" => Cleared(c, s).v.cipher = "none" /\ Cleared(c, s).v.kdf = "argon2"
<1>1. PICK pairs \in Seq(Pairs(c)) : pairs = ClearOf(c, s.v)
  BY StateIs, ClearTyped
<1>2. s.mute \in BOOLEAN /\ MutedByClear(c) \in BOOLEAN
  BY StateIs DEF MutedByClear
<1>3. PICK b \in BOOLEAN : b = (MutedByClear(c) \/ s.mute)
  BY <1>2
<1>4. PICK u : u = [s EXCEPT !.mute = b]
  OBVIOUS
<1>5. SameBut(c, s, u) /\ u.mute = b
  <2>1. SameBut(c, s, [s EXCEPT !.mute = b]) /\ [s EXCEPT !.mute = b].mute = b
    BY WithFlags, ZenonT(60)
  <2> QED
    BY <1>4, <2>1
<1>6. PICK t : t = AssignAll(c, u, pairs)
  OBVIOUS
<1>7. u = [s EXCEPT !.mute = MutedByClear(c) \/ @]
  BY <1>3, <1>4 DEF States
<1>8. Cleared(c, s) = IF c \in {"ciphering", "merge"} THEN t ELSE Finish(c, [t EXCEPT !.mute = FALSE])
  BY <1>1, <1>6, <1>7 DEF Cleared
<1>9. u \in States(c) /\ (s \in Coherent(c) => u \in Coherent(c)) /\ (IsCiphering(s) => IsCiphering(u))
  BY <1>5, SameIsCoherent DEF SameBut
<1>10. t \in States(c) /\ (c \in Still /\ s \in Coherent(c) => t \in Coherent(c))
  BY <1>6, <1>9, AssignAllTyped, AssignAllStill
<1>11. CASE c = "ciphering"
  <2>1. ~b
    BY <1>3, <1>11 DEF MutedByClear
  <2>2. u \in States("ciphering") /\ ~u.mute
    BY <1>5, <1>9, <1>11, <2>1
  <2>3. t = AssignAll("ciphering", u, CipheringClear)
    BY <1>1, <1>6, <1>11 DEF ClearOf
  <2>4. /\ ~t.mute /\ t.v.cipher = "none" /\ t.v.kdf = "argon2"
        /\ EnoughShown(t) /\ (IsCiphering(u) => IsCiphering(t))
    BY <2>2, <2>3, CipheringClears
  <2>5. "ciphering" \notin Still
    BY DEF Still, Plain
  <2> QED
    BY <1>8, <1>9, <1>10, <1>11, <2>4, <2>5 DEF Renewed
<1>12. CASE c = "merge"
  BY <1>8, <1>10, <1>12 DEF Renewed
<1>13. CASE c \notin {"ciphering", "merge"}
  <2>1. PICK l : l = [t EXCEPT !.mute = FALSE]
    OBVIOUS
  <2>2. SameBut(c, t, l) /\ l.mute = FALSE
    BY <1>10, <2>1, WithFlags
  <2>3. l \in States(c) /\ ~l.mute /\ (t \in Coherent(c) => l \in Coherent(c))
    BY <1>10, <2>2, SameIsCoherent DEF SameBut
  <2>4. PICK f : f = Finish(c, l)
    OBVIOUS
  <2>5. Settles(c, l, f)
    BY <2>3, <2>4, FinishSettles
  <2> QED
    BY <1>8, <1>10, <1>13, <2>1, <2>3, <2>4, <2>5 DEF Settles, Renewed
<1> QED
  BY <1>11, <1>12, <1>13

LEMMA DefaultedIs ==
    ASSUME NEW c \in ClassNames, NEW s \in States(c), c # "merge" => ~s.mute
    PROVE  /\ Renewed(c, s, Defaulted(c, s))
           /\ c = "ciphering" => IsCiphering(Defaulted(c, s))
<1>1. PICK pairs \in Seq(Pairs(c)) : pairs = DefaultsOf(c)
  BY StateIs, ClearTyped
<1>2. PICK u : u = IF c = "read" THEN s ELSE Cleared(c, s)
  OBVIOUS
<1>3. PICK t : t = AssignAll(c, u, pairs)
  OBVIOUS
<1>4. Defaulted(c, s) = t
  BY <1>1, <1>2, <1>3 DEF Defaulted
<1>5. /\ u \in States(c) /\ (c # "merge" => ~u.mute)
      /\ c \in Still /\ s \in Coherent(c) => u \in Coherent(c)
      /\ c # "read" => Renewed(c, s, u)
  <2>1. CASE c = "read"
    BY <1>2, <2>1
  <2>2. CASE c # "read"
    BY <1>2, <2>2, ClearedIs DEF Renewed
  <2> QED
    BY <2>1, <2>2
<1>6. t \in States(c) /\ (c \in Still /\ s \in Coherent(c) => t \in Coherent(c))
  BY <1>3, <1>5, AssignAllTyped, AssignAllStill
<1>7. c # "merge" => ~t.mute
  BY <1>3, <1>5, AssignAllAwake
<1>8. CASE c \in Still
  BY <1>4, <1>6, <1>7, <1>8 DEF Renewed, Still, Plain
<1>9. CASE c = "sig_block"
  <2>1. t = u
    BY <1>1, <1>3, <1>5, <1>9, AssignNothing DEF DefaultsOf
  <2> QED
    BY <1>4, <1>5, <1>9, <2>1 DEF Renewed
<1>10. CASE c \in {"compr", "recompr"}
  <2>1. PICK S : S = {w \in Coherent(c) : ~w.mute}
    OBVIOUS
  <2>2. S \in SUBSET States(c) /\ u \in S
    BY <1>5, <1>10, <2>1 DEF Coherent, Renewed
  <2>3. \A i \in 1..Len(pairs) : pairs[i][1] # "threads"
    <3>1. pairs = ComprDefaults
      BY <1>1, <1>10 DEF DefaultsOf
    <3> QED
      BY <3>1 DEF ComprDefaults
  <2>4. \A w \in S, i \in 1..Len(pairs) : Assign(c, w, pairs[i]) \in S
    <3> SUFFICES ASSUME NEW w \in S, NEW i \in 1..Len(pairs) PROVE Assign(c, w, pairs[i]) \in S
      OBVIOUS
    <3>1. PICK p \in Pairs(c) : p = pairs[i]
      OBVIOUS
    <3>2. PICK x : x = Assign(c, w, p)
      OBVIOUS
    <3>3. w \in States(c) /\ ~w.mute /\ w \in Coherent(c) /\ p[1] # "threads"
      BY <2>1, <2>3, <3>1 DEF Coherent
    <3>4. x.mute = w.mute
      BY <1>10, <3>2, <3>3, ComprAssign, ZenonT(60)
    <3>5. x \in Coherent(c)
      BY <1>10, <3>2, <3>3, ComprAssign
    <3> QED
      BY <2>1, <3>1, <3>2, <3>3, <3>4, <3>5
  <2>5. t \in S
    BY <1>3, <2>2, <2>4, AssignAllKeeps
  <2> QED
    BY <1>4, <1>6, <1>7, <1>10, <2>1, <2>5 DEF Renewed, Still, Plain
<1>11. CASE c = "ciphering"
  <2>1. /\ Len(pairs) = 3 /\ pairs[1] = <<"cipher", "aes">> /\ pairs[2] = <<"type", "sym">>
        /\ pairs[3] = <<"iterations", 3>>
    BY <1>1, <1>11 DEF DefaultsOf, CipheringDefaults
  <2>2. PICK r \in [0..Len(pairs) -> States(c)] :
              /\ r[0] = u /\ AssignAll(c, u, pairs) = r[Len(pairs)]
              /\ \A i \in 1..Len(pairs) : r[i] = Assign(c, r[i - 1], pairs[i])
    BY <1>5, AssignRun
  <2>3. /\ r[0] \in States("ciphering") /\ r[1] \in States("ciphering")
        /\ r[2] \in States("ciphering")
        /\ r[1] = Assign("ciphering", r[0], pairs[1]) /\ r[2] = Assign("ciphering", r[1], pairs[2])
        /\ r[3] = Assign("ciphering", r[2], pairs[3]) /\ t = r[3]
    <3>1. 1 - 1 = 0 /\ 2 - 1 = 1 /\ 3 - 1 = 2 /\ 1 \in 1..3 /\ 2 \in 1..3 /\ 3 \in 1..3
      OBVIOUS
    <3>2. \A i \in 0..3 : r[i] \in States(c)
      BY <2>1, <2>2
    <3>3. r[0] \in States(c) /\ r[1] \in States(c) /\ r[2] \in States(c)
      BY <3>2
    <3>4. \A i \in 1..3 : r[i] = Assign(c, r[i - 1], pairs[i])
      BY <2>1, <2>2
    <3>5. r[1] = Assign(c, r[1 - 1], pairs[1])
      BY <3>1, <3>4
    <3>6. r[2] = Assign(c, r[2 - 1], pairs[2])
      BY <3>1, <3>4
    <3>7. r[3] = Assign(c, r[3 - 1], pairs[3])
      BY <3>1, <3>4
    <3> QED
      BY <1>3, <1>11, <2>1, <2>2, <3>1, <3>3, <3>5, <3>6, <3>7
  <2>4. /\ pairs[1] \in Pairs("ciphering") /\ pairs[2] \in Pairs("ciphering")
        /\ pairs[3] \in Pairs("ciphering")
    <3>1. \A i \in 1..Len(pairs) : pairs[i] \in Pairs(c)
      OBVIOUS
    <3>2. \A i \in 1..3 : pairs[i] \in Pairs("ciphering")
      BY <1>11, <2>1, <3>1
    <3> QED
      BY <3>2
  <2>5. r[0].mute = FALSE /\ r[0].v.cipher = "none" /\ r[0].v.kdf = "argon2"
    <3>1. ~r[0].mute /\ r[0].mute \in BOOLEAN
      BY <1>5, <1>11, <2>2, <2>3, StateIs
    <3>2. u.v.cipher = "none" /\ u.v.kdf = "argon2"
      BY <1>2, <1>11, ClearedIs
    <3> QED
      BY <2>2, <3>1, <3>2
  <2>6. Fields("ciphering") = DOMAIN CipheringStart
    BY StartIs DEF Fields
  <2>7. r[1].mute = FALSE /\ IsCiphering(r[1]) /\ r[1].v.kdf = "argon2"
    <3>1. r[1].mute = r[0].mute
      BY <2>3, <2>4, CipheringStep
    <3>2. pairs[1][1] = "cipher" /\ pairs[1][2] = "aes" /\ ~r[0].mute
      BY <2>1, <2>5
    <3>3. r[0].v[pairs[1][1]] # pairs[1][2]
      BY <2>5, <3>2
    <3>4. IsCiphering(r[1])
      BY <2>3, <2>4, <3>2, <3>3, CipheringStep
    <3>5. \A g \in Fields("ciphering") \ {pairs[1][1], "iterations"} : r[1].v[g] = r[0].v[g]
      BY <2>3, <2>4, CipheringStep
    <3> QED
      BY <2>5, <2>6, <3>1, <3>2, <3>4, <3>5, CipheringFields
  <2>8. r[2].mute = FALSE /\ IsCiphering(r[2]) /\ r[2].v.kdf = "argon2"
    <3>1. r[2].mute = r[1].mute
      BY <2>3, <2>4, CipheringStep
    <3>2. pairs[2][1] = "type" /\ ~r[1].mute
      BY <2>1, <2>7
    <3>3. IsCiphering(r[2])
      BY <2>3, <2>4, <2>7, <3>2, CipheringStep
    <3>4. \A g \in Fields("ciphering") \ {pairs[2][1], "iterations"} : r[2].v[g] = r[1].v[g]
      BY <2>3, <2>4, CipheringStep
    <3> QED
      BY <2>6, <2>7, <3>1, <3>2, <3>3, <3>4, CipheringFields
  <2>9. IsCiphering(r[3]) /\ r[3].v.kdf = "argon2" /\ r[3].v.iterations = 3
    <3>1. pairs[3][1] = "iterations" /\ pairs[3][2] = 3 /\ ~r[2].mute
      BY <2>1, <2>8
    <3>2. IsCiphering(r[3])
      BY <2>3, <2>4, <2>8, <3>1, CipheringStep
    <3>3. /\ \A g \in Fields("ciphering") \ {pairs[3][1], "iterations"} : r[3].v[g] = r[2].v[g]
          /\ r[3].v[pairs[3][1]] = pairs[3][2]
      BY <2>3, <2>4, CipheringStep
    <3> QED
      BY <2>6, <2>8, <3>1, <3>2, <3>3, CipheringFields
  <2>10. EnoughShown(t)
    <3>1. t.v.iterations = 3 /\ FewestIterations(t.v.kdf) = 2
      BY <2>3, <2>9 DEF FewestIterations
    <3>2. 3 >= 2
      OBVIOUS
    <3> QED
      BY <3>1, <3>2 DEF EnoughShown
  <2> QED
    BY <1>4, <1>6, <1>7, <1>11, <2>3, <2>9, <2>10 DEF Renewed, Still, Plain
<1> QED
  BY <1>8, <1>9, <1>10, <1>11 DEF ClassNames, Still, Plain
-----------------------------------------------------------------------------
(* What is saved: the fields of the form, but for those that are forgotten.  *)
Forgettable == {"sig_block", "delta_mask", "reference", "auxiliary"}

LEMMA SavedFields ==
    ASSUME NEW c \in ClassNames, NEW v PROVE Saved(c, v) \subseteq Fields(c)
<1>1. CASE c = "test"
  BY <1>1, StartIs, TestFields DEF Fields, Saved, TestSaved
<1>2. CASE c = "compare"
  BY <1>2, StartIs, CompareFields DEF Fields, Saved, CompareSaved
<1>3. CASE c = "extract"
  BY <1>3, StartIs, ExtractFields DEF Fields, Saved, ExtractSaved
<1>4. CASE c = "repair"
  BY <1>4, StartIs, RepairFields DEF Fields, Saved, RepairSaved
<1>5. CASE c = "isolate"
  BY <1>5, StartIs, IsolateFields DEF Fields, Saved, IsolateSaved
<1>6. CASE c = "create"
  BY <1>6, StartIs DEF Fields, Saved, CreateSaved
<1>7. CASE c = "merge"
  BY <1>7, StartIs DEF Fields, Saved, MergeSaved
<1>8. CASE c = "read"
  BY <1>8, StartIs, ReadFields DEF Fields, Saved, ReadSaved
<1>9. CASE c = "slicing"
  BY <1>9, StartIs, SlicingFields DEF Fields, Saved, SlicingSaved
<1>10. CASE c = "ciphering"
  BY <1>10, StartIs, CipheringFields DEF Fields, Saved, CipheringSaved
<1>11. CASE c = "compr"
  BY <1>11, StartIs, ComprFields DEF Fields, Saved, ComprSaved
<1>12. CASE c = "recompr"
  BY <1>12, StartIs, ComprFields DEF Fields, Saved, ComprSaved
<1>13. CASE c = "sig_block"
  BY <1>13, StartIs, SigFields DEF Fields, Saved, SigSaved
<1> QED
  BY <1>1, <1>2, <1>3, <1>4, <1>5, <1>6, <1>7, <1>8, <1>9, <1>10, <1>11, <1>12, <1>13 DEF ClassNames

(* Which fields are saved depends on none of those that are forgotten.       *)
LEMMA SavedSame ==
    ASSUME NEW c \in ClassNames, NEW v \in Values(c), NEW w, NEW D, D = Saved(c, v),
           \A g \in D \ Forgettable : v[g] = w[g]
    PROVE  Saved(c, w) = D
<1>1. CASE c = "isolate"
  BY <1>1, StartIs, IsolateFields DEF Fields, Forgettable, Saved, IsolateSaved
<1>2. CASE c = "create"
  BY <1>2, StartIs, CreateFields DEF Fields, Forgettable, Saved, CreateSaved, OnDiff
<1>3. CASE c = "merge"
  BY <1>3, StartIs, MergeFields DEF Fields, Forgettable, Saved, MergeSaved, OnCompute
<1>4. CASE c = "read"
  BY <1>4, StartIs, ReadFields DEF Fields, Forgettable, Saved, ReadSaved
<1>5. CASE c \notin {"isolate", "create", "merge", "read"}
  BY <1>5 DEF Saved, ClassNames
<1> QED
  BY <1>1, <1>2, <1>3, <1>4, <1>5

(* The guichets that a form records and does not save are forgotten.         *)
LEMMA Forgotten ==
    ASSUME NEW c \in ClassNames, NEW v \in Values(c)
    PROVE  \E pairs \in Seq(Pairs(c)) :
              /\ pairs = Forgets(c, v)
              /\ \A j \in 1..Len(pairs) : pairs[j][1] \in Forgettable /\ pairs[j][2] = "none"
              /\ \A f \in DOMAIN Guichets(c) \ {"recompr", "ref_entrep"} :
                    f \in Uses(c) /\ (f \notin Saved(c, v) => \E j \in 1..Len(pairs) : pairs[j][1] = f)
              /\ c \notin {"isolate", "create", "merge"} => pairs = <<>>
<1>0. \A T : <<>> \in Seq(T)
  OBVIOUS
<1>1. CASE c \notin {"isolate", "create", "merge"}
  <2>1. Forgets(c, v) = <<>>
    BY <1>1 DEF Forgets
  <2>2. \A f \in DOMAIN Guichets(c) \ {"recompr", "ref_entrep"} : f \in Uses(c) /\ f \in Saved(c, v)
    <3>1. CASE c = "test"
      BY <3>1 DEF Guichets, Uses, Saved, TestGuichets, TestUses, TestSaved
    <3>2. CASE c = "compare"
      BY <3>2 DEF Guichets, Uses, Saved, CompareGuichets, CompareUses, CompareSaved
    <3>3. CASE c = "extract"
      BY <3>3 DEF Guichets, Uses, Saved, ExtractGuichets, ExtractUses, ExtractSaved
    <3>4. CASE c = "repair"
      BY <3>4 DEF Guichets, Uses, Saved, RepairGuichets, RepairUses, RepairSaved
    <3>5. CASE c = "read"
      BY <3>5 DEF Guichets, Uses, Saved, ReadGuichets, ReadUses, ReadSaved
    <3>6. CASE c \in {"slicing", "ciphering", "compr", "recompr", "sig_block"}
      BY <3>6 DEF Guichets
    <3> QED
      BY <1>1, <3>1, <3>2, <3>3, <3>4, <3>5, <3>6 DEF ClassNames
  <2>3. PICK pairs \in Seq(Pairs(c)) : pairs = <<>>
    BY <1>0
  <2>4. \A j \in 1..Len(pairs) : FALSE
    BY <2>3
  <2>5. \A j \in 1..Len(pairs) : pairs[j][1] \in Forgettable /\ pairs[j][2] = "none"
    BY <2>4
  <2>6. pairs = Forgets(c, v) /\ pairs = <<>>
    BY <2>1, <2>3
  <2>7. \A f \in DOMAIN Guichets(c) \ {"recompr", "ref_entrep"} :
          f \in Uses(c) /\ (f \notin Saved(c, v) => \E j \in 1..Len(pairs) : pairs[j][1] = f)
    BY <2>2
  <2> QED
    BY <2>5, <2>6, <2>7
<1>2. CASE c = "isolate"
  <2>1. Forgets(c, v) = IF v.delta_sig /\ v.transfer THEN <<>> ELSE NoSignature
    BY <1>2 DEF Forgets, IsolateForgets
  <2>2. PICK pairs \in Seq(Pairs(c)) : pairs = Forgets(c, v)
    BY <1>0, <1>2, <2>1, NoSignatureTyped
  <2>3. DOMAIN Guichets(c) \subseteq Uses(c)
    BY <1>2 DEF Guichets, IsolateGuichets, Uses, IsolateUses
  <2>4. CASE v.delta_sig /\ v.transfer
    <3>1. pairs = <<>> /\ DOMAIN Guichets(c) \subseteq Saved(c, v)
      BY <1>2, <2>1, <2>2, <2>4 DEF Guichets, IsolateGuichets, Saved, IsolateSaved
    <3> QED
      BY <1>2, <2>2, <2>3, <3>1
  <2>5. CASE ~(v.delta_sig /\ v.transfer)
    <3>1. /\ Len(pairs) = 2 /\ pairs[1] = <<"sig_block", "none">>
          /\ pairs[2] = <<"delta_mask", "none">>
      BY <2>1, <2>2, <2>5 DEF NoSignature
    <3>2. \A f \in DOMAIN Guichets(c) : f \notin Saved(c, v) => f \in {"sig_block", "delta_mask"}
      BY <1>2 DEF Guichets, IsolateGuichets, Saved, IsolateSaved
    <3>3. 1 \in 1..Len(pairs) /\ pairs[1][1] = "sig_block" /\ pairs[1][2] = "none"
      BY <3>1
    <3>4. 2 \in 1..Len(pairs) /\ pairs[2][1] = "delta_mask" /\ pairs[2][2] = "none"
      BY <3>1
    <3>5. \A j \in 1..Len(pairs) : j = 1 \/ j = 2
      BY <3>1
    <3>6. \A j \in 1..Len(pairs) : pairs[j][1] \in Forgettable /\ pairs[j][2] = "none"
      BY <3>3, <3>4, <3>5 DEF Forgettable
    <3>7. \A f \in DOMAIN Guichets(c) \ {"recompr", "ref_entrep"} :
            f \in Uses(c) /\ (f \notin Saved(c, v) => \E j \in 1..Len(pairs) : pairs[j][1] = f)
      BY <2>3, <3>2, <3>3, <3>4
    <3> QED
      BY <1>2, <2>2, <3>6, <3>7
  <2> QED
    BY <2>4, <2>5
<1>3. CASE c = "create"
  <2>1. DOMAIN Guichets(c) \subseteq Uses(c) /\ DOMAIN Guichets(c) \subseteq DOMAIN CreateStart
    BY <1>3, CreateFields DEF Guichets, CreateGuichets, Uses, CreateUses
  <2>2. Saved(c, v) = CreateSaved(v) /\ Forgets(c, v) = CreateForgets(v)
    BY <1>3 DEF Saved, Forgets
  <2>3. PICK q : q = IF OnDiff(v) THEN <<>> ELSE <<<<"reference", "none">>>>
    OBVIOUS
  <2>4. PICK r : r = IF v.delta_sig THEN <<>> ELSE NoSignature
    OBVIOUS
  <2>5. <<"reference", "none">> \in Pairs(c)
    <3>1. "reference" \in Fields(c) /\ "none" \in Entries("reference")
      BY <1>3, StartIs, CreateFields DEF Fields
    <3> QED
      BY <3>1, PairIs
  <2>6. /\ q \in Seq(Pairs(c))
        /\ \A j \in 1..Len(q) : q[j] = <<"reference", "none">>
        /\ ~OnDiff(v) => Len(q) = 1
    <3>1. CASE OnDiff(v)
      BY <1>0, <2>3, <3>1
    <3>2. CASE ~OnDiff(v)
      <4>1. q = <<<<"reference", "none">>>>
        BY <2>3, <3>2
      <4> QED
        BY <2>5, <3>2, <4>1
    <3> QED
      BY <3>1, <3>2
  <2>7. /\ r \in Seq(Pairs(c))
        /\ \A j \in 1..Len(r) : r[j] \in {<<"sig_block", "none">>, <<"delta_mask", "none">>}
        /\ ~v.delta_sig => Len(r) = 2 /\ r[1][1] = "sig_block" /\ r[2][1] = "delta_mask"
    BY <1>0, <1>3, <2>4, NoSignatureTyped DEF NoSignature
  <2>8. PICK pairs \in Seq(Pairs(c)) : pairs = q \o r
    BY <2>6, <2>7, Both
  <2>9. pairs = Forgets(c, v)
    BY <2>2, <2>3, <2>4, <2>8 DEF CreateForgets
  <2>10. /\ Len(pairs) = Len(q) + Len(r) /\ Len(q) \in Nat /\ Len(r) \in Nat
         /\ \A j \in 1..Len(q) : pairs[j] = q[j]
         /\ \A j \in 1..Len(r) : pairs[Len(q) + j] = r[j]
         /\ \A j \in 1..Len(pairs) : j > Len(q) => pairs[j] = r[j - Len(q)]
    BY <2>6, <2>7, <2>8
  <2>11. \A j \in 1..Len(pairs) :
            pairs[j] \in {<<"reference", "none">>, <<"sig_block", "none">>, <<"delta_mask", "none">>}
    <3> SUFFICES ASSUME NEW j \in 1..Len(pairs)
                 PROVE  pairs[j] \in {<<"reference", "none">>, <<"sig_block", "none">>,
                                      <<"delta_mask", "none">>}
      OBVIOUS
    <3>1. CASE j <= Len(q)
      <4>1. j \in 1..Len(q)
        BY <2>10, <3>1
      <4> QED
        BY <2>6, <2>10, <4>1
    <3>2. CASE j > Len(q)
      <4>1. j - Len(q) \in 1..Len(r)
        BY <2>10, <3>2
      <4> QED
        BY <2>7, <2>10, <3>2, <4>1
    <3> QED
      BY <2>10, <3>1, <3>2
  <2>12. \A f \in DOMAIN Guichets(c) : f \notin Saved(c, v) =>
            \/ f = "reference" /\ ~OnDiff(v)
            \/ f \in {"sig_block", "delta_mask"} /\ ~v.delta_sig
    BY <2>1, <2>2 DEF CreateSaved
  <2>13. ~OnDiff(v) => 1 \in 1..Len(pairs) /\ pairs[1][1] = "reference"
    BY <2>6, <2>10, SMTT(30)
  <2>14. ~v.delta_sig =>
            /\ Len(q) + 1 \in 1..Len(pairs) /\ Len(q) + 2 \in 1..Len(pairs)
            /\ pairs[Len(q) + 1][1] = "sig_block" /\ pairs[Len(q) + 2][1] = "delta_mask"
    <3> SUFFICES ASSUME ~v.delta_sig
                 PROVE  /\ Len(q) + 1 \in 1..Len(pairs) /\ Len(q) + 2 \in 1..Len(pairs)
                        /\ pairs[Len(q) + 1][1] = "sig_block"
                        /\ pairs[Len(q) + 2][1] = "delta_mask"
      OBVIOUS
    <3>1. Len(r) = 2 /\ r[1] = <<"sig_block", "none">> /\ r[2] = <<"delta_mask", "none">>
      BY <2>7
    <3>2. pairs[Len(q) + 1] = r[1] /\ pairs[Len(q) + 2] = r[2]
      BY <2>10, <3>1
    <3>3. Len(q) + 1 \in 1..Len(pairs) /\ Len(q) + 2 \in 1..Len(pairs)
      BY <2>10, <3>1
    <3> QED
      BY <3>1, <3>2, <3>3
  <2>15. \A f \in DOMAIN Guichets(c) : f \notin Saved(c, v) => \E j \in 1..Len(pairs) : pairs[j][1] = f
    BY <2>12, <2>13, <2>14
  <2>16. \A j \in 1..Len(pairs) : pairs[j][1] \in Forgettable /\ pairs[j][2] = "none"
    BY <2>11 DEF Forgettable
  <2> QED
    BY <1>3, <2>1, <2>9, <2>15, <2>16
<1>4. CASE c = "merge"
  <2>1. /\ DOMAIN Guichets(c) \ {"recompr"} \subseteq Uses(c)
        /\ DOMAIN Guichets(c) \subseteq DOMAIN MergeStart /\ "pause" \notin DOMAIN Guichets(c)
    BY <1>4, MergeFields DEF Guichets, MergeGuichets, Uses, MergeUses
  <2>2. Saved(c, v) = MergeSaved(v) /\ Forgets(c, v) = MergeForgets(v)
    BY <1>4 DEF Saved, Forgets
  <2>3. PICK q : q = IF v.has_aux THEN <<>> ELSE <<<<"auxiliary", "none">>>>
    OBVIOUS
  <2>4. PICK r : r = IF OnCompute(v) THEN <<>> ELSE NoSignature
    OBVIOUS
  <2>5. <<"auxiliary", "none">> \in Pairs(c)
    <3>1. "auxiliary" \in Fields(c) /\ "none" \in Entries("auxiliary")
      BY <1>4, StartIs, MergeFields DEF Fields
    <3> QED
      BY <3>1, PairIs
  <2>6. /\ q \in Seq(Pairs(c))
        /\ \A j \in 1..Len(q) : q[j] = <<"auxiliary", "none">>
        /\ ~v.has_aux => Len(q) = 1
    BY <1>0, <2>3, <2>5
  <2>7. /\ r \in Seq(Pairs(c))
        /\ \A j \in 1..Len(r) : r[j] \in {<<"sig_block", "none">>, <<"delta_mask", "none">>}
        /\ ~OnCompute(v) => Len(r) = 2 /\ r[1][1] = "sig_block" /\ r[2][1] = "delta_mask"
    <3>1. CASE OnCompute(v)
      BY <1>0, <2>4, <3>1
    <3>2. CASE ~OnCompute(v)
      <4>1. r = NoSignature
        BY <2>4, <3>2
      <4> QED
        BY <1>4, <3>2, <4>1, NoSignatureTyped DEF NoSignature
    <3> QED
      BY <3>1, <3>2
  <2>8. PICK pairs \in Seq(Pairs(c)) : pairs = q \o r
    BY <2>6, <2>7, Both
  <2>9. pairs = Forgets(c, v)
    BY <2>2, <2>3, <2>4, <2>8 DEF MergeForgets
  <2>10. /\ Len(pairs) = Len(q) + Len(r) /\ Len(q) \in Nat /\ Len(r) \in Nat
         /\ \A j \in 1..Len(q) : pairs[j] = q[j]
         /\ \A j \in 1..Len(r) : pairs[Len(q) + j] = r[j]
         /\ \A j \in 1..Len(pairs) : j > Len(q) => pairs[j] = r[j - Len(q)]
    BY <2>6, <2>7, <2>8
  <2>11. \A j \in 1..Len(pairs) :
            pairs[j] \in {<<"auxiliary", "none">>, <<"sig_block", "none">>, <<"delta_mask", "none">>}
    <3> SUFFICES ASSUME NEW j \in 1..Len(pairs)
                 PROVE  pairs[j] \in {<<"auxiliary", "none">>, <<"sig_block", "none">>,
                                      <<"delta_mask", "none">>}
      OBVIOUS
    <3>1. CASE j <= Len(q)
      <4>1. j \in 1..Len(q)
        BY <2>10, <3>1
      <4> QED
        BY <2>6, <2>10, <4>1
    <3>2. CASE j > Len(q)
      <4>1. j - Len(q) \in 1..Len(r)
        BY <2>10, <3>2
      <4> QED
        BY <2>7, <2>10, <3>2, <4>1
    <3> QED
      BY <2>10, <3>1, <3>2
  <2>12. \A f \in DOMAIN Guichets(c) : f \notin Saved(c, v) =>
            \/ f = "auxiliary" /\ ~v.has_aux
            \/ f \in {"sig_block", "delta_mask"} /\ ~OnCompute(v)
    BY <2>1, <2>2 DEF MergeSaved
  <2>13. ~v.has_aux => 1 \in 1..Len(pairs) /\ pairs[1][1] = "auxiliary"
    BY <2>6, <2>10, SMTT(30)
  <2>14. ~OnCompute(v) =>
            /\ Len(q) + 1 \in 1..Len(pairs) /\ Len(q) + 2 \in 1..Len(pairs)
            /\ pairs[Len(q) + 1][1] = "sig_block" /\ pairs[Len(q) + 2][1] = "delta_mask"
    <3> SUFFICES ASSUME ~OnCompute(v)
                 PROVE  /\ Len(q) + 1 \in 1..Len(pairs) /\ Len(q) + 2 \in 1..Len(pairs)
                        /\ pairs[Len(q) + 1][1] = "sig_block" /\ pairs[Len(q) + 2][1] = "delta_mask"
      OBVIOUS
    <3>1. Len(r) = 2 /\ r[1][1] = "sig_block" /\ r[2][1] = "delta_mask"
      BY <2>7
    <3>2. 1 \in 1..Len(r) /\ 2 \in 1..Len(r)
      BY <3>1
    <3>3. pairs[Len(q) + 1] = r[1] /\ pairs[Len(q) + 2] = r[2]
      BY <2>10, <3>2
    <3>4. Len(q) + 1 \in 1..Len(pairs) /\ Len(q) + 2 \in 1..Len(pairs)
      BY <2>10, <3>1
    <3> QED
      BY <3>1, <3>3, <3>4
  <2>15. \A f \in DOMAIN Guichets(c) : f \notin Saved(c, v) => \E j \in 1..Len(pairs) : pairs[j][1] = f
    BY <2>12, <2>13, <2>14
  <2>16. \A j \in 1..Len(pairs) : pairs[j][1] \in Forgettable /\ pairs[j][2] = "none"
    BY <2>11 DEF Forgettable
  <2> QED
    BY <1>4, <2>1, <2>9, <2>15, <2>16
<1> QED
  BY <1>1, <1>2, <1>3, <1>4
-----------------------------------------------------------------------------
(* What save_json leaves of a form.                                          *)
LEMMA LastOf ==
    ASSUME NEW n \in Nat
    PROVE  \A s \in SUBSET (1..n) : s # {} => \E m \in s : \A i \in s : i <= m
<1>1. PICK S : S = {m \in Nat : \A s \in SUBSET (1..m) : s # {} => \E l \in s : \A i \in s : i <= l}
  OBVIOUS
<1>2. 0 \in S
  <2>1. \A s \in SUBSET (1..0) : s = {}
    OBVIOUS
  <2> QED
    BY <1>1, <2>1
<1>3. ASSUME NEW m \in S PROVE m + 1 \in S
  <2> SUFFICES ASSUME NEW s \in SUBSET (1..(m + 1)), s # {}
               PROVE  \E l \in s : \A i \in s : i <= l
    BY <1>1, <1>3
  <2>0. m \in Nat
    BY <1>1
  <2>1. CASE m + 1 \in s
    <3>1. \A i \in s : i <= m + 1
      BY <2>0
    <3> QED
      BY <2>1, <3>1
  <2>2. CASE m + 1 \notin s
    <3>1. s \in SUBSET (1..m)
      BY <2>0, <2>2
    <3> QED
      BY <1>1, <3>1
  <2> QED
    BY <2>1, <2>2
<1>4. n \in S
  BY <1>1, <1>2, <1>3, NatSets
<1> QED
  BY <1>1, <1>4

(* A field that is assigned, and always the same, holds what it was given.   *)
Gives(pairs, n, f, x) ==
    /\ \E j \in 1..n : pairs[j][1] = f
    /\ \A j \in 1..n : pairs[j][1] = f => pairs[j][2] = x

LEMMA AllGiven ==
    ASSUME NEW c, NEW s, NEW u, NEW pairs, NEW n \in Nat, NEW X, AllSet(c, s, u, pairs, n, X),
           NEW f, f \notin X, NEW x, Gives(pairs, n, f, x)
    PROVE  u.v[f] = x
<1>1. PICK S : S = {j \in 1..n : pairs[j][1] = f}
  OBVIOUS
<1>2. S \in SUBSET (1..n) /\ S # {}
  BY <1>1 DEF Gives
<1>3. PICK m \in S : \A i \in S : i <= m
  BY <1>2, LastOf
<1>4. m \in 1..n /\ pairs[m][1] = f /\ pairs[m][2] = x
  BY <1>1, <1>3 DEF Gives
<1>5. \A i \in 1..n : i > m => pairs[i][1] # pairs[m][1]
  <2> SUFFICES ASSUME NEW i \in 1..n, i > m, pairs[i][1] = pairs[m][1] PROVE FALSE
    OBVIOUS
  <2>1. i \in S
    BY <1>1, <1>4
  <2>2. i <= m
    BY <1>3, <2>1
  <2> QED
    BY <1>4, <2>2
<1>6. u.v[pairs[m][1]] = pairs[m][2]
  BY <1>4, <1>5 DEF AllSet
<1> QED
  BY <1>4, <1>6

LEMMA ForgetfulAssign ==
    ASSUME NEW c \in {"isolate", "create", "merge"}, NEW t \in States(c), NEW p \in Pairs(c),
           p[1] \in Forgettable
    PROVE  Assign(c, t, p) \in States(c) /\ Sets(c, t, Assign(c, t, p), p, {})
<1>1. PICK u : u = Assign(c, t, p)
  OBVIOUS
<1>2. CASE c \in {"isolate", "merge"}
  <2>1. c \in Plain
    BY <1>2 DEF Plain
  <2>2. u \in States(c) /\ u.v = [t.v EXCEPT ![p[1]] = p[2]]
    BY <1>1, <2>1, PlainAssign
  <2> QED
    BY <1>1, <2>2, ExceptSets
<1>3. CASE c = "create"
  <2>1. p[1] \in DOMAIN CreateStart
    BY <1>3, StartIs DEF Pairs, Fields
  <2>2. p[1] \in CreateQuiet
    BY <2>1, CreateFields DEF Forgettable, CreateQuiet
  <2>3. u \in States(c) /\ u.v = [t.v EXCEPT ![p[1]] = p[2]]
    BY <1>1, <1>3, <2>2, CreateAssign
  <2> QED
    BY <1>1, <2>3, ExceptSets
<1> QED
  BY <1>2, <1>3

Kept(c, s, t) ==
    /\ t \in States(c) /\ (~s.mute => ~t.mute)
    /\ c \in Still /\ s \in Coherent(c) => t \in Coherent(c)
    /\ c \notin {"isolate", "create", "merge"} => t = s
    /\ \A g \in Fields(c) \ Forgettable : t.v[g] = s.v[g]
    /\ \A f \in DOMAIN Guichets(c) \ {"recompr", "ref_entrep"} :
          f \in Uses(c) /\ (f \notin Saved(c, s.v) => t.v[f] = "none")

LEMMA SavingIs ==
    ASSUME NEW c \in ClassNames, NEW s \in States(c)
    PROVE  Kept(c, s, AssignAll(c, s, Forgets(c, s.v)))
<1>0. s.v \in Values(c)
  BY StateIs
<1>1. PICK pairs \in Seq(Pairs(c)) :
              /\ pairs = Forgets(c, s.v)
              /\ \A j \in 1..Len(pairs) : pairs[j][1] \in Forgettable /\ pairs[j][2] = "none"
              /\ \A f \in DOMAIN Guichets(c) \ {"recompr", "ref_entrep"} :
                    f \in Uses(c) /\ (f \notin Saved(c, s.v) => \E j \in 1..Len(pairs) : pairs[j][1] = f)
              /\ c \notin {"isolate", "create", "merge"} => pairs = <<>>
  BY <1>0, Forgotten
<1>2. PICK t : t = AssignAll(c, s, pairs)
  OBVIOUS
<1>3. t \in States(c)
  BY <1>2, AssignAllTyped
<1>4. ~s.mute => ~t.mute
  BY <1>2, AssignAllAwake
<1>5. c \in Still /\ s \in Coherent(c) => t \in Coherent(c)
  BY <1>2, AssignAllStill
<1>6. \A j \in 1..Len(pairs) : pairs[j] \in Pairs(c)
  OBVIOUS
<1>7. CASE c \notin {"isolate", "create", "merge"}
  <2>1. t = s
    BY <1>1, <1>2, <1>7, AssignNothing
  <2>2. \A j \in 1..Len(pairs) : FALSE
    BY <1>1, <1>7
  <2>3. \A f \in DOMAIN Guichets(c) \ {"recompr", "ref_entrep"} :
          f \in Uses(c) /\ (f \notin Saved(c, s.v) => t.v[f] = "none")
    BY <1>1, <2>2
  <2>4. Kept(c, s, t)
    BY <1>3, <1>5, <2>1, <2>3 DEF Kept
  <2> QED
    BY <1>1, <1>2, <2>4
<1>8. CASE c \in {"isolate", "create", "merge"}
  <2>1. PICK S : S = States(c)
    OBVIOUS
  <2>2. \A w \in S, k \in 1..Len(pairs) :
              Assign(c, w, pairs[k]) \in S /\ Sets(c, w, Assign(c, w, pairs[k]), pairs[k], {})
    <3> SUFFICES ASSUME NEW w \in S, NEW k \in 1..Len(pairs)
                 PROVE  Assign(c, w, pairs[k]) \in S /\ Sets(c, w, Assign(c, w, pairs[k]), pairs[k], {})
      OBVIOUS
    <3>1. PICK p : p = pairs[k]
      OBVIOUS
    <3>2. p \in Pairs(c) /\ p[1] \in Forgettable /\ w \in States(c)
      BY <1>1, <1>6, <2>1, <3>1
    <3>3. Assign(c, w, p) \in States(c) /\ Sets(c, w, Assign(c, w, p), p, {})
      BY <1>8, <3>2, ForgetfulAssign
    <3> QED
      BY <2>1, <3>1, <3>3
  <2>3. S \in SUBSET States(c) /\ s \in S
    BY <2>1
  <2>4. AllSet(c, s, t, pairs, Len(pairs), {})
    BY <1>2, <2>2, <2>3, AssignAllSets
  <2>5. \A g \in Fields(c) \ Forgettable : t.v[g] = s.v[g]
    <3> SUFFICES ASSUME NEW g \in Fields(c) \ Forgettable PROVE t.v[g] = s.v[g]
      OBVIOUS
    <3>1. \A j \in 1..Len(pairs) : pairs[j][1] # g
      BY <1>1
    <3> QED
      BY <2>4, <3>1 DEF AllSet
  <2>6. \A f \in DOMAIN Guichets(c) \ {"recompr", "ref_entrep"} :
          f \in Uses(c) /\ (f \notin Saved(c, s.v) => t.v[f] = "none")
    <3>0. PICK n \in Nat : n = Len(pairs)
      OBVIOUS
    <3>1. PICK X : X = {}
      OBVIOUS
    <3>2. AllSet(c, s, t, pairs, n, X)
      BY <2>4, <3>0, <3>1
    <3>4. ASSUME NEW f \in DOMAIN Guichets(c) \ {"recompr", "ref_entrep"}, f \notin Saved(c, s.v)
          PROVE  t.v[f] = "none"
      <4>1. Gives(pairs, n, f, "none")
        BY <1>1, <3>0, <3>4 DEF Gives
      <4>2. f \notin X
        BY <3>1
      <4> QED
        BY <3>2, <4>1, <4>2, AllGiven
    <3> QED
      BY <1>1, <3>4
  <2>7. Kept(c, s, t)
    BY <1>3, <1>4, <1>5, <1>8, <2>5, <2>6 DEF Kept
  <2> QED
    BY <1>1, <1>2, <2>7
<1> QED
  BY <1>7, <1>8
-----------------------------------------------------------------------------
(* The inductive invariant of a form of options, whatever is done to it.     *)
Sound(c, s, k, broken) ==
    /\ s \in States(c) /\ (c # "merge" => ~s.mute)
    /\ c \in Still => s \in Coherent(c)
    /\ c \in {"compr", "recompr"} /\ ~broken => s \in Coherent(c)
    /\ c = "sig_block" /\ ~broken => s.v.reversed \/ s \in Coherent(c)
    /\ c = "ciphering" /\ ~broken => IsCiphering(s) /\ (TooFew(k) \/ EnoughShown(s))

OptionsInv ==
    /\ class \in ClassNames
    /\ stored # NoFile => IsSaved(class, stored)
    /\ torn \in BOOLEAN
    /\ Sound(class, form, stored, torn)
    /\ DependenciesAreExact

LEMMA RestIsSound ==
    ASSUME NEW c \in ClassNames, NEW s, NEW k, NEW broken, Sound(c, s, k, broken), NEW r,
           r = [s EXCEPT !.told = FALSE]
    PROVE  Sound(c, r, k, broken) /\ r.v = s.v /\ r.shown = s.shown /\ r.locked = s.locked
<1>1. s \in States(c)
  BY DEF Sound
<1>2. SameBut(c, s, r) /\ r.mute = s.mute
  <2>1. SameBut(c, s, [s EXCEPT !.told = FALSE]) /\ [s EXCEPT !.told = FALSE].mute = s.mute
    BY <1>1, WithFlags
  <2> QED
    BY <2>1
<1>3. r \in States(c) /\ r.v = s.v /\ r.shown = s.shown /\ r.locked = s.locked
  BY <1>2 DEF SameBut
<1>4. /\ s \in Coherent(c) => r \in Coherent(c)
      /\ IsCiphering(s) => IsCiphering(r)
      /\ EnoughShown(s) => EnoughShown(r)
  BY <1>1, <1>2, SameIsCoherent
<1>5. c # "merge" => ~r.mute
  BY <1>2 DEF Sound
<1> QED
  BY <1>3, <1>4, <1>5 DEF Sound

(* The constructor of a form.                                                *)
LEMMA NewFormIs ==
    ASSUME NEW c \in ClassNames
    PROVE  LET s == NewForm(Start(c)) IN
           s \in States(c) /\ ~s.mute /\ EnoughShown(s) /\ s.v = Start(c)
<1>1. Start(c) \in Values(c)
  BY StartTyped
<1>2. PICK s : s = NewForm(Start(c))
  OBVIOUS
<1>3. s = [v |-> Start(c), shown |-> {}, locked |-> {}, mute |-> FALSE, skip |-> FALSE, told |-> FALSE]
  BY <1>2 DEF NewForm
<1>4. s \in States(c)
  BY <1>1, <1>3 DEF States
<1>5. ~s.mute /\ s.shown = {} /\ s.v = Start(c)
  BY <1>3
<1>6. EnoughShown(s)
  BY <1>5 DEF EnoughShown
<1> QED
  BY <1>2, <1>4, <1>5, <1>6

LEMMA BuiltIsSound ==
    ASSUME NEW c \in ClassNames, NEW k, NEW broken
    PROVE  Sound(c, OnEvent(c, NewForm(Start(c)), FirstEvent(c)), k, broken)
<1>1. PICK s : s = NewForm(Start(c))
  OBVIOUS
<1>2. s \in States(c) /\ ~s.mute /\ EnoughShown(s) /\ s.v = Start(c)
  BY <1>1, NewFormIs
<1>3. PICK t : t = OnEvent(c, s, FirstEvent(c))
  OBVIOUS
<1>4. CASE c \in Plain
  <2>1. FirstEvent(c) = "plain" /\ "plain" \in Fields(c) /\ "plain" \notin Quiet(c)
    <3>1. FirstEvent(c) = "plain"
      BY <1>4 DEF FirstEvent, Plain
    <3>2. CASE c = "test"
      BY <3>1, <3>2, StartIs, TestFields DEF Fields, Quiet
    <3>3. CASE c = "compare"
      BY <3>1, <3>3, StartIs, CompareFields DEF Fields, Quiet
    <3>4. CASE c = "extract"
      BY <3>1, <3>4, StartIs, ExtractFields DEF Fields, Quiet
    <3>5. CASE c = "repair"
      BY <3>1, <3>5, StartIs, RepairFields DEF Fields, Quiet
    <3>6. CASE c = "isolate"
      BY <3>1, <3>6, StartIs, IsolateFields DEF Fields, Quiet
    <3>7. CASE c = "merge"
      BY <3>1, <3>7, StartIs, MergeFields DEF Fields, Quiet
    <3>8. CASE c = "slicing"
      BY <3>1, <3>8, StartIs, SlicingFields DEF Fields, Quiet
    <3> QED
      BY <1>4, <3>2, <3>3, <3>4, <3>5, <3>6, <3>7, <3>8 DEF Plain
  <2>2. Displays(c, s, t, Shown(c, s.v))
    <3>1. PICK f \in Fields(c) : f = FirstEvent(c) /\ f \notin Quiet(c)
      BY <2>1
    <3>2. Displays(c, s, OnEvent(c, s, f), IF f \in Quiet(c) THEN s.shown ELSE Shown(c, s.v))
      BY <1>2, <1>4, PlainEvents
    <3> QED
      BY <1>3, <3>1, <3>2
  <2>3. t \in States(c) /\ t.mute = s.mute /\ t.shown = Shown(c, t.v)
    BY <2>2 DEF Displays
  <2>4. t \in Coherent(c)
    BY <1>4, <2>3, PlainIs
  <2> QED
    BY <1>1, <1>2, <1>3, <1>4, <2>3, <2>4 DEF Sound, Plain
<1>5. CASE c = "create"
  <2>1. FirstEvent(c) = "plain" /\ "plain" \in Fields(c) /\ "plain" \notin CreateQuiet
    BY <1>5, StartIs, CreateFields DEF FirstEvent, Fields, CreateQuiet
  <2>2. t \in Coherent("create") /\ t.mute = s.mute
    <3>1. PICK f \in Fields("create") : f = FirstEvent(c) /\ f \notin CreateQuiet
      BY <1>5, <2>1
    <3>2. s \in States("create") /\ t = OnEvent("create", s, f)
      BY <1>2, <1>3, <1>5, <3>1
    <3>3. OnEvent("create", s, f) \in Coherent("create") /\ OnEvent("create", s, f).mute = s.mute
      BY <3>1, <3>2, CreateEvents
    <3> QED
      BY <3>2, <3>3
  <2> QED
    BY <1>1, <1>2, <1>3, <1>5, <2>2 DEF Sound, Coherent
<1>6. CASE c = "read"
  <2>1. FirstEvent(c) = "plain" /\ "plain" \in Fields(c)
    BY <1>6, StartIs, ReadFields DEF FirstEvent, Fields
  <2>2. t \in Coherent("read") /\ ~t.mute
    BY <1>2, <1>3, <1>6, <2>1, ReadEvents
  <2> QED
    BY <1>1, <1>3, <1>6, <2>2 DEF Sound, Coherent
<1>7. CASE c = "ciphering"
  <2>1. FirstEvent(c) = "cipher" /\ "cipher" \in Fields(c)
    BY <1>7, StartIs, CipheringFields DEF FirstEvent, Fields
  <2>2. t \in States(c) /\ t.mute = s.mute /\ IsCiphering(t) /\ EnoughShown(t)
    BY <1>2, <1>3, <1>7, <2>1, CipheringEvents
  <2> QED
    BY <1>1, <1>2, <1>3, <1>7, <2>2 DEF Sound, Still, Plain
<1>8. CASE c \in {"compr", "recompr"}
  <2>1. FirstEvent(c) = "algo"
    BY <1>8 DEF FirstEvent
  <2>2. t \in Coherent(c) /\ t.mute = s.mute
    <3>0. t = OnEvent(c, s, "algo")
      BY <1>3, <2>1
    <3>1. ~s.mute => OnEvent(c, s, "algo") \in Coherent(c) /\ OnEvent(c, s, "algo").mute = s.mute
      <4>0. s \in States(c)
        BY <1>2
      <4>1. CASE c = "compr"
        BY <4>0, <4>1, ComprEvents, ZenonT(60)
      <4>2. CASE c = "recompr"
        BY <4>0, <4>2, ComprEvents
      <4> QED
        BY <1>8, <4>1, <4>2
    <3> QED
      BY <1>2, <3>0, <3>1
  <2> QED
    BY <1>1, <1>2, <1>3, <1>8, <2>2 DEF Sound, Coherent, Still, Plain
<1>9. CASE c = "sig_block"
  <2>1. t = OnEvent("sig_block", s, "plain") /\ ~s.v.reversed
    BY <1>2, <1>3, <1>9, StartIs, SigFields DEF FirstEvent
  <2>2. t \in States(c) /\ t.mute = s.mute /\ t \in Coherent(c)
    BY <1>2, <1>9, <2>1, SigEvents
  <2> QED
    BY <1>1, <1>2, <1>3, <1>9, <2>2 DEF Sound, Still, Plain
<1> QED
  BY <1>4, <1>5, <1>6, <1>7, <1>8, <1>9 DEF ClassNames, Plain

LEMMA OptionsStarts == ASSUME OptionsInit PROVE OptionsInv
<1>1. class \in ClassNames
  BY ClassesAssumption DEF OptionsInit, ClassNames
<1>2. PICK s : s = OnEvent(class, NewForm(Start(class)), FirstEvent(class))
  OBVIOUS
<1>3. Sound(class, s, stored, torn)
  BY <1>1, <1>2, BuiltIsSound
<1>4. form = [s EXCEPT !.told = FALSE]
  BY <1>2 DEF OptionsInit
<1>5. Sound(class, form, stored, torn)
  BY <1>1, <1>3, <1>4, RestIsSound
<1>6. ASSUME stored # NoFile PROVE IsSaved(class, stored)
  <2>1. class = "compr" /\ stored = [ComprStart EXCEPT !.keep = TRUE]
    BY <1>6 DEF OptionsInit
  <2>2. DOMAIN stored = DOMAIN ComprStart
    BY <2>1 DEF ComprStart
  <2>3. Saved(class, stored) = DOMAIN ComprStart /\ Fields(class) = DOMAIN ComprStart
    BY <2>1, StartIs, ComprFields DEF Saved, ComprSaved, Fields
  <2>4. ComprStart \in Values("compr")
    BY StartIs, StartTyped DEF ClassNames
  <2>5. \A f \in DOMAIN ComprStart : ComprStart[f] \in Entries(f)
    BY <2>1, <2>3, <2>4 DEF Values
  <2>6. \A f \in DOMAIN stored : stored[f] \in Entries(f)
    BY <2>1, <2>2, <2>5, ComprFields
  <2> QED
    BY <2>2, <2>3, <2>6 DEF IsSaved
<1>7. DependenciesAreExact
  BY DEF OptionsInit, DependenciesAreExact
<1>8. torn \in BOOLEAN
  BY DEF OptionsInit
<1> QED
  BY <1>1, <1>5, <1>6, <1>7, <1>8 DEF OptionsInv
LEMMA FourAreEnough ==
    ASSUME NEW x \in 1..4, x >= 4, NEW kdf PROVE x >= FewestIterations(kdf)
BY DEF FewestIterations

LEMMA EditIsSound ==
    ASSUME NEW c \in ClassNames, NEW s, NEW k, NEW broken \in BOOLEAN, Sound(c, s, k, broken),
           NEW f \in (s.shown \ s.locked) \cap DOMAIN s.v, NEW x \in Entries(f), NEW p, p = <<f, x>>,
           f = "iterations" /\ "high minimum" \in s.shown => x >= 4
    PROVE  Sound(c, Assign(c, s, p), k, broken)
<1>1. s \in States(c) /\ (c # "merge" => ~s.mute)
  BY DEF Sound
<1>2. DOMAIN s.v = Fields(c)
  BY <1>1 DEF States, Values
<1>3. p \in Pairs(c) /\ p[1] = f /\ p[2] = x
  BY <1>2, PairIs
<1>4. PICK t : t = Assign(c, s, p)
  OBVIOUS
<1>5. t \in States(c) /\ (c # "merge" => ~t.mute)
  BY <1>1, <1>3, <1>4, AssignTyped, AssignAwake
<1>6. CASE c \in Still
  <2>1. t \in Coherent(c)
    BY <1>3, <1>4, <1>6, StillAssign DEF Sound
  <2> QED
    BY <1>4, <1>5, <1>6, <2>1 DEF Sound, Still, Plain
<1>7. CASE c \in {"compr", "recompr"}
  <2>1. ASSUME ~broken PROVE t \in Coherent(c)
    <3>1. s \in Coherent(c) /\ ~s.mute
      BY <1>1, <1>7, <2>1 DEF Sound
    <3>2. p[1] = "threads" => s.v.keep \/ s.v.block \/ p[2] = FALSE
      <4> SUFFICES ASSUME p[1] = "threads", ~s.v.block PROVE FALSE
        OBVIOUS
      <4>1. Locked(c, s.v) = {"threads"}
        BY <1>7 DEF Locked, ComprLocked
      <4>2. s.locked \cap s.shown = Locked(c, s.v) \cap s.shown
        BY <3>1 DEF Coherent
      <4> QED
        BY <1>3, <4>1, <4>2
    <3>3. CASE c = "compr"
      BY <1>1, <1>3, <1>4, <3>1, <3>2, <3>3, ComprAssign
    <3>4. CASE c = "recompr"
      BY <1>1, <1>3, <1>4, <3>1, <3>2, <3>4, ComprAssign
    <3> QED
      BY <1>7, <3>3, <3>4
  <2> QED
    BY <1>4, <1>5, <1>7, <2>1 DEF Sound, Still, Plain
<1>8. CASE c = "sig_block"
  <2>1. ASSUME ~broken PROVE t.v.reversed \/ t \in Coherent(c)
    <3>1. s.v.reversed \/ s \in Coherent("sig_block")
      BY <1>8, <2>1 DEF Sound
    <3> QED
      BY <1>1, <1>3, <1>4, <1>8, <3>1, SigAssign
  <2> QED
    BY <1>4, <1>5, <1>8, <2>1 DEF Sound, Still, Plain
<1>9. CASE c = "ciphering"
  <2>0. s \in States("ciphering") /\ p \in Pairs("ciphering") /\ t = Assign("ciphering", s, p)
    BY <1>1, <1>3, <1>4, <1>9
  <2>1. ASSUME ~broken PROVE IsCiphering(t)
    <3>1. ~s.mute /\ IsCiphering(s)
      BY <1>1, <1>9, <2>1 DEF Sound
    <3> QED
      BY <2>0, <3>1, CipheringStep
  <2>2. ASSUME EnoughShown(s) PROVE EnoughShown(t)
    <3>1. ~s.mute
      BY <1>1, <1>9
    <3>2. p[1] = "iterations" /\ "high minimum" \in s.shown => p[2] >= FewestIterations(s.v.kdf)
      <4> SUFFICES ASSUME p[1] = "iterations", "high minimum" \in s.shown
                   PROVE  p[2] >= FewestIterations(s.v.kdf)
        OBVIOUS
      <4>1. x \in 1..4
        BY <1>3, EntriesAre
      <4>2. x >= 4
        BY <1>3
      <4>3. x >= FewestIterations(s.v.kdf)
        BY <4>1, <4>2, FourAreEnough
      <4> QED
        BY <1>3, <4>3
    <3> QED
      BY <2>0, <2>2, <3>1, <3>2, CipheringAssign
  <2>3. ASSUME ~broken PROVE TooFew(k) \/ EnoughShown(t)
    BY <1>9, <2>2, <2>3 DEF Sound
  <2> QED
    BY <1>4, <1>5, <1>9, <2>1, <2>3 DEF Sound, Still, Plain
<1> QED
  BY <1>6, <1>7, <1>8, <1>9 DEF ClassNames, Still, Plain

(* What is saved of a sound form, and the form once it is saved.             *)
LEMMA SaveIsSound ==
    ASSUME NEW c \in ClassNames, NEW s, NEW k, NEW broken \in BOOLEAN, Sound(c, s, k, broken),
           NEW t, t = AssignAll(c, s, Forgets(c, s.v)),
           NEW w, w = [f \in Saved(c, s.v) |-> t.v[f]]
    PROVE  /\ Sound(c, t, w, broken) /\ IsSaved(c, w)
           /\ \A f \in DOMAIN Guichets(c) \ {"recompr", "ref_entrep"} :
                 f \in {g \in Uses(c) : t.v[g] = "lib"} <=> f \in DOMAIN w /\ w[f] = "lib"
<1>1. s \in States(c) /\ (c # "merge" => ~s.mute) /\ s.v \in Values(c)
  BY StateIs DEF Sound
<1>2. Kept(c, s, t)
  BY <1>1, SavingIs
<1>3. t \in States(c) /\ t.v \in Values(c) /\ (c # "merge" => ~t.mute)
  BY <1>1, <1>2, StateIs DEF Kept
<1>4. PICK D : D = Saved(c, s.v)
  OBVIOUS
<1>5. D \subseteq Fields(c) /\ DOMAIN w = D /\ \A f \in D : w[f] = t.v[f]
  BY <1>4, SavedFields
<1>6. IsSaved(c, w)
  <2>1. \A g \in D \ Forgettable : s.v[g] = w[g]
    BY <1>2, <1>5 DEF Kept
  <2>2. Saved(c, w) = D
    BY <1>1, <1>4, <2>1, SavedSame
  <2>3. \A f \in Fields(c) : t.v[f] \in Entries(f)
    BY <1>3 DEF Values
  <2> QED
    BY <1>5, <2>2, <2>3 DEF IsSaved
<1>7. \A f \in DOMAIN Guichets(c) \ {"recompr", "ref_entrep"} :
          f \in {g \in Uses(c) : t.v[g] = "lib"} <=> f \in DOMAIN w /\ w[f] = "lib"
  <2> SUFFICES ASSUME NEW f \in DOMAIN Guichets(c) \ {"recompr", "ref_entrep"}
               PROVE  t.v[f] = "lib" <=> f \in D /\ t.v[f] = "lib"
    BY <1>2, <1>5 DEF Kept
  <2>1. f \notin D => t.v[f] = "none"
    BY <1>2, <1>4 DEF Kept
  <2> QED
    BY <2>1
<1>8. CASE c \in Still
  BY <1>2, <1>3, <1>6, <1>7, <1>8 DEF Sound, Kept, Still, Plain
<1>9. CASE c \notin Still
  <2>1. t = s
    BY <1>2, <1>9 DEF Kept, Still, Plain
  <2>2. CASE c = "ciphering"
    <3>1. ASSUME ~EnoughShown(t) PROVE TooFew(w)
      <4>1. D = CipheringSaved
        BY <1>4, <2>2 DEF Saved
      <4>2. w.iterations = t.v.iterations /\ w.kdf = t.v.kdf
        BY <1>5, <4>1 DEF CipheringSaved
      <4>3. t.v.iterations \in 1..4
        BY <1>3, <2>2, StartIs, CipheringFields DEF Values, Fields
      <4>4. FewestIterations(w.kdf) \in {2, 4}
        BY DEF FewestIterations
      <4>5. ~(t.v.iterations >= FewestIterations(t.v.kdf))
        BY <3>1 DEF EnoughShown
      <4>6. w.iterations < FewestIterations(w.kdf)
        BY <4>2, <4>3, <4>4, <4>5
      <4>7. w # NoFile
        <5>1. DOMAIN w # {}
          BY <1>5, <4>1 DEF CipheringSaved
        <5>2. DOMAIN NoFile = {}
          BY DEF NoFile
        <5> QED
          BY <5>1, <5>2
      <4> QED
        BY <4>6, <4>7 DEF TooFew
    <3> QED
      BY <1>3, <1>6, <1>7, <1>9, <2>1, <2>2, <3>1 DEF Sound
  <2>3. CASE c # "ciphering"
    BY <1>3, <1>6, <1>7, <1>9, <2>1, <2>3 DEF Sound
  <2> QED
    BY <2>2, <2>3
<1> QED
  BY <1>8, <1>9

LEMMA LoadIsSound ==
    ASSUME NEW c \in ClassNames, NEW s, NEW k, NEW broken, Sound(c, s, k, broken),
           IsSaved(c, k), k # NoFile
    PROVE  Sound(c, Loaded(c, s, k), k, FALSE)
<1>1. s \in States(c)
  BY DEF Sound
<1>2. PICK t : t = Loaded(c, s, k)
  OBVIOUS
<1>3. /\ t \in States(c) /\ ~t.mute
      /\ c \in Still /\ s \in Coherent(c) => t \in Coherent(c)
      /\ c \in {"compr", "recompr"} => t \in Coherent(c)
      /\ c = "sig_block" => t.v.reversed \/ t \in Coherent(c)
      /\ c = "ciphering" =>
           IsCiphering(t) /\ (k.iterations >= FewestIterations(k.kdf) => EnoughShown(t))
  BY <1>1, <1>2, LoadedSettles
<1>4. ASSUME c = "ciphering" PROVE TooFew(k) \/ EnoughShown(t)
  <2>1. "iterations" \in DOMAIN k
    BY <1>4 DEF IsSaved, Saved, CipheringSaved
  <2>2. k.iterations \in 1..4
    BY <2>1, EntriesAre DEF IsSaved
  <2>3. FewestIterations(k.kdf) \in {2, 4}
    BY DEF FewestIterations
  <2>4. k.iterations >= FewestIterations(k.kdf) \/ k.iterations < FewestIterations(k.kdf)
    BY <2>2, <2>3
  <2> QED
    BY <1>3, <1>4, <2>4 DEF TooFew
<1> QED
  BY <1>2, <1>3, <1>4 DEF Sound

(* A load that stops leaves the form broken, until it is refreshed.          *)
LEMMA StopIsSound ==
    ASSUME NEW c \in ClassNames, NEW s, NEW k, NEW broken, Sound(c, s, k, broken),
           NEW pairs \in Seq(Pairs(c)), NEW t,
           t = [Loading(c, s, pairs) EXCEPT !.mute = FALSE]
    PROVE  Sound(c, t, k, TRUE)
<1>1. s \in States(c)
  BY DEF Sound
<1>2. /\ t \in States(c) /\ ~t.mute
      /\ c \in Still /\ s \in Coherent(c) => t \in Coherent(c)
  BY <1>1, LoadingIs
<1> QED
  BY <1>2 DEF Sound

LEMMA RenewedIsSound ==
    ASSUME NEW c \in ClassNames, NEW s, NEW k, NEW broken \in BOOLEAN, Sound(c, s, k, broken),
           NEW t, Renewed(c, s, t)
    PROVE  /\ Sound(c, t, k, broken /\ c = "ciphering")
           /\ c # "ciphering" \/ IsCiphering(t) => Sound(c, t, k, FALSE)
BY DEF Sound, Renewed
LEMMA OptionsKept ==
    ASSUME OptionsInv, [OptionsNext]_options
    PROVE  OptionsInv'
<1>0. /\ class \in ClassNames /\ torn \in BOOLEAN /\ Sound(class, form, stored, torn)
      /\ stored # NoFile => IsSaved(class, stored)
  BY DEF OptionsInv
<1>1. PICK r : r = AtRest
  OBVIOUS
<1>2. /\ Sound(class, r, stored, torn)
      /\ r.v = form.v /\ r.shown = form.shown /\ r.locked = form.locked
  <2>1. r = [form EXCEPT !.told = FALSE]
    BY <1>1 DEF AtRest
  <2> QED
    BY <1>0, <2>1, RestIsSound
<1>3. r \in States(class) /\ (class # "merge" => ~r.mute)
  BY <1>2 DEF Sound
<1>4. ASSUME class' = class, torn' \in BOOLEAN, Sound(class, form', stored', torn'),
             stored' # NoFile => IsSaved(class, stored'), DependenciesAreExact'
      PROVE  OptionsInv'
  BY <1>0, <1>4 DEF OptionsInv, NoFile
<1>5. ASSUME op'.name # "save" PROVE DependenciesAreExact'
  BY <1>5 DEF DependenciesAreExact
<1>6. CASE EditOption
  <2>0. PICK f \in (form.shown \ form.locked) \cap DOMAIN form.v :
          \E x \in Entries(f) \ {form.v[f]} :
              /\ f = "iterations" => x >= IF "high minimum" \in form.shown THEN 4 ELSE 2
              /\ Do("edit", f) /\ form' = Assign(class, AtRest, <<f, x>>)
              /\ UNCHANGED <<stored, used, torn>>
    BY <1>6 DEF EditOption
  <2>1. PICK x \in Entries(f) :
              /\ f = "iterations" => x >= IF "high minimum" \in form.shown THEN 4 ELSE 2
              /\ Do("edit", f) /\ form' = Assign(class, AtRest, <<f, x>>)
              /\ UNCHANGED <<stored, used, torn>>
    BY <2>0
  <2>2. PICK p : p = <<f, x>>
    OBVIOUS
  <2>3. f \in (r.shown \ r.locked) \cap DOMAIN r.v
    BY <1>2
  <2>4. f = "iterations" /\ "high minimum" \in r.shown => x >= 4
    BY <1>2, <2>1
  <2>5. Sound(class, Assign(class, r, p), stored, torn)
    BY <1>0, <1>2, <2>2, <2>3, <2>4, EditIsSound
  <2>6. form' = Assign(class, r, p)
    BY <1>1, <2>1, <2>2
  <2>7. op'.name # "save" /\ class' = class
    BY <2>1 DEF Do
  <2> QED
    BY <1>0, <1>4, <1>5, <2>1, <2>5, <2>6, <2>7
<1>7. CASE SaveOptions
  <2>1. PICK t : t = AssignAll(class, r, Forgets(class, r.v))
    OBVIOUS
  <2>2. PICK w : w = [f \in Saved(class, r.v) |-> t.v[f]]
    OBVIOUS
  <2>3. /\ Sound(class, t, w, torn) /\ IsSaved(class, w)
        /\ \A f \in DOMAIN Guichets(class) \ {"recompr", "ref_entrep"} :
              f \in {g \in Uses(class) : t.v[g] = "lib"} <=> f \in DOMAIN w /\ w[f] = "lib"
    BY <1>0, <1>2, <2>1, <2>2, SaveIsSound
  <2>4. /\ form' = t /\ stored' = w /\ used' = {g \in Uses(class) : t.v[g] = "lib"}
        /\ torn' = torn /\ class' = class
    BY <1>1, <1>2, <1>7, <2>1, <2>2 DEF SaveOptions, Do
  <2>5. DependenciesAreExact'
    BY <2>3, <2>4 DEF DependenciesAreExact
  <2> QED
    BY <1>0, <1>4, <2>3, <2>4, <2>5
<1>8. CASE LoadOptions
  <2>1. /\ stored # NoFile /\ form' = Loaded(class, r, stored) /\ torn' = FALSE /\ stored' = stored
        /\ op'.name # "save" /\ class' = class
    BY <1>1, <1>8 DEF LoadOptions, Do
  <2>2. Sound(class, Loaded(class, r, stored), stored, FALSE)
    BY <1>0, <1>2, <2>1, LoadIsSound
  <2> QED
    BY <1>0, <1>4, <1>5, <2>1, <2>2
<1>9. CASE LoadStops
  <2>1. /\ stored # NoFile /\ torn' = TRUE /\ stored' = stored
    BY <1>9 DEF LoadStops
  <2>2. PICK pairs : pairs = LoadOf(class, stored)
    OBVIOUS
  <2>3. PICK i \in 1..Len(pairs) :
              /\ Do("failed", pairs[i][1])
              /\ form' = [Loading(class, AtRest, SubSeq(pairs, 1, i - 1)) EXCEPT !.mute = FALSE]
    BY <1>9, <2>2 DEF LoadStops
  <2>4. pairs \in Seq(Pairs(class))
    BY <1>0, <2>1, <2>2, LoadTyped
  <2>5. PICK q \in Seq(Pairs(class)) : q = SubSeq(pairs, 1, i - 1)
    <3>1. \A j \in 1..(i - 1) : pairs[j] \in Pairs(class)
      BY <2>3, <2>4
    <3>2. i - 1 \in Int
      BY <2>3, <2>4
    <3>3. PICK m \in Int : m = i - 1
      BY <3>2
    <3>4. \A j \in 1..m : pairs[j] \in Pairs(class)
      BY <3>1, <3>3
    <3>5. SubSeq(pairs, 1, m) \in Seq(Pairs(class))
      BY <3>4, SubSeqProperties
    <3> QED
      BY <3>3, <3>5
  <2>6. form' = [Loading(class, r, q) EXCEPT !.mute = FALSE]
    BY <1>1, <2>3, <2>5
  <2>7. Sound(class, form', stored, TRUE)
    BY <1>0, <1>2, <2>6, StopIsSound
  <2>8. op'.name # "save" /\ class' = class
    BY <2>3 DEF Do
  <2> QED
    BY <1>0, <1>4, <1>5, <2>1, <2>7, <2>8
<1>10. CASE LoadRefused
  <2>1. /\ stored # NoFile /\ Unfit(class, stored) /\ torn' = TRUE /\ stored' = stored
        /\ op'.name # "save" /\ class' = class
    BY <1>10 DEF LoadRefused, Do
  <2>2. class \in {"sig_block", "compr"}
    BY <2>1 DEF Unfit
  <2>3. PICK pairs \in Seq(Pairs(class)) : pairs = LoadOf(class, stored)
    BY <1>0, <2>1, LoadTyped
  <2>4. PICK s : s = [Loading(class, r, pairs) EXCEPT !.mute = FALSE]
    OBVIOUS
  <2>5. s \in States(class) /\ ~s.mute
    BY <1>0, <1>3, <2>4, LoadingIs
  <2>6. form' = IF class = "compr"
                THEN [AssignAll(class, [s EXCEPT !.mute = TRUE], ClearOf(class, s.v))
                         EXCEPT !.mute = FALSE]
                ELSE Finish(class, s)
    BY <1>1, <1>10, <2>3, <2>4 DEF LoadRefused
  <2>7. form' \in States(class) /\ ~form'.mute
    <3>1. CASE class = "compr"
      <4>1. PICK u : u = [s EXCEPT !.mute = TRUE]
        OBVIOUS
      <4>2. u \in States(class)
        <5>1. SameBut(class, s, [s EXCEPT !.mute = TRUE])
          BY <2>5, WithFlags
        <5> QED
          BY <4>1, <5>1 DEF SameBut
      <4>3. PICK given \in Seq(Pairs(class)) : given = ClearOf(class, s.v)
        BY <1>0, <2>5, StateIs, ClearTyped
      <4>4. PICK w : w = AssignAll(class, u, given)
        OBVIOUS
      <4>5. w \in States(class)
        BY <1>0, <4>2, <4>4, AssignAllTyped
      <4>6. SameBut(class, w, [w EXCEPT !.mute = FALSE]) /\ [w EXCEPT !.mute = FALSE].mute = FALSE
        BY <4>5, WithFlags
      <4>7. form' = [w EXCEPT !.mute = FALSE]
        BY <2>6, <3>1, <4>1, <4>3, <4>4
      <4> QED
        BY <4>6, <4>7 DEF SameBut
    <3>2. CASE class # "compr"
      <4>1. Settles(class, s, Finish(class, s))
        BY <1>0, <2>5, FinishSettles
      <4> QED
        BY <2>6, <3>2, <4>1 DEF Settles
    <3> QED
      BY <3>1, <3>2
  <2>8. Sound(class, form', stored, TRUE)
    BY <2>2, <2>7 DEF Sound, Still, Plain
  <2> QED
    BY <1>0, <1>4, <1>5, <2>1, <2>8
<1>11. CASE ClearOptions
  <2>1. /\ form' = Cleared(class, r) /\ torn' = (torn /\ class = "ciphering") /\ stored' = stored
        /\ op'.name # "save" /\ class' = class
    BY <1>1, <1>11 DEF ClearOptions, Do
  <2>2. Renewed(class, r, Cleared(class, r))
    BY <1>0, <1>3, ClearedIs
  <2>3. Sound(class, Cleared(class, r), stored, torn /\ class = "ciphering")
    BY <1>0, <1>2, <2>2, RenewedIsSound
  <2>4. Sound(class, form', stored, torn')
    BY <2>1, <2>3
  <2>5. torn' \in BOOLEAN
    BY <2>1
  <2> QED
    BY <1>0, <1>4, <1>5, <2>1, <2>4, <2>5
<1>12. CASE SetToWebdarDefaults
  <2>1. /\ form' = Defaulted(class, r) /\ torn' = FALSE /\ stored' = stored
        /\ op'.name # "save" /\ class' = class
    BY <1>1, <1>12 DEF SetToWebdarDefaults, Do
  <2>2. PICK t : t = Defaulted(class, r)
    OBVIOUS
  <2>3. Renewed(class, r, t) /\ (class = "ciphering" => IsCiphering(t))
    BY <1>0, <1>3, <2>2, DefaultedIs
  <2>4. Sound(class, t, stored, FALSE)
    BY <1>0, <1>2, <2>3, RenewedIsSound
  <2> QED
    BY <1>0, <1>4, <1>5, <2>1, <2>2, <2>4
<1>13. CASE UNCHANGED options
  <2>1. /\ class' = class /\ form' = form /\ stored' = stored /\ torn' = torn
        /\ used' = used /\ op' = op
    BY <1>13 DEF options
  <2>2. DependenciesAreExact'
    BY <2>1 DEF OptionsInv, DependenciesAreExact
  <2> QED
    BY <1>0, <1>4, <2>1, <2>2
<1> QED
  BY <1>6, <1>7, <1>8, <1>9, <1>10, <1>11, <1>12, <1>13 DEF OptionsNext
LEMMA SoundIsCoherent == ASSUME OptionsInv PROVE FormIsCoherent
<1>0. class \in ClassNames /\ Sound(class, form, stored, torn)
  BY DEF OptionsInv
<1>1. form \in States(class) /\ form.locked \in SUBSET Lockable(class)
  BY <1>0, StateIs DEF Sound
<1> SUFFICES ASSUME ~torn, ~(class = "sig_block" /\ form.v.reversed)
             PROVE  /\ form.shown \ {"high minimum"} = Shown(class, form.v) \ {"high minimum"}
                    /\ form.locked \cap Shown(class, form.v)
                          = Locked(class, form.v) \cap Shown(class, form.v)
                    /\ Imposed(class, form.v, form.shown)
  BY DEF FormIsCoherent
<1>2. CASE class # "ciphering"
  <2>1. form \in Coherent(class)
    BY <1>0, <1>2 DEF Sound, ClassNames, Still, Plain
  <2>2. /\ form.shown = Shown(class, form.v)
        /\ form.locked \cap form.shown = Locked(class, form.v) \cap form.shown
        /\ Agree(class, form.v)
    BY <2>1 DEF Coherent
  <2>3. Imposed(class, form.v, form.shown)
    BY <1>2, <2>2 DEF Agree, Imposed
  <2> QED
    BY <2>2, <2>3
<1>3. CASE class = "ciphering"
  <2>1. IsCiphering(form) /\ (TooFew(stored) \/ EnoughShown(form))
    BY <1>0, <1>3 DEF Sound
  <2>2. form.locked = {} /\ Locked(class, form.v) = {}
    BY <1>1, <1>3 DEF Lockable, Locked
  <2>3. Shown(class, form.v) = CipheringShown(form.v) \cup CipheringBound(form.v.kdf)
    BY <1>3 DEF Shown
  <2>4. CipheringBound(form.v.kdf) \subseteq {"high minimum"}
    BY DEF CipheringBound
  <2>5. "high minimum" \notin CipheringShown(form.v)
    BY DEF CipheringShown
  <2>6. form.shown \ {"high minimum"} = Shown(class, form.v) \ {"high minimum"}
    BY <2>1, <2>3, <2>4, <2>5 DEF IsCiphering
  <2>7. Imposed(class, form.v, form.shown)
    BY <1>3, <2>1 DEF Imposed, EnoughShown
  <2> QED
    BY <2>2, <2>6, <2>7
<1> QED
  BY <1>2, <1>3

(* What get_options reads of a form, against what it displays.               *)
LEMMA ReadsAreShown ==
    ASSUME NEW c \in ClassNames, NEW v \in Values(c)
    PROVE  /\ Reads(c, v) \ (Shown(c, v) \cap DOMAIN v) \subseteq Unseen(c)
           /\ (Shown(c, v) \cap DOMAIN v) \ Reads(c, v) \subseteq Unpassed(c)
<1>0. DOMAIN v = Fields(c)
  BY DEF Values
<1>1. CASE c = "test"
  <2>1. Shown(c, v) = TestShown(v) /\ Reads(c, v) = TestReads(v)
    BY <1>1 DEF Shown, Reads
  <2>2. DOMAIN v = DOMAIN TestStart
    BY <1>0, <1>1, StartIs DEF Fields
  <2> QED
    BY <1>1, <2>1, <2>2, TestFields
       DEF TestShown, TestReads, Unseen, Unpassed, TreatedShown
<1>2. CASE c = "compare"
  <2>1. Shown(c, v) = CompareShown(v) /\ Reads(c, v) = CompareReads(v)
    BY <1>2 DEF Shown, Reads
  <2>2. DOMAIN v = DOMAIN CompareStart
    BY <1>0, <1>2, StartIs DEF Fields
  <2> QED
    BY <1>2, <2>1, <2>2, CompareFields
       DEF CompareShown, CompareReads, Unseen, Unpassed, TreatedShown
<1>3. CASE c = "extract"
  <2>1. Shown(c, v) = ExtractShown(v) /\ Reads(c, v) = ExtractReads(v)
    BY <1>3 DEF Shown, Reads
  <2>2. DOMAIN v = DOMAIN ExtractStart
    BY <1>0, <1>3, StartIs DEF Fields
  <2> QED
    BY <1>3, <2>1, <2>2, ExtractFields
       DEF ExtractShown, ExtractReads, Unseen, Unpassed, TreatedShown
<1>4. CASE c = "repair"
  <2>1. Shown(c, v) = RepairShown(v) /\ Reads(c, v) = RepairReads(v)
    BY <1>4 DEF Shown, Reads
  <2>2. DOMAIN v = DOMAIN RepairStart
    BY <1>0, <1>4, StartIs DEF Fields
  <2> QED
    BY <1>4, <2>1, <2>2, RepairFields
       DEF RepairShown, RepairReads, Unseen, Unpassed, TreatedShown
<1>5. CASE c = "isolate"
  <2>1. Shown(c, v) = IsolateShown(v) /\ Reads(c, v) = IsolateReads(v)
    BY <1>5 DEF Shown, Reads
  <2>2. DOMAIN v = DOMAIN IsolateStart
    BY <1>0, <1>5, StartIs DEF Fields
  <2> QED
    BY <1>5, <2>1, <2>2, IsolateFields
       DEF IsolateShown, IsolateReads, Unseen, Unpassed
<1>6. CASE c = "create"
  <2>1. Shown(c, v) = CreateShown(v) /\ Reads(c, v) = CreateReads(v)
    BY <1>6 DEF Shown, Reads
  <2>2. DOMAIN v = DOMAIN CreateStart
    BY <1>0, <1>6, StartIs DEF Fields
  <2> QED
    BY <1>6, <2>1, <2>2, CreateFields
       DEF CreateShown, CreateReads, Unseen, Unpassed, OnDiff, OnDate, TreatedShown
<1>7. CASE c = "merge"
  <2>1. Shown(c, v) = MergeShown(v) /\ Reads(c, v) = MergeReads(v)
    BY <1>7 DEF Shown, Reads
  <2>2. DOMAIN v = DOMAIN MergeStart
    BY <1>0, <1>7, StartIs DEF Fields
  <2> QED
    BY <1>7, <2>1, <2>2, MergeFields
       DEF MergeShown, MergeReads, Unseen, Unpassed, OnCompute, TreatedShown
<1>8. CASE c = "read"
  <2>1. Shown(c, v) = ReadShown(v) /\ Reads(c, v) = ReadReads(v)
    BY <1>8 DEF Shown, Reads
  <2>2. DOMAIN v = DOMAIN ReadStart
    BY <1>0, <1>8, StartIs DEF Fields
  <2> QED
    BY <1>8, <2>1, <2>2, ReadFields
       DEF ReadShown, ReadReads, Unseen, Unpassed
<1>9. CASE c = "slicing"
  <2>1. Shown(c, v) = SlicingShown(v) /\ Reads(c, v) = SlicingReads(v)
    BY <1>9 DEF Shown, Reads
  <2>2. DOMAIN v = DOMAIN SlicingStart
    BY <1>0, <1>9, StartIs DEF Fields
  <2> QED
    BY <1>9, <2>1, <2>2, SlicingFields
       DEF SlicingShown, SlicingReads, Unseen, Unpassed
<1>10. CASE c = "ciphering"
  <2>1. Shown(c, v) = CipheringShown(v) \cup CipheringBound(v.kdf) /\ Reads(c, v) = CipheringReads(v)
    BY <1>10 DEF Shown, Reads
  <2>2. DOMAIN v = DOMAIN CipheringStart
    BY <1>0, <1>10, StartIs DEF Fields
  <2> QED
    BY <1>10, <2>1, <2>2, CipheringFields
       DEF CipheringShown, CipheringReads, Unseen, Unpassed, Symmetric, Asymmetric, CipheringBound
<1>11. CASE c = "compr"
  <2>1. Shown(c, v) = ComprShown(c, v) /\ Reads(c, v) = ComprReads(c, v)
    BY <1>11 DEF Shown, Reads
  <2>2. DOMAIN v = DOMAIN ComprStart
    BY <1>0, <1>11, StartIs DEF Fields
  <2> QED
    BY <1>11, <2>1, <2>2, ComprFields
       DEF ComprShown, ComprReads, Unseen, Unpassed
<1>12. CASE c = "recompr"
  <2>1. Shown(c, v) = ComprShown(c, v) /\ Reads(c, v) = ComprReads(c, v)
    BY <1>12 DEF Shown, Reads
  <2>2. DOMAIN v = DOMAIN ComprStart
    BY <1>0, <1>12, StartIs DEF Fields
  <2> QED
    BY <1>12, <2>1, <2>2, ComprFields
       DEF ComprShown, ComprReads, Unseen, Unpassed
<1>13. CASE c = "sig_block"
  <2>1. Shown(c, v) = SigShown(v) /\ Reads(c, v) = SigReads(v)
    BY <1>13 DEF Shown, Reads
  <2>2. DOMAIN v = DOMAIN SigStart
    BY <1>0, <1>13, StartIs DEF Fields
  <2> QED
    BY <1>13, <2>1, <2>2, SigFields
       DEF SigShown, SigReads, Unseen, Unpassed
<1> QED
  BY <1>1, <1>2, <1>3, <1>4, <1>5, <1>6, <1>7, <1>8, <1>9, <1>10, <1>11, <1>12, <1>13 DEF ClassNames

LEMMA SoundIsUsed == ASSUME OptionsInv PROVE WhatIsShownIsUsed
<1>1. class \in ClassNames /\ form.v \in Values(class)
  BY StateIs DEF OptionsInv, Sound
<1> QED
  BY <1>1, ReadsAreShown DEF WhatIsShownIsUsed

(* Whatever is done to a form of options, in any order and any number of     *)
(* times, its state is that of its class, what it has saved can be loaded    *)
(* and it is coherent but for what the comments of OptionsInv say.           *)
THEOREM OptionsInductive == OptionsSpec => []OptionsInv
<1>1. OptionsInit => OptionsInv
  BY OptionsStarts
<1>2. OptionsInv /\ [OptionsNext]_options => OptionsInv'
  BY OptionsKept
<1> QED
  BY <1>1, <1>2, PTL DEF OptionsSpec

(* A form of options that was built, edited, loaded, cleared or reset any    *)
(* number of times, in any order, displays and locks what its values ask     *)
(* for, and its values agree with one another.                               *)
THEOREM FormsStayCoherent == OptionsSpec => []FormIsCoherent
<1>1. OptionsInv => FormIsCoherent
  BY SoundIsCoherent
<1> QED
  BY <1>1, OptionsInductive, PTL

(* The configurations that a form is recorded to use, when it is saved, are  *)
(* those that the saved form names.                                          *)
THEOREM DependenciesAreThoseSaved == OptionsSpec => []DependenciesAreExact
<1>1. OptionsInv => DependenciesAreExact
  BY DEF OptionsInv
<1> QED
  BY <1>1, OptionsInductive, PTL

(* libdar is given what the user sees of a form and nothing else, but for    *)
(* the fields that Unseen and Unpassed name.                                 *)
THEOREM OptionsAreThoseShown == OptionsSpec => []WhatIsShownIsUsed
<1>1. OptionsInv => WhatIsShownIsUsed
  BY SoundIsUsed
<1> QED
  BY <1>1, OptionsInductive, PTL
=============================================================================
