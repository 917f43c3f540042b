------------------------------ MODULE Library ------------------------------
(* The configurations a user keeps under a name: class bibliotheque, and the *)
(* components that fill and use it, each run to its end by the server thread *)
(* that answers a request of the session.                                    *)
(*   - html_bibliotheque: saves, loads, uploads and clears the whole library,*)
(*     behind a confirmation (html_yes_no_box);                              *)
(*   - one arriere_boutique per category, in the Configure pages: it edits,  *)
(*     saves, loads and deletes the configurations of its category;          *)
(*   - the guichets of the other pages, called wickets here: each uses a     *)
(*     configuration of the library or a manual one, which it can save.      *)
(* The component that a boutique or a wicket shows may itself hold guichets, *)
(* which select the configurations it relies on. This is all a configuration *)
(* is here: the set of the configurations it selects.                        *)
EXTENDS Naturals, FiniteSets

CONSTANTS
    Categories,   \* bibliotheque::category
    Coordinates,  \* bound: the coordinates that may be used, of two fields
    Relies,       \* the categories that a component of a category may select in
    Wickets,      \* the guichets out of the Configure pages
    CategoryOf,   \* the category of each of them
    MaxLines,     \* bound: the configurations a component selects at a time
    None, Absent, Foreign, Bare

ASSUME LibraryAssumption ==
    /\ IsFiniteSet(Coordinates)
    /\ \A c \in Coordinates : c.cat \in Categories
    /\ Relies \in [Categories -> SUBSET Categories]
    /\ CategoryOf \in [Wickets -> Categories]
    /\ \A k \in Categories : \A j \in Relies[k] : Relies[j] \subseteq {j}
    /\ MaxLines \in Nat
    /\ None \notin Coordinates
    /\ Categories \cap Wickets = {}
    /\ \A w \in Wickets : <<w>> \notin Categories \cup Wickets

VARIABLES
    content,   \* bibliotheque::content, a function on the stored coordinates
    intact,    \* whether content has an entry for each category
    outside,   \* bibliotheque::outside, the holders that lock a configuration
    saved,     \* bibliotheque::saved
    autosave,  \* html_bibliotheque::autosave, the box that decides
    file,      \* the file of the configurations
    selected,  \* what the guichets of each holder select, and lock
    listing,   \* the names that the lists of a category show
    listed,    \* arriere_boutique::listing, the name selected in it
    loaded,    \* arriere_boutique::currently_loaded
    context,   \* html_bibliotheque::q_context
    asked      \* whether html_bibliotheque::question is shown

vars == <<content, intact, outside, saved, autosave, file, selected, listing,
          listed, loaded, context, asked>>

(* A wicket selects one configuration at most; the guichets of the component *)
(* that a boutique or a wicket shows are its form, of any number of lines.   *)
(* The form of a boutique is named by the category.                          *)
FormOf(w) == <<w>>

Forms == Categories \cup {FormOf(w) : w \in Wickets}

Holders == Wickets \cup Forms

(* A guichet of a holder together with the configuration it selects.         *)
Selections == Holders \X Coordinates

Init ==
    /\ content = <<>>
    /\ intact = TRUE
    /\ outside = [c \in Coordinates |-> {}]
    /\ saved = TRUE
    /\ autosave = TRUE
    /\ file = Absent
    /\ selected = [x \in Holders |-> {}]
    /\ listing = [k \in Categories |-> {}]
    /\ listed = [k \in Categories |-> None]
    /\ loaded = [k \in Categories |-> None]
    /\ context = "undefined"
    /\ asked = FALSE

-----------------------------------------------------------------------------
(* What S reaches when next is followed any number of times: the least set   *)
(* that holds S and all that next gives for its members.                     *)
IsClosed(next, T) == \A c \in T \cap DOMAIN next : next[c] \subseteq T

Closure(next, S) ==
    {c \in Coordinates :
        \A T \in SUBSET Coordinates : S \subseteq T /\ IsClosed(next, T) => c \in T}

AddDependencies(lib, user, refs) ==
    [c \in DOMAIN lib |->
        IF c \in refs
        THEN [lib[c] EXCEPT !.dependency = @ \cup {user}] ELSE lib[c]]

RemoveDependencies(lib, user) ==
    [c \in DOMAIN lib |-> [lib[c] EXCEPT !.dependency = @ \ {user}]]

(* get_direct_dependencies_of, for every configuration.                      *)
DirectDependencies(lib) ==
    [user \in Coordinates |->
        {c \in DOMAIN lib : user \in lib[c].dependency}]

(* Mutant: source itself is not looked at.                                   *)
IsCyclicAfterSource(lib, source) ==
    LET next == DirectDependencies(lib)
    IN  \E c \in Closure(next, {source}) \ {source} :
            c \in Closure(next, next[c])

(* check_against_cyclic_dependencies throws as soon as the recorded          *)
(* dependencies lead from source into a cycle.                               *)
IsCyclic(lib, source) ==
    LET next == DirectDependencies(lib)
    IN  \E c \in Closure(next, {source}) : c \in Closure(next, next[c])

Contents(lib) == [c \in DOMAIN lib |-> lib[c].config]

(* guichet::get_using_set: the selected configurations, and what the         *)
(* components loaded from them select in their turn.                         *)
UsingSet(lib, S) == Closure(Contents(lib), S)

(* load_json throws when a configuration to be selected is not stored.       *)
IsLoadable(lib, c) == UsingSet(lib, {c}) \subseteq DOMAIN lib

(* add_dependency_for then check_against_cyclic_dependencies do not throw.   *)
Accepts(lib, c, refs) ==
    /\ intact
    /\ refs \subseteq DOMAIN lib
    /\ ~IsCyclic(AddDependencies(lib, c, refs), c)

(* add_config: what it requires, does, and leaves behind when it throws.     *)
CanAdd(lib, c, refs) == c \notin DOMAIN lib /\ Accepts(lib, c, refs)

Added(lib, c, config, refs) ==
    [d \in DOMAIN lib \cup {c} |->
        IF d = c THEN [config |-> config, dependency |-> {}]
        ELSE AddDependencies(lib, c, refs)[d]]

NotAdded(lib, c) ==
    IF c \in DOMAIN lib THEN lib ELSE RemoveDependencies(lib, c)

(* update_config, likewise.                                                  *)
CanUpdate(lib, c, refs) ==
    c \in DOMAIN lib /\ Accepts(RemoveDependencies(lib, c), c, refs)

Updated(lib, c, config, refs) ==
    [AddDependencies(RemoveDependencies(lib, c), c, refs)
        EXCEPT ![c].config = config]

NotUpdated(lib, c) ==
    IF c \in DOMAIN lib THEN RemoveDependencies(lib, c) ELSE lib

(* delete_config.                                                            *)
Deleted(lib, c) ==
    [d \in DOMAIN lib \ {c} |-> RemoveDependencies(lib, c)[d]]

-----------------------------------------------------------------------------
(* What is locked for the configuration p[2] selected by p[1]: a line shows   *)
(* the component of its configuration, whose guichets lock too. Those of a   *)
(* wicket are the lines of its form.                                         *)
Holds(lib, p) ==
    IF p[1] \in Wickets THEN {p[2]} ELSE UsingSet(lib, {p[2]})

(* Mutant: what is loaded again keeps its locks.                             *)
SelectKeepsLocks(lib, new, again) ==
    LET users == {p \in Selections : p[2] \in new[p[1]]}
        held == [p \in users |->
            IF p[2] \notin selected[p[1]]
            THEN Holds(lib, p) ELSE {c \in Coordinates : p \in outside[c]}]
    IN  /\ selected' = new
        /\ outside' = [c \in Coordinates |-> {p \in users : c \in held[p]}]

(* The holders select new from now on: they give back the locks of what they *)
(* select no more, and take those of what they did not select, or load again.*)
Select(lib, new, again) ==
    LET users == {p \in Selections : p[2] \in new[p[1]]}
        held == [p \in users |->
            IF \/ p[2] \notin selected[p[1]]
               \/ p \in again /\ IsLoadable(lib, p[2])
            THEN Holds(lib, p) ELSE {c \in Coordinates : p \in outside[c]}]
    IN  /\ selected' = new
        /\ outside' = [c \in Coordinates |-> {p \in users : c \in held[p]}]

(* A component is loaded with the configuration c of lib. When one of its    *)
(* guichets throws, those before it are loaded and the others unchanged.     *)
PartialLoads(lib, c, form) ==
    SUBSET ({d \in lib[c].config : IsLoadable(lib, d)} \cup selected[form])

(* The event changed(k) of the categories Q goes to the boutique of k, then  *)
(* to every guichet of k, which loads again what it selects, or turns to     *)
(* manual mode when it is not stored any more; a wicket before its form. A   *)
(* guichet that cannot load throws: it turns to manual mode and the others   *)
(* may not hear the event.                                                   *)
Watches(p, Q) == p[2] \in selected[p[1]] /\ p[2].cat \in Q

Watching(Q) ==
    {p \in Selections :
        /\ Watches(p, Q)
        /\ \A w \in Wickets, c \in Coordinates :
              p[1] = FormOf(w) => ~Watches(<<w, c>>, Q)}

Failing(lib, Q) ==
    {p \in Watching(Q) : p[2] \in DOMAIN lib /\ ~IsLoadable(lib, p[2])}

Hearers(lib, Q) ==
    IF Failing(lib, Q) = {}
    THEN {<<Q, Watching(Q)>>}
    ELSE {h \in (SUBSET Q) \X (SUBSET Watching(Q)) :
             /\ Cardinality(h[2] \cap Failing(lib, Q)) = 1
             /\ \A p \in h[2] : p[2].cat \in h[1]}

(* What the form of the wicket w, which hears the event, selects after it; P *)
(* when the wicket throws.                                                   *)
FormAfter(lib, A, w, P) ==
    LET c == CHOOSE d \in Coordinates : <<w, d>> \in A
    IN  IF c \notin DOMAIN lib THEN {}
        ELSE IF IsLoadable(lib, c) THEN lib[c].config ELSE P

AfterEvent(lib, A, P) ==
    LET heard == {p[1] : p \in A} \cap Wickets
    IN  [x \in Holders |->
            IF \E w \in heard : x = FormOf(w)
            THEN FormAfter(lib, A, CHOOSE w \in heard : x = FormOf(w), P)
            ELSE {c \in selected[x] : <<x, c>> \in A => IsLoadable(lib, c)}]

Reloaded(A) ==
    A \cup {p \in Selections : \E q \in A : q[1] \in Wickets /\ p[1] = FormOf(q[1])}

(* The lists of the categories that hear the event, once the boutiques have  *)
(* ld for currently_loaded.                                                  *)
ListAgain(lib, ld, h) ==
    /\ listing' = [k \in Categories |->
          IF k \in h[1] THEN {c \in DOMAIN lib : c.cat = k} ELSE listing[k]]
    /\ listed' = [k \in Categories |->
          IF k \notin h[1] THEN listed[k]
          ELSE IF ld[k] \in DOMAIN lib THEN ld[k] ELSE None]

(* The event, heard by h, one of the Hearers.                                *)
Announce(lib, ld, h) ==
    /\ ListAgain(lib, ld, h)
    /\ \E P \in {{}} \cup UNION {PartialLoads(lib, p[2], FormOf(p[1])) :
                    p \in {q \in h[2] \cap Failing(lib, h[1]) : q[1] \in Wickets}} :
          Select(lib, AfterEvent(lib, h[2], P), Reloaded(h[2]))

LoadedAfter(lib, ld, h) ==
    [k \in Categories |->
        IF k \in h[1] /\ ld[k] \notin DOMAIN lib THEN None ELSE ld[k]]

(* Mutant: the library is said to be saved and is not written.               *)
SetSavedStatusOnly(lib, sv) == saved' = (sv \/ autosave) /\ file' = file

(* Any request to the Configure pages ends with set_saved_status, unless an  *)
(* exception is thrown: the library is saved if this is to be automatic.     *)
SetSavedStatus(lib, sv) ==
    IF autosave /\ ~sv THEN saved' = TRUE /\ file' = lib
    ELSE saved' = sv /\ file' = file

-----------------------------------------------------------------------------
(* A guichet in the component of a boutique, or of a wicket in manual mode,  *)
(* is set to c or to manual mode.                                            *)
AddLine(x, k, c) ==
    /\ c \in listing[c.cat] /\ c.cat \in Relies[k]
    /\ Cardinality(selected[x]) < MaxLines
    /\ IsLoadable(content, c)
    /\ Select(content, [selected EXCEPT ![x] = @ \cup {c}], {})

RemoveLine(x, c) ==
    /\ c \in selected[x]
    /\ Select(content, [selected EXCEPT ![x] = @ \ {c}], {})

EditForm(k, c) ==
    /\ AddLine(k, k, c) \/ RemoveLine(k, c)
    /\ SetSavedStatus(content, saved)
    /\ UNCHANGED <<content, intact, autosave, listing, listed, loaded, context,
                   asked>>

EditWicket(w, c) ==
    /\ selected[w] = {}
    /\ AddLine(FormOf(w), CategoryOf[w], c) \/ RemoveLine(FormOf(w), c)
    /\ UNCHANGED <<content, intact, saved, autosave, file, listing, listed,
                   loaded, context, asked>>

(* arriere_boutique, "Save/Save as": under the loaded name this updates the  *)
(* configuration, under another one it adds one. The name becomes the loaded *)
(* one first, and stays so when the library refuses.                         *)
SaveForm(c) ==
    LET k == c.cat
        config == selected[k]
        refs == UsingSet(content, config)
        isNew == c # loaded[k]
        ld == [loaded EXCEPT ![k] = c]
    IN  /\ \/ /\ \/ /\ isNew /\ CanAdd(content, c, refs)
                    /\ content' = Added(content, c, config, refs)
                 \/ /\ ~isNew /\ CanUpdate(content, c, refs)
                    /\ content' = Updated(content, c, config, refs)
              /\ \E h \in Hearers(content', {k}) :
                    /\ Announce(content', ld, h)
                    /\ loaded' = LoadedAfter(content', ld, h)
              /\ SetSavedStatus(content', FALSE)
           \/ /\ IF isNew
                 THEN /\ ~CanAdd(content, c, refs)
                      /\ content' = NotAdded(content, c)
                 ELSE /\ ~CanUpdate(content, c, refs)
                      /\ content' = NotUpdated(content, c)
              /\ loaded' = ld
              /\ SetSavedStatus(content', saved)
              /\ UNCHANGED <<outside, selected, listing, listed>>
        /\ UNCHANGED <<intact, autosave, context, asked>>

(* arriere_boutique, "Load selected".                                        *)
LoadForm(c) ==
    LET k == c.cat
    IN  /\ c \in listing[k] /\ listed[k] # c
        /\ loaded' = [loaded EXCEPT ![k] = c]
        /\ listed' = [listed EXCEPT ![k] = c]
        /\ \/ /\ IsLoadable(content, c)
              /\ Select(content, [selected EXCEPT ![k] = content[c].config],
                        {k} \X Coordinates)
              /\ SetSavedStatus(content, saved)
           \/ /\ c \in DOMAIN content /\ ~IsLoadable(content, c)
              /\ \E P \in PartialLoads(content, c, k) :
                    Select(content, [selected EXCEPT ![k] = P], {k} \X Coordinates)
              /\ UNCHANGED <<saved, file>>
           \/ /\ c \notin DOMAIN content
              /\ UNCHANGED <<outside, selected, saved, file>>
        /\ UNCHANGED <<content, intact, autosave, listing, context, asked>>

(* arriere_boutique, "Clear".                                                *)
ClearForm(k) ==
    /\ loaded' = [loaded EXCEPT ![k] = None]
    /\ listed' = [listed EXCEPT ![k] = None]
    /\ Select(content, [selected EXCEPT ![k] = {}], {})
    /\ SetSavedStatus(content, saved)
    /\ UNCHANGED <<content, intact, autosave, listing, context, asked>>

(* arriere_boutique, "Delete loaded config", confirmed. What is deleted is   *)
(* the name selected in the list. A configuration in use is not deleted.     *)
IsUnused(c) ==
    c \in DOMAIN content /\ content[c].dependency = {} /\ outside[c] = {}

Delete(k) ==
    LET c == listed[k]
        rest == Deleted(content, c)
    IN  /\ c # None /\ IsUnused(c)
        /\ content' = rest
        /\ \E h \in Hearers(rest, {k}) :
              /\ Announce(rest, loaded, h)
              /\ IF Failing(rest, {k}) = {}
                 THEN /\ loaded' = [loaded EXCEPT ![k] = None]
                      /\ SetSavedStatus(rest, FALSE)
                 ELSE /\ loaded' = LoadedAfter(rest, loaded, h)
                      /\ saved' = FALSE /\ UNCHANGED file
        /\ UNCHANGED <<intact, autosave, context, asked>>

-----------------------------------------------------------------------------
(* The wicket w is set to the configuration c, which its component loads.    *)
Choose(w, c) ==
    /\ c \in listing[CategoryOf[w]] /\ selected[w] # {c}
    /\ \/ /\ IsLoadable(content, c)
          /\ Select(content, [selected EXCEPT ![w] = {c},
                                              ![FormOf(w)] = content[c].config],
                    {FormOf(w)} \X Coordinates)
       \/ /\ c \in DOMAIN content /\ ~IsLoadable(content, c)
          /\ \E P \in PartialLoads(content, c, FormOf(w)) :
                Select(content, [selected EXCEPT ![w] = {}, ![FormOf(w)] = P],
                       {FormOf(w)} \X Coordinates)
       \/ /\ c \notin DOMAIN content
          /\ Select(content, [selected EXCEPT ![w] = {}], {})
    /\ UNCHANGED <<content, intact, saved, autosave, file, listing, listed,
                   loaded, context, asked>>

(* The wicket w is set to manual mode, or its configuration is to be edited. *)
ChooseManual(w) ==
    /\ selected[w] # {}
    /\ \/ Select(content, [selected EXCEPT ![w] = {}, ![FormOf(w)] = {}], {})
       \/ Select(content, [selected EXCEPT ![w] = {}], {})
    /\ UNCHANGED <<content, intact, saved, autosave, file, listing, listed,
                   loaded, context, asked>>

(* guichet, "Save As": the manual configuration is added to the library and  *)
(* selected.                                                                 *)
SaveAs(w, c) ==
    LET k == CategoryOf[w]
        config == selected[FormOf(w)]
        refs == UsingSet(content, config)
    IN  /\ selected[w] = {} /\ c.cat = k
        /\ \/ /\ CanAdd(content, c, refs)
              /\ content' = Added(content, c, config, refs)
              /\ saved' = FALSE
              /\ \E h \in Hearers(content', {k}) :
                    /\ loaded' = LoadedAfter(content', loaded, h)
                    /\ IF Failing(content', {k}) # {}
                       THEN Announce(content', loaded, h)
                       ELSE /\ ListAgain(content', loaded, h)
                            /\ Select(content',
                                      [AfterEvent(content', h[2], {})
                                          EXCEPT ![w] = {c},
                                                 ![FormOf(w)] = config],
                                      h[2] \cup {FormOf(w)} \X Coordinates)
           \/ /\ ~CanAdd(content, c, refs)
              /\ content' = NotAdded(content, c)
              /\ UNCHANGED <<outside, selected, listing, listed, loaded, saved>>
        /\ UNCHANGED <<intact, autosave, file, context, asked>>
-----------------------------------------------------------------------------
Filled(data) == {c.cat : c \in DOMAIN data}

LoadSucceeds(data) ==
    data \notin {Foreign, Bare} /\ Failing(data, Filled(data)) = {}

(* load_json drops the content first. It refuses what is not a library, and  *)
(* throws once it made up the missing categories of a bare one. Only the     *)
(* categories that data fills are announced. The file also holds autosave.   *)
LoadJson(data) ==
    /\ saved' = TRUE
    /\ \/ /\ data \in {Foreign, Bare}
          /\ content' = <<>>
          /\ intact' = (data = Bare)
          /\ UNCHANGED <<outside, autosave, selected, listing, listed, loaded>>
       \/ /\ data \notin {Foreign, Bare}
          /\ content' = data
          /\ intact' = TRUE
          /\ autosave' \in IF LoadSucceeds(data) THEN BOOLEAN ELSE {autosave}
          /\ \E h \in Hearers(data, Filled(data)) :
                /\ Announce(data, loaded, h)
                /\ loaded' = LoadedAfter(data, loaded, h)

(* html_bibliotheque, "Load", confirmed. The context is forgotten only when  *)
(* nothing is thrown.                                                        *)
Load ==
    IF file = Absent
    THEN /\ context' = "load"
         /\ UNCHANGED <<content, intact, outside, saved, autosave, selected,
                        listing, listed, loaded>>
    ELSE /\ LoadJson(file)
         /\ context' = IF LoadSucceeds(file) THEN "undefined" ELSE "load"

(* html_bibliotheque, "Clear all configurations", confirmed.                 *)
Clear ==
    /\ content' = <<>>
    /\ intact' = TRUE /\ saved' = TRUE /\ autosave' = TRUE
    /\ context' = "undefined"
    /\ \E h \in Hearers(<<>>, Categories) :
          /\ Announce(<<>>, loaded, h)
          /\ loaded' = LoadedAfter(<<>>, loaded, h)

(* The button "Load" or "Clear": the user is asked to confirm, unless the    *)
(* library is empty. is_empty throws when content has lost its categories.   *)
Request(what) ==
    /\ context = "undefined"
    /\ \/ /\ ~intact
          /\ context' = what
          /\ UNCHANGED <<content, intact, outside, saved, autosave, file,
                         selected, listing, listed, loaded, asked>>
       \/ /\ intact /\ DOMAIN content # {}
          /\ context' = what /\ asked' = TRUE
          /\ SetSavedStatus(content, saved)
          /\ UNCHANGED <<content, intact, outside, autosave, selected, listing,
                         listed, loaded>>
       \/ /\ intact /\ DOMAIN content = {}
          /\ IF what = "load" THEN Load ELSE Clear
          /\ UNCHANGED <<file, asked>>

AnswerYes ==
    /\ asked /\ asked' = FALSE
    /\ IF context = "load" THEN Load ELSE Clear
    /\ UNCHANGED file

AnswerNo ==
    /\ asked /\ asked' = FALSE
    /\ context' = "undefined"
    /\ SetSavedStatus(content, saved)
    /\ UNCHANGED <<content, intact, outside, autosave, selected, listing,
                   listed, loaded>>

(* A file sent by the browser: one that was downloaded, or another one.      *)
Upload ==
    /\ \E data \in {Foreign, file} \ {Absent} : LoadJson(data)
    /\ UNCHANGED <<file, context, asked>>

(* html_bibliotheque, "Save". A library that lost its categories is written  *)
(* without any.                                                              *)
Save ==
    /\ saved' = TRUE
    /\ file' = IF intact THEN content ELSE Bare
    /\ UNCHANGED <<content, intact, outside, autosave, selected, listing,
                   listed, loaded, context, asked>>

(* html_bibliotheque, "Download": save_json also sets saved.                 *)
Download ==
    /\ saved' = TRUE
    /\ UNCHANGED <<content, intact, outside, autosave, file, selected, listing,
                   listed, loaded, context, asked>>

SwitchAutosave ==
    /\ autosave' = ~autosave
    /\ IF autosave' /\ ~saved THEN saved' = TRUE /\ file' = content
       ELSE UNCHANGED <<saved, file>>
    /\ UNCHANGED <<content, intact, outside, selected, listing, listed, loaded,
                   context, asked>>

ShowConfigure ==
    /\ SetSavedStatus(content, saved)
    /\ UNCHANGED <<content, intact, outside, autosave, selected, listing,
                   listed, loaded, context, asked>>

Next ==
    \/ \E k \in Categories :
          \/ \E c \in Coordinates : EditForm(k, c)
          \/ ClearForm(k) \/ Delete(k)
    \/ \E c \in Coordinates : SaveForm(c) \/ LoadForm(c)
    \/ \E w \in Wickets :
          \/ \E c \in Coordinates : EditWicket(w, c) \/ Choose(w, c) \/ SaveAs(w, c)
          \/ ChooseManual(w)
    \/ \E what \in {"load", "clear"} : Request(what)
    \/ AnswerYes \/ AnswerNo \/ Upload
    \/ Save \/ Download \/ SwitchAutosave \/ ShowConfigure

Spec == Init /\ [][Next]_vars

-----------------------------------------------------------------------------
IsLibrary(lib) ==
    /\ DOMAIN lib \subseteq Coordinates
    /\ \A c \in DOMAIN lib :
          lib[c] \in [config : SUBSET Coordinates, dependency : SUBSET Coordinates]

(* The variables keep their types, and a library without its categories is   *)
(* empty.                                                                    *)
TypeOK ==
    /\ IsLibrary(content)
    /\ intact \in BOOLEAN /\ (~intact => content = <<>> /\ saved)
    /\ outside \in [Coordinates -> SUBSET Selections]
    /\ saved \in BOOLEAN /\ autosave \in BOOLEAN /\ asked \in BOOLEAN
    /\ file \in {Absent, Bare} \/ IsLibrary(file)
    /\ selected \in [Holders -> SUBSET Coordinates]
    /\ \A w \in Wickets : Cardinality(selected[w]) <= 1
    /\ listing \in [Categories -> SUBSET Coordinates]
    /\ listed \in [Categories -> Coordinates \cup {None}]
    /\ loaded \in [Categories -> Coordinates \cup {None}]
    /\ context \in {"undefined", "load", "clear"}
    /\ asked => context # "undefined"

(* Whoever is recorded as a user of a configuration is in the library:       *)
(* otherwise delete_config would refuse for ever to delete it.               *)
DependentsExist ==
    \A c \in DOMAIN content : content[c].dependency \subseteq DOMAIN content

(* No configuration relies on itself, however indirectly: its loading would  *)
(* never end (check_against_cyclic_dependencies).                            *)
UsesAcyclic ==
    LET next == Contents(content)
    IN  \A c \in DOMAIN content : c \notin Closure(next, next[c])

(* Once the library says it is saved, a configuration that was added, edited *)
(* or deleted is in the file (html_bibliotheque::set_saved_status). What was *)
(* loaded, uploaded or cleared is saved without being written.               *)
ChangesAreWritten ==
    [][saved' /\ Contents(content') # Contents(content)
            => content' \in {file', file, <<>>}]_vars

(* What a stored configuration relies on is stored: that is what delete_config*)
(* checks when it says a configuration cannot be deleted because it is used  *)
(* by another one.                                                           *)
UsedIsKept ==
    \A c \in DOMAIN content : content[c].config \subseteq DOMAIN content
(* The locks of the stored configurations are those of the guichets that use *)
(* them, at whatever depth.                                                  *)
IsLockedByUsers ==
    \A c \in DOMAIN content, p \in Selections :
        p \in outside[c] <=> p[2] \in selected[p[1]] /\ c \in Holds(content, p)

(* As long as no stored configuration relies on one that is not, no lock is  *)
(* lost, or kept for ever by a guichet that went on to another configuration,*)
(* to manual mode or out of a component loaded again (guichet::set_adopted,  *)
(* on_event, ~guichet).                                                      *)
LocksMatch == []UsedIsKept => []IsLockedByUsers

(* The records of a library that was edited, loaded and cut by failures at   *)
(* any step: both directions of who relies on whom stay exact enough for the *)
(* library to be emptied and for each configuration to be loaded.            *)
RecordsAreExact == DependentsExist /\ UsesAcyclic

=============================================================================
