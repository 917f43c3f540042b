------------------------------- MODULE Listing -------------------------------
(* The pages that show an archive: the listing (html_listing_page), a tree   *)
(* of directories (html_dir_tree) next to the contents of the one under      *)
(* focus (html_focus), and the summary (html_summary_page), with the modes   *)
(* of user_interface that show them. A directory asks libdar for what it     *)
(* holds the first time it is expanded or clicked; libdar may throw at any   *)
(* of these calls.                                                           *)
(*                                                                           *)
(* Opening an archive is one step here: its thread, questions and end are    *)
(* those of LibdarControl. A directory is the sequence of names that lead to *)
(* it from the root of the archive.                                          *)
EXTENDS Adoption, SequencesExt, Naturals

CONSTANTS
    Archives,
    Subdirs,     \* of the directories of each archive, in order
    MaxFailures  \* bound: the calls to libdar that throw

Root == <<>>

Dirs == {Root} \cup UNION {DOMAIN Subdirs[a] : a \in Archives}

VARIABLES
    mode, return_mode,  \* user_interface
    opened,             \* the archive that archive_init_list holds open
    listing,            \* html_listing_page: the components that make it
    summary,            \* html_summary_page: the archive its tables describe
    failures

viewer == <<mode, return_mode, opened, listing, summary, failures>>

Tree(d) == <<"tree", d>>         \* html_dir_tree
ForSubdirs(d) == <<"subdirs", d>>
Contents(d) == <<"contents", d>>
Page == <<"page", Root>>
Focus == <<"focus", Root>>

PartsOf(d) == {Tree(d), ForSubdirs(d), Contents(d)}

Components == {Page, Focus} \cup UNION {PartsOf(d) : d \in Dirs}

ASSUME ListingAssumption ==
    /\ MaxFailures \in Nat
    /\ IsFiniteSet(Dirs) /\ \A d \in Dirs : d \in Seq(Range(d))
    /\ None \notin Archives /\ None \notin Dirs /\ None \notin Components
    /\ \A a \in Archives :
          /\ Root \in DOMAIN Subdirs[a]
          /\ \A d \in DOMAIN Subdirs[a] :
                LET subs == Subdirs[a][d]
                IN  /\ subs \in Seq(Range(subs)) /\ IsInjective(subs)
                    /\ \A n \in Range(subs) : Append(d, n) \in DOMAIN Subdirs[a]

(* The root of the tree, as init leaves it.                                  *)
RootNode ==
    [info_read |-> FALSE, has_sub |-> TRUE,
     shrink |-> FALSE, expand |-> TRUE, nosubdir |-> TRUE,  \* shown buttons
     for_subdirs |-> FALSE,                                 \* or shown part
     rows |-> None,     \* the archive whose entries all are in contents
     cut |-> "no"]      \* the call of libdar that threw here

EmptyListing ==
    [nodes |-> [d \in {Root} |-> RootNode],
     children |-> [c \in Components |->
                     CASE c = Page -> <<Tree(Root), Focus>>
                       [] c = Tree(Root) -> <<ForSubdirs(Root)>>
                       [] OTHER -> <<>>],
     parent |-> [c \in Components |->
                     CASE c \in {Tree(Root), Focus} -> Page
                       [] c = ForSubdirs(Root) -> Tree(Root)
                       [] OTHER -> None],
     adopted |-> None,  \* html_focus::adopted
     title |-> None,    \* the path above the contents under focus
     calls |-> 0, thrown |-> FALSE, bug |-> FALSE]

ListingInit ==
    /\ mode = "config" /\ return_mode = "config"
    /\ opened = None /\ summary = None
    /\ listing = EmptyListing
    /\ failures = 0

-----------------------------------------------------------------------------
(* Handlers work on the listing l while libdar accepts l.calls more calls;   *)
(* the next one throws.                                                      *)
Spent(l) == [l EXCEPT !.calls = @ - 1]

Thrown(l) == [l EXCEPT !.thrown = TRUE]

(* What the call was for: the source of the listing, the entries of d or its *)
(* subdirectories.                                                           *)
Cut(l, d, call) == [l EXCEPT !.nodes[d].cut = call]

IsCut(node) == node.cut # "no"

HasSub(a, d) == Subdirs[a][d] # <<>>

GoShrink(l, d) ==
    IF ~l.nodes[d].has_sub THEN l
    ELSE [l EXCEPT !.nodes[d] = [@ EXCEPT !.shrink = FALSE, !.expand = TRUE,
                                          !.for_subdirs = FALSE]]

GoHide(l, d) ==
    [l EXCEPT !.nodes[d] = [@ EXCEPT !.has_sub = FALSE, !.shrink = FALSE,
                                     !.expand = FALSE, !.nosubdir = TRUE,
                                     !.for_subdirs = FALSE]]

(* set_source.                                                               *)
SetSource(l, a, d) ==
    IF l.calls = 0 THEN Thrown(l)
    ELSE IF HasSub(a, d) THEN [Spent(l) EXCEPT !.nodes[d].nosubdir = FALSE]
    ELSE GoHide(Spent(l), d)

(* A subdirectory is made and adopted, unless its making throws.             *)
AddSubdir(l, a, d, name) ==
    LET sub == Append(d, name)
        new == [l EXCEPT !.nodes = [x \in DOMAIN @ \cup {sub} |->
                                       IF x = sub THEN RootNode ELSE @[x]]]
        made == SetSource(GoShrink(new, sub), a, sub)
    IN  IF l.thrown \/ made.thrown THEN Thrown(l)
        ELSE Adopt(Adopt(made, Tree(sub), ForSubdirs(sub)),
                   ForSubdirs(d), Tree(sub))

(* go_init_indent: the directory is marked as read before libdar is asked,   *)
(* and what was made of it stays when libdar throws.                         *)
GoInitIndent(l, a, d) ==
    LET read == [l EXCEPT !.nodes[d].info_read = TRUE]
        done == FoldLeft(LAMBDA m, name : AddSubdir(m, a, d, name),
                         Spent(read), Subdirs[a][d])
    IN  IF l.nodes[d].info_read THEN l
        ELSE IF l.calls = 0 THEN Thrown(Cut(read, d, "reading"))
        ELSE IF done.thrown THEN Cut(done, d, "making")
        ELSE [done EXCEPT !.nodes[d].rows = a]

GoExpand(l, a, d) ==
    LET read == GoInitIndent([l EXCEPT !.nodes[d] =
                                 [@ EXCEPT !.shrink = TRUE, !.expand = FALSE]], a, d)
    IN  IF ~l.nodes[d].has_sub THEN l
        ELSE IF read.thrown \/ read.children[ForSubdirs(d)] = <<>> THEN read
        ELSE [read EXCEPT !.nodes[d].for_subdirs = TRUE]

(* html_focus::given_for_temporary_adoption.                                 *)
Give(l, d) ==
    LET left == IF l.adopted = None THEN l ELSE Foresake(l, Focus, l.adopted)
    IN  Adopt([left EXCEPT !.adopted = Contents(d)], Focus, Contents(d))

(* Mutant: the path is written once the directory has been read.             *)
GoShowUntitled(l, a, d) ==
    LET read == GoInitIndent(Give(l, d), a, d)
    IN  IF l.nodes[d].info_read THEN read ELSE [read EXCEPT !.title = d]

GoShow(l, a, d) ==
    GoInitIndent([Give(l, d) EXCEPT !.title = d], a, d)

OnEvent(l, a, d, button) ==
    CASE button = "shrink" -> GoShrink(l, d)
      [] button = "expand" -> GoExpand(l, a, d)
      [] button = "name" -> GoShow(l, a, d)

(* Mutant: what was learnt of the root is kept.                              *)
ClearKeepsRoot(l) ==
    LET gone == UNION {PartsOf(d) : d \in DOMAIN l.nodes \ {Root}}
        kept == Destroy(l, gone)
    IN  [kept EXCEPT !.nodes = [d \in {Root} |-> l.nodes[Root]],
                     !.adopted = IF @ \in gone THEN None ELSE @]

(* clear: the subdirectories are destroyed, the root forgets what it learnt. *)
(* The focus forgets a component that goes (will_foresake), the title stays. *)
Clear(l) ==
    LET gone == UNION {PartsOf(d) : d \in DOMAIN l.nodes \ {Root}}
        kept == Destroy(l, gone)
    IN  [kept EXCEPT !.nodes = [d \in {Root} |->
                         [l.nodes[Root] EXCEPT !.info_read = FALSE,
                                               !.has_sub = TRUE, !.rows = None,
                                               !.cut = "no"]],
                     !.adopted = IF @ \in gone THEN None ELSE @]

(* html_listing_page::set_source.                                            *)
List(l, a) ==
    LET set == SetSource(l, a, Root)
        grown == GoExpand(set, a, Root)
    IN  IF set.thrown THEN Cut(set, Root, "source")
        ELSE IF grown.thrown THEN grown
        ELSE GoShow(grown, a, Root)

-----------------------------------------------------------------------------
(* More calls than a handler makes.                                          *)
Enough == 1 + Cardinality(Dirs)

Allowed == IF failures < MaxFailures THEN 0 .. Enough ELSE {Enough}

(* An exception of libdar, which give_answer does not catch: the mode stays, *)
(* the request gets no answer and the server closes the connection.          *)
Drop(m) == mode' = m /\ failures' = failures + 1 /\ UNCHANGED return_mode

(* The error page of give_answer, for an exception of webdar in mode m.      *)
ToError(m) == mode' = "error" /\ return_mode' = m /\ failures' = failures + 1

(* What a handler made of the listing in mode m; its calls are over. Between *)
(* two subdirectories of d it may be the memory that is missing.             *)
Ends(l, m, d) ==
    /\ listing' = [l EXCEPT !.calls = 0, !.thrown = FALSE]
    /\ IF l.bug THEN mode' = "bug" /\ UNCHANGED <<return_mode, failures>>
       ELSE IF l.thrown
            THEN Drop(m) \/ (l.nodes[d].cut = "making" /\ ToError(m))
       ELSE mode' = m /\ UNCHANGED <<return_mode, failures>>

(* An archive has been opened to be listed (on_event). Its thread throws a   *)
(* bug exception when another one is still open.                             *)
OpenListing(a) ==
    /\ mode = "config" /\ opened = None
    /\ opened' = a
    /\ \E n \in Allowed :
          Ends(List([listing EXCEPT !.calls = n], a), "listing", Root)
    /\ UNCHANGED summary

(* An archive has been opened for its summary. When libdar throws the page   *)
(* shows a title and no table.                                               *)
OpenSummary(a) ==
    /\ mode = "config" /\ opened = None
    /\ opened' = a
    /\ \/ /\ summary' = a
          /\ mode' = "summary" /\ UNCHANGED <<return_mode, failures>>
       \/ /\ failures < MaxFailures
          /\ Drop("summary") /\ UNCHANGED summary
    /\ UNCHANGED listing

OpenAgain ==
    /\ mode = "config" /\ opened # None
    /\ mode' = "bug"
    /\ UNCHANGED <<return_mode, opened, listing, summary, failures>>

(* What the page shows: the line of each directory whose ancestors are all   *)
(* expanded.                                                                 *)
Shown(d) ==
    \A i \in 0 .. Len(d) - 1 : listing.nodes[SubSeq(d, 1, i)].for_subdirs

Buttons(d) ==
    {"name"} \cup {b \in {"shrink", "expand"} : listing.nodes[d][b]}

(* A button of the tree, on this page or a former one: those that are not    *)
(* shown any more are not looked at.                                         *)
Press(d, button) ==
    /\ mode = "listing"
    /\ d \in DOMAIN listing.nodes /\ Shown(d) /\ button \in Buttons(d)
    /\ \E n \in Allowed :
          Ends(OnEvent([listing EXCEPT !.calls = n], opened, d, button),
               "listing", d)
    /\ UNCHANGED <<opened, summary>>

CloseListing ==
    /\ mode = "listing"
    /\ listing' = Clear(listing)
    /\ opened' = None /\ mode' = "config"
    /\ UNCHANGED <<return_mode, summary, failures>>

CloseSummary ==
    /\ mode = "summary"
    /\ summary' = None
    /\ opened' = None /\ mode' = "config"
    /\ UNCHANGED <<return_mode, listing, failures>>

(* The error page is acknowledged: the archive stays open, the listing as it *)
(* is.                                                                       *)
Acknowledge ==
    /\ mode = "error"
    /\ mode' = IF return_mode \in {"listing", "summary"}
               THEN "config" ELSE return_mode
    /\ UNCHANGED <<return_mode, opened, listing, summary, failures>>

ListingNext ==
    \/ \E a \in Archives : OpenListing(a) \/ OpenSummary(a)
    \/ \E d \in Dirs, b \in {"shrink", "expand", "name"} : Press(d, b)
    \/ OpenAgain \/ CloseListing \/ CloseSummary \/ Acknowledge

-----------------------------------------------------------------------------
(* Whatever is expanded, put under focus, left half made by an exception or  *)
(* destroyed with its archive, each component of the listing has one place   *)
(* in the page or none, a directory that is no more leaves nothing behind,   *)
(* and the focus knows the component it holds: otherwise the next click ends *)
(* with WEBDAR_BUG (body_builder::adopt, foresake, html_focus).              *)
AdoptionIsTree ==
    /\ IsForest(listing)
    /\ listing.children[Focus] =
          IF listing.adopted = None THEN <<>> ELSE <<listing.adopted>>
    /\ \A d \in Dirs \ DOMAIN listing.nodes : \A c \in PartsOf(d) :
          listing.parent[c] = None /\ listing.children[c] = <<>>

(* The tree tells what the open archive holds, whatever archive was shown    *)
(* before: under a directory are its first subdirectories, in order, and all *)
(* of them when it is expanded; each one offers to be expanded, to be shrunk *)
(* or neither, as it can be. Only a directory at which libdar threw since    *)
(* the archive was opened may have lost some, for good, and tell the wrong   *)
(* button (html_dir_tree::go_init_indent, set_source, clear).                *)
DirectoriesAreListed ==
    mode = "listing" =>
        \A d \in DOMAIN listing.nodes :
            LET n == listing.nodes[d]
                subs == Subdirs[opened][d]
                parts == listing.children[ForSubdirs(d)]
                trees == [i \in DOMAIN subs |-> Tree(Append(d, subs[i]))]
            IN  /\ d \in DOMAIN Subdirs[opened]
                /\ IsPrefix(parts, trees)
                /\ \/ IsCut(n)
                   \/ /\ n.nosubdir <=> subs = <<>>
                      /\ n.expand <=> subs # <<>> /\ ~n.shrink
                      /\ n.shrink => n.for_subdirs /\ parts = trees

(* What is under the title is the contents of the directory it names, all of *)
(* it unless libdar threw there, in the archive that is open, and the        *)
(* summary is of that archive: never what a former archive held. Without     *)
(* them, libdar threw when the archive was opened.                           *)
PageShowsTheArchive ==
    /\ mode = "listing" =>
          IF listing.adopted = None THEN IsCut(listing.nodes[Root])
          ELSE /\ listing.title \in DOMAIN listing.nodes
               /\ listing.adopted = Contents(listing.title)
               /\ LET shown == listing.nodes[listing.title]
                  IN  shown.rows = opened \/ (IsCut(shown) /\ shown.rows = None)
    /\ mode = "summary" => summary = opened \/ (summary = None /\ failures > 0)

(* The page of a listing, in its structure, its tree and its titles.         *)
ListingShowsTheArchive ==
    AdoptionIsTree /\ DirectoriesAreListed /\ PageShowsTheArchive

=============================================================================
