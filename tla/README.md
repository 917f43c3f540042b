# A verification of webdar

webdar is a web server that gives a browser access to libdar, the backup
library of dar. This project holds TLA+ specifications of its concurrent and
stateful parts, the TLC runs that check them on small instances, and proofs of
their main properties by the TLA+ proof system.

Every path below is relative to `src/src/`. `PROJECT.json` gives, for each
definition, the lines it was written from.

## 1. The system

| Component | Files | State it keeps | What is hard |
|---|---|---|---|
| main, signals | `webdar` | the listeners, the pool | order of the joins, a signal at any moment |
| listeners | `listener` | one socket each | give connections to a pool that is full or being cancelled |
| server pool | `server_pool`, `reference` | the servers as peers, those to delete | peers modified by two threads, a condition signalled too early |
| server threads | `server` | a session, a user | everything below is used by many of them at once |
| parser, connections | `parser`, `request`, `answer`, `connexion`, `ssl_*` | a buffer, a request read ahead | partial reads, a signal in a read, end of connection |
| authentication | `authentication`, `challenge`, `base64` | one user, whether the next credentials are ignored | texts cut in blocks, HTTP cannot forget a user |
| session table | `session` | sessions, owner, reference counter, closing mark, semaphore, caller | close, kill, acquire and release in any order; destruction under the mutex |
| chooser | `choose` | the list shown, the sessions to kill | acts on a list that is out of date |
| session screens | `user_interface`, `saisie` | mode, mode to come back to, the libdar threads | a mode must agree with a thread that ends when it likes |
| interaction | `web_user_interaction`, `html_web_user_interaction`, `html_libdar_running_*` | question, answer, managed thread, buttons | server thread and libdar thread meet on every page |
| operations | `archive_*`, `html_archive_*`, `html_menu` | the open archive, the parameters of the next one | cancellation, failures, an archive left open |
| library of configurations | `bibliotheque`, `html_bibliotheque`, `arriere_boutique`, `guichet`, `html_over_guichet` | configurations, who relies on them, locks, saved mark, file | long sequences of edits, an exception in the middle of an event |
| page components | `body_builder`, `events`, `actor`, `html_form*`, `html_button`... | a tree, caches, event lists | evaluation in rounds, a field set and posted at once |
| containers | `html_derouleur`, `html_aiguille`, `html_form_dynamic_table`, `html_popup`... | sections, rows | indices beside the list they index |
| browsing | `html_select_file`, `html_dir_tree`, `html_entrepot*` | the directory shown, a libdar thread of their own | same as interaction, and what was read is kept |
| options, masks, policies | `html_options_*`, `html_mask*`, `html_form_overwrite_*` | fields, expression trees | fields that others hide, silenced events, JSON form and back |
| style sheets, tools | `css*`, `webdar_tools`, `date`, `uri`, `chemin` | none | limits of conversions |

How they interact. A **listener** accepts a connection and asks the **pool**
for a **server thread**, which is a peer of the pool as long as it runs. The
server reads a request, finds the user, then the **session** its URL names,
waits for the semaphore of the session and has it build a page. A page is a
tree of **body builders**, evaluated again until no component has changed;
components talk by **events**, called synchronously. One of them may launch a
**libdar thread**; from then on each page asked by the browser looks at that
thread: its questions, its end, its exception. The **library** is filled by the
Configure pages and used by all the others, which are told of changes by
events. A session ends when a user closes or kills it: the last server that
leaves it destroys it.

What would make each part correct:

* pool: never more servers than allowed, every ended server joined and deleted
  once, the pool thread the last to end;
* sessions: no server uses a destroyed session, the counter is exact, a closed
  session is destroyed and given to nobody, whoever waits is served;
* libdar control: modes, pages and threads agree, no internal check fails,
  answers go to the question they were typed for, a stop ends the operation;
* library: what is used is kept and locked, records are exact, no cycle, what
  is said to be saved is saved;
* parser: what is parsed is what was sent, wherever the packets were cut;
* body builders: a page is stable when it is sent, events are delivered once;
* options: a form shows what its values ask for, tells each change, depends on
  what it names, replaces what it held, gives libdar what it shows;
* masks, policies, lists, sizes, dates: what is displayed is what is meant, an
  edit changes what it says and nothing else, a load restores what was saved;
* browsing: what the user sees is what the directory has, what he gets is what
  he saw, in the repository he described;
* operations: the thread of an operation finds its parameters, the paths are
  those of the repositories on the page, no page waits for ever;
* pages: a page is a tree that shows the archive that is open, one section at
  most is shown, the default configurations are complete;
* start and authentication: the program listens as it was told to, the right
  password opens the pages and no other does.

`PROJECT.json` lists the hazards one by one with their lines.

## 2. What is modelled

| Module | Models | Run | Proofs |
|---|---|---|---|
| `SessionTable`, which implements `SessionLife` | `session`, `server::inherited_run`, `choose` | `session` | `SessionTableProofs` |
| `ServerPool` | `server_pool`, `reference`, `listener`, the joins of `webdar` | `server_pool` | `WebdarProofs` |
| `Webdar` (extends `ServerPool`) | `webdar`, the constructors of `listener` | `server_pool` | `WebdarProofs` |
| `Connexion`, `Parser` | `proto_connexion`, `connexion`, `parser`, `request`, the loop of `server`, a browser | `parser` | `ParserProofs` |
| `LibdarControl`, with `Dialogue` as its promise | `user_interface`, `html_web_user_interaction`, `web_user_interaction`, `archive_*`, a browser | `libdar_control` | `LibdarControlProofs` |
| `Library` | `bibliotheque`, `html_bibliotheque`, `arriere_boutique`, `guichet` | `library`, `library_used_is_kept` | `LibraryProofs` |
| `BodyBuilder` | `body_builder`, `events`, `html_form`, `html_form_input`, `html_form_radio`, `html_button` | `page` | `BodyBuilderProofs` |
| `FormTable`, `OptionForms`, `ArchiveForms`, `ParamForms`, `Options` | `html_options_*`, `html_slicing`, `html_ciphering`, `html_compression_params`, `html_form_sig_block_size` | `options` | `LibraryProofs` |
| `RowForms`, `DynamicTable`, `PolicyForms`, `AmountForms`, `Fields` | `html_form_mask_*`, `html_mask_form_*`, `html_form_overwrite_*`, `html_form_dynamic_table`, `html_form_input_unit`, `html_datetime`... | `forms` | |
| `Rounds`, `SelectFile`, `Landing`, `Browse` | `html_select_file`, `html_entrepot`, `html_entrepot_landing`, `html_form_input_file`, `html_libdar_running_popup` | `browse` | `BrowseProofs` |
| `Operations` (on `Rounds`) | `saisie`, `html_menu`, `html_archive_*` | `operations` | `OperationsProofs` |
| `Pages`, which composes `Login`, `Listing` (on `Adoption`), `Sections`, `Defaults` | `challenge`, `base64`, `html_listing_page`, `html_dir_tree`, `html_focus`, `html_summary_page`, `html_tabs`, `html_derouleur`, `html_aiguille`, the defaults of `html_bibliotheque` | `pages` | `WebdarProofs` |

The modules whose name begins with `MC` hold the constants of the runs.

### SessionTable

A server thread is a program counter (`pc`) over the stages of
`server::inherited_run`. Each critical section of `lock_running` that cannot
block is one step; the destruction of a session, which joins its libdar thread
inside the critical section, is several, and `lock_running` then names the
server that holds the mutex. Semaphores are `lock_wui`, the check of the caller
is `tid`. An exception that unwinds the loop is `failing`. The libdar thread of
a session is reduced to its states: running, waiting for an answer, ended,
failed. The name of a session, the static objects and authentication are left
out; the user of a request is chosen among `Users`.

`SessionLife` is what a session is to servers: it is created, given, held by
one server at a time, dropped, closed, and destroyed when nobody has it. The
refinement mapping takes as users the servers that wait for a session or hold
it, so that the counter is not part of what is promised.

### ServerPool

`verrou` is the mutex of the pool. A server that ends breaks its peering
without it: the step `LeavePeers` of the server changes `peers`, and when the
pool or a listener is walking the same set, `status` becomes "undefined", as
`std::set` gives no promise for that. Then it takes `verrou` and asks to be
deleted (`EndServer`). The pool thread waits on its condition, may wake up
without a reason, joins and deletes. A listener that finds the pool full
closes the connection. An object whose thread could not be run stays a peer
("stillborn"). Objects are reused once deleted; their number bounds the servers
that exist at a time and not those that ever did.

The main thread joins its listeners in order, the last launched first, and sees
the failure of a listener only when it comes to it. Between the join and the
removal of the listener from the list its pointer is null (`main` = "joined"): a
signal taken there throws before it has cancelled the pool (`SignalMeetsNull`),
which ends the process or has main go round the loop of its `catch` for ever
("stuck").

### Webdar

What `main` does before the threads of `ServerPool` run by themselves. The
command line is a sequence of options, a letter and its argument each; that of
`-l` is cut by `SplitInTwo` and `ReadItem` as the code cuts it, with its fall
through from one case to the next. A digit is one token, so that a port is the
number of its digits. Once `main` waits for its listeners, what it read is of no
use any more and `start` takes one value (`Launched`); `ServerPool` goes on
alone. A signal may come at each step; the libraries may fail to start, and so
may a listener, each of which ends the program by the way out that the code has
there. Texts that the program takes though it does not look at all of them, with
something behind the digits of a port or a comma at the end, are among the
command lines; the property says what is not looked at (`Unread`).

### Connexion and Parser

`Connexion` is the buffer of `proto_connexion` (`buffer`, `already_read`; the
size of the sequence is `data_size`) over a socket on which the client sends
`Stream` one cell at a time, and which it may close at any moment. A cell is a
byte, or several that the parser never tells apart. `fill_buffer` is `Receive`,
or `NoMoreData` when it brings nothing.

`Parser` follows `request::read` function by function; `stage` is the function
that is running, and each step reads one cell or returns. The look ahead
(`Poll`, `PollFails`) is what `get_next_request_uri` does without waiting while
the server holds a session (`sess`). `Cancel` is the flag of libthreadar and
its signal, which matters to a thread blocked in `recv` only; the functions of
`request` that swallow any exception swallow that one as well. The attributes
keep the first value of a header that comes twice, since `map::insert` changes
nothing (`AddAttribute`). A body length is given in unary, which keeps the
property of a decimal one that was cut: it is another length.

What the client sends is `Said`: it tells, after so many cells of `Stream`,
which request it has come to, what part of it the next cell belongs to and what
the request says so far. `RequestsAssumption` says that `Said` follows the
grammar of a request (`Follows`, `IsPart`) and what each part adds to it
(`Grown`), that each request is one that webdar supports (`IsRight`), and that
no name of a method ends a part of another one or of a URI: what is left of
`GPOST` once its first byte was read ahead would be a request. No action uses
`Said`: only this assumption, its instance in `MCParser`, and the proofs do.

`consumed`, `ahead` and `answers` are history variables. TLS, cookies,
multipart bodies, the buffer of the output and the scheme of the URI are left
out.

### LibdarControl

One session and one server thread, which builds one page at a time
(`lock_wui` guarantees it, see SessionTable), a libdar thread and a browser
that may send any request of any page, late or repeated. A page is built in
rounds; a round of the running page takes `all_threads_pending` for three
steps: what libdar asks (`Update`), whether it ended (`WatchNothing`,
`WatchEnd`, `WatchFailure`), then the buttons and the form. The libdar thread
steps between any two of them. `Refused` is the state left by a thread that the
system could not run.

Abstractions: listing and summary are one mode, the operations other than
opening are one ("test"), `get_string` and `get_secu_string` one kind of
question. Downloads, disconnection and the session name are left out. Answers
are never empty, as a field whose value did not change fires no event
(`html_form_input.cpp:258`). A stop stays requested until the thread ends. A
bug exception on the server thread stops the model. The waits of
`web_user_interaction` are not in a loop (lines 343, 383, 423): a condition of
libthreadar, which is not under `src/`, is taken to return only once it was
signaled. `set_mode` leaves the mode as it was when the event it raises throws,
which cannot be seen here as opening an archive is one step. `Dialogue` is the
promise of `web_user_interaction`: a question is asked, shown, answered, read,
in this order; what the browser received is a history variable (`displayed`).

### Library

The state is that of class `bibliotheque` plus what its users hold. A
configuration is reduced to the set of the configurations it selects, since
nothing else matters to the library. A *wicket* is a guichet of an ordinary
page; a *form* is the component that a boutique or a wicket shows, whose lines
are guichets that select the configurations it relies on. The guichets nested
below a line are followed for what they lock (`Holds`), not as holders of their
own; one of them in manual mode is not followed.

Each action is a whole request to one component: the refusals of the library
with what they leave behind (`NotAdded`, `NotUpdated`), the event `changed` of
a category with every listener that hears it (`Announce`), and the automatic
save that ends each request to the Configure pages (`SetSavedStatus`). A
guichet that cannot load its configuration throws in the middle of the event:
which listeners had heard it by then is left open (`Hearers`), and so is how
much of the component was loaded (`PartialLoads`). The file holds a library,
nothing (`Absent`), something that is not a library (`Foreign`) or a library
without categories (`Bare`); the automatic save mark it contains may have any
value. A failure to write it, its sharing by several sessions and a crash in
the middle of a write are left out. Names that are empty are refused
without a change of state, and the confirmation of a deletion is part of the
deletion.

### BodyBuilder

`LibdarControl` and `Library` take a page for something that is evaluated until
nothing changes. `BodyBuilder` is that evaluation: `stack` holds the calls to
`get_body_part` in progress, from the root down, `todo` what is left of the
events that are being acted, depth first as the calls of the code are. A page
is given by its tree (`Children`, `Kind`); what the handlers do is a constant,
`Reactions`, each of them showing, hiding, setting or enabling a component. A
text is the set of what its components show, and a cached one is kept with the
request it is valid for. A value is empty or not.

The handlers cannot cause their own event, which the code would follow until its
stack overflows. A form is posted whole or in part: the page it was sent from
may be an old one, and a field takes its part of it when the form is evaluated
under a path that has been used up (`PathIsEmpty`). `seen`, `decided` and
`acted` are history variables: what the user could act on with his request, what
events did since, how often the button or the form he used acted.
`AskedAssumption` says what a page contains and asks for: a button has no
component below it, its content never changing, and a form inside another is not
submitted on its own, as browsers ignore its tag. Adoption is in `Adoption`. The
lists of actors that change during an event, selections out of range, anchors
and `ignore_body_changed_from_my_children` are left out.

### Forms of options

A form has named fields, and those that the code treats alike are one field
("plain" most of the time). `FormTable` says what the forms share: the user,
`load_json`, `clear_json` and the default values all go through the setter of a
field, which tells the form, which may react (`on_event`). A load is thus a
sequence of assignments, during which the form may be mute (`ignore_events`) or
half way. `OptionForms` (the eight of one operation each), `ArchiveForms` (those
that hold a repository: create, merge, read) and `ParamForms` (slicing,
ciphering, compression with and without the choice to keep it, size of signature
blocks) give the same nine definitions for each class: what it starts with,
loads, saves, clears, shows, watches, relies on, passes to libdar. `Options` is
one form of any of the thirteen classes under any sequence of edits, saves,
loads (of a file that lacks a field or names a missing configuration too),
clears and resets; `stored` is the last save, `torn` says that a load failed and
that no field refreshed the form since. A guichet is "none", filled by hand or
taken from the library. A step is a whole operation of the server thread, which
holds the session.

### Components filled in by the user

`DynamicTable` is a table whose rows are added and deleted by the user, by
numbers that a page out of date may still carry; the deletion of a row takes
effect when the evaluation ends (`purge_to_delete`). Over it: the combinations
of masks or criteria (`RowForms` for their leaves, nested once), the masks of
names and paths with the root they are relative to, the policies of overwriting
(`PolicyForms`, where the actions inside an action are constants, the code being
the same at each level), the lists of mount points, links and persons.
`AmountForms` has sizes with a unit and a range, and dates; leap years are left
out. What these mean (`Means`) is defined apart, from the fields alone. A load
that throws midway leaves the component torn (`torn`) until it is loaded again.

### Browsing

`Rounds` is a page as a sequence of components, evaluated in an order the
modules above give, again until none has changed, with the button of the URL
that acts once, the redirection of the page, and the browser that reloads it
under the same URL. `SelectFile` is the popup: the directory it shows, its
thread that lists or creates, the mutex it tries to take (`content_mutex`), the
warning that must survive the rounds. `Landing` is the form of a repository, the
path beside it, the popup that watches the thread that reaches the repository,
and what connects them; a repository is a number. What the thread of the popup
changes in it, its list, its label or its warning, has the next round evaluate
it again; the release of `content_mutex` and the end of the thread are one step,
as a server that takes the mutex in between still finds the thread running.
`Browse` composes these with a browser. Checks of the code that this composition
meets have a status of their own: "filled_file", a thread that lists a path
which is no directory any more; "unwatched" and "managed", a thread launched
while another is watched by a popup that was closed; "null", a repository that
was never reached.

### Operations

The menu of a session and the page of each operation, with its repositories
(`holders`): where a backup is read (`html_archive_read`) and where one is
written. The threads that reach them and the one of the operation are steps of
their own. Any button may be pressed at any time, for a former page or
another window may have it. The thread of the operation fetches its parameters
(`job` = "start") while the server ends the round that launched it. The
statuses "busy", "managed" and "running" are the checks of the code that a
button of a former page can meet while a repository is being reached. A page
that waits reloads itself under the URL of the request at which its popup was
last evaluated (`back`). When the update of a read repository fails, its popup
stays with a Close button (`PopupStays`); `lost` says that the last thread of a
holder failed, or reached a repository that had changed meanwhile.

### Pages

`Pages` is what a user meets who logs in. `Login` decodes credentials as the
program does, byte by byte in blocks of four base64 values, compares them as C
strings, and has the member `ignore_auth` that makes a browser ask its user
again. `Adoption` is `adopt`, `foresake` and the destructor of `body_builder` on
a forest. `Listing` uses it for the tree of a listed archive: a directory asks
libdar for its contents when it is first expanded or clicked, and libdar may
throw at each of these calls. Nothing catches its exceptions before the server,
which closes the connection (`Drop`): the mode stays, and the next request meets
the tree as far as it was made. `cut` is a history field of the directory at
which libdar threw; it goes when the listing is closed. An exception of webdar,
when memory is missing, leads to the error page instead (`ToError`). `Sections`
has tabs and unrolling sections, with one that another field hides. `Defaults`
makes the default configurations, each of which may select earlier ones; what is
stored is a function from configurations to those they use. `visit` chooses
which of these parts the user looks at when logged in: they share nothing but
the mode of the session. The user may disconnect and come back between two
requests; the session keeps what it holds.

## 3. What is checked

| Run | Bounds | Shows |
|---|---|---|
| `session` | 2 servers, 1 session at a time, 1 user, libdar asks, ends or fails | references counted, none dangling, `SessionLife` implemented; a closed session is destroyed and a server that waits is served, unless a kill is stuck on a question |
| `parser` | 2 requests, one with a body and one with a folded header, a buffer of 5 cells, the second may come before the first answer | the buffer follows the stream, what is served is what was sent, in order, four reasons only to turn a request down, every request is answered |
| `server_pool` | command lines of up to two options, or a certificate, a key and two addresses; with garbage behind a port and a comma at the end; 2 listeners, 2 objects, 1 place | the program listens as it was told; bound of the pool, ended servers deleted, the pool ends when it is cancelled or main is told to stop |
| `libdar_control` | 1 page that fails | no bug on the server thread, modes and threads agree, polling, dialogue, questions shown, stop ends |
| `library` | 2 masks, 1 wicket, 1 line per form | records exact and without a cycle, locks exact at any depth, changes written |
| `library_used_is_kept` | same | *violated*: a refused update forgets what the configuration relies on, which can then be deleted |
| `page` | 8 components, two events with a handler each, a part hidden or not, 7 requests, at most 6 rounds (`MaxLoop`) | the page sent is up to date and built in a few rounds, what is posted is taken, what is set is kept, a request acts once |
| `options` | 13 classes, 4 operations (`MaxSteps`) | forms are coherent, tell their changes, replace what they held, depend on what they name, pass what they show |
| `forms` | 9 kinds of components, 2 rows, numbers of up to 7, units of powers of 2 and 3, years of two months of 3 and 2 days, hours of 4 minutes; 3 operations for masks, 4 for actions, 5 for the others, beside the requests that filled them in | what is displayed is what is meant, requests change what they say, loads restore, changes are told |
| `browse` | 8 paths (directories, a file, links, one that goes), 2 repositories, 3 buttons, 1 failure; the path sought is a directory, a file or a link, the one given at first is each kind of path | listings are current, moves, selections and warnings are those of the page, the repository is the one described, a wait ends |
| `operations` | an operation that reads, one that reads and writes, the library, the list of sessions and the end of the session in the menu; 2 repositories, one of which the default configuration may describe, 3 buttons of any page, former ones too | an operation finds its parameters, paths browse the repositories shown, waits end |
| `pages` | archives of three levels, of one, of none; 1 failure of libdar; 3 tabs of 17; 3 changes and 3 files of configurations; 6 passwords typed, 3 challenges | the page is a tree that shows the archive, but for what libdar refused at a directory, one section at most is shown, the right password is enough, the defaults are complete |

Some properties group facts that one mistake would break together; their parts
have names in the modules: `AnsweredAsSent` (`ServedIsSent`, `AnswersInStep`,
`RefusedForAReason`), `PageFollowsThread` (`ModeFollowsThread`,
`RunningPagePolls`), `DialogueEnds` (`QuestionIsShown`, `StopEndsOperation`),
`RecordsAreExact` (`DependentsExist`, `UsesAcyclic`), `PostIsKept`
(`PostIsTaken`, `ChangesForAReason`), `FormIsStored` (`ChangeIsTold`,
`OldValuesAreReplaced`), `NothingElseChanges` (`EditsOnlyThat`,
`LoadRestoresMeaning`), `BrowsesAsTold` (`MovesOnce`, `SelectsWhatIsShown`,
`WarningIsShown`, `RepositoryIsTheOneShown`), `ListingShowsTheArchive`
(`AdoptionIsTree`, `DirectoriesAreListed`, `PageShowsTheArchive`). Where a part
has a bug of its own to fear, it has a mutant of its own. A property that the
code breaks in a known case names the case as an exception (`KillIsStuck`,
`SignalMeetsNull`, `Unread`, `Silent`, `Survivors`, `Unseen`, `Unpassed`,
`Deaf`, `IsCut`, `lost`...): it still holds everywhere else.

Why the bounds are enough. Two servers give every pair of operations on a
session; a session that ends is followed by another one under the same name, and
the proofs cover any number of each. One place and two objects make the pool
full, empty, and recycling while another object ends. Two options give each
option before and after each other one. A buffer shorter than a request, and
whose size does not divide it, is full, refilled and split between the two ends
of a line; two requests give one that is read ahead. One failing page reaches
the error screen from each mode, and a second one would meet the same states.
Two masks give an indirect cycle, a refused update, a configuration used by
another one and by two holders. In `page`, two handlers give each pair of an
event and of another one it causes or precedes, up and down the tree; `MaxLoop`
is 100 in the code and 6 here, which is stronger. In `options`, four operations
are an edit, a save, an edit of what the first hides or shows and a load, which
is the longest chain a field depends on. Two rows, one of which may hold two
rows itself, give a deletion before, behind, above and below the row that is
edited; the small units and calendar have each carry and each end of a range.
Three buttons open the popup, move and select, or change a repository twice
around a thread. Three archives come one after the other with and without a
directory of the same name; one call that throws does so anywhere in the tree.
The six passwords are one of each length modulo three, a prefix, an extension
and one with a colon. The runs take from some seconds to about four minutes.

Deadlock is checked, except where the model really stops: in `session` a kill
stuck on a question blocks every server; in `options`, `forms` and `pages` the
user has done all he may do.

Fairness. Threads are scheduled (weak fairness of their steps) and a mutex,
a semaphore or a condition is granted to a thread that keeps asking for it
(strong fairness of the steps that take one), as POSIX threads do in practice;
nothing is assumed of connections, clients or signals. In `parser` what the
client has sent reaches the server, that is all. libdar ends by itself in
`session`, `browse` and `operations`; in `libdar_control` it looks for its
cancellation when stopped. Where a page waits (`libdar_control`, `browse`,
`operations`) the browser reloads it when it was told to, and the user finally
answers a question, closes a finished screen and leaves an error page: nothing
else is expected from him.

Each property of a passing run has a mutant: a plausible mistake in one
definition with which TLC finds it violated. The operators marked as mutants in
the modules are those mistakes.

## 4. What is proved

`SessionTableProofs` (for all finite sets of servers, all sets of sessions and
users): `TypeCorrect`, `ReferencesCounted`, `ReferencesNeverDangle`,
`CallersOwnSessions`, `ClosedNeverForgotten`, `ClosingStaysFinal` and the
refinement `TableImplementsLife`. The type correctness, `CallersOwnSessions`,
`ClosedNeverForgotten` and `ClosingStaysFinal` are not repeated by a run, the
refinement and `ClosingSessionEnds` being stronger. None of these is inductive
alone. The inductive invariant `IInv` adds to them where each server may have a
session (`ServerShape`), who is inside the blocking critical section
(`LockShape`, `DyingShape`), that a referred session is in the table
(`ReferredIsRunning`) and that semaphore and caller belong to a server that
refers to the session (`HolderShape`, `TidShape`). The counter needs the
cardinality of a set of servers, hence the assumption that `Servers` is finite.
Most actions are quiet: one lemma (`QuietStep`) deals with those that move no
reference.

`WebdarProofs` is about two specifications that share nothing, one after the
other in one module.

First `ServerPool` and `Webdar` (any number of objects, listeners, any size,
any command lines): `TypeCorrect`, `PeersStayBounded`, `ObjectsTrackedOnce` for
the pool once it is launched, then `PeersBoundedFromTheStart`,
`ObjectsTrackedFromTheStart` and `SocketsAsAsked` from the command line on. The
invariant of the pool adds that a listener between its test and its insertion
holds `verrou` and that there was room (`InsertShape`): a server that leaves
without the mutex only makes more. Before the launch no server, no listener and
no ended object exists (`NobodyYet`), whatever the way `main` takes, so that the
launch meets the initial states of the pool; afterwards each step is one of the
pool or one of `main`, which waits for its listeners. `SocketsAsAsked` says that
the listeners open what the options asked and nothing else: the loop that makes
them is followed by an invariant on the addresses still to be opened
(`StartShape`). That objects are tracked once is not repeated by a run.

Then `Pages`:

* `TheRightPasswordIsEnough` (any name, any passwords): who types the password
  is let in and nobody else is. The proof is that of the decoding of base64,
  block by block and for each of the three lengths of the last one, and of the
  C strings that the program compares;
* `SectionsStayInStep` (any tabs, any clicks): the invariant says that the tabs
  are those of one of their states, one per tab (`AtTab`), and that the section
  shown is the active one and is among the visible ones (`PartShown`), which
  `set_visible` keeps when the section it hides is the active one;
* `DefaultsAreComplete` (any library that is closed under use when it is asked
  for the defaults): each default that is made finds what it uses, which is
  earlier in the list, stored already or refused with it;
* `ListingIsTheArchive` (any archives, of any depth and width, libdar throwing
  anywhere, any number of times): the page is a tree; below each directory are
  the lines of its first subdirectories in the open archive, in order, all of
  them once it is expanded, with the buttons that it can use; the title names the
  directory whose contents are displayed. The exception is a directory at which
  libdar threw since this archive was opened (`cut`): the lines it has are the
  first ones still, the others never come.
  The invariant `ViewerInv` says that the components are typed, that `Adoption`
  keeps a forest (each component is the child of its parent and of no other, and
  a new one is above none), that a directory that was not listed has no child,
  and that the child at a place of a directory is the one for the entry at that
  place. The
  clicks of a user and the calls that throw are dealt with one handler at a time
  (`Handles`). The loops of the code that adopt or drop a sequence of children
  are folds: what one does is proved by induction on its length, that is by the
  least length at which it would fail, from what one step of the fold does.

`ParserProofs` (any stream of requests, any size of the buffer, any cut):

* `BufferIsStream`, as `BufferFollowsStream`, which needs nothing of the
  stream. The invariant adds the bounds of the indices (`ConnexionType`). Every
  action of `Parser` but `FillBuffer` either reads a cell that is in the buffer
  or leaves the buffer alone (lemma `OnlyMoves`).
* `AnsweredAsSent`, as `RequestsAnsweredAsSent`, under `RequestsAssumption`. The
  invariant `PInv` says, beside the types: as long as the thread is not cancelled
  nor its connection closed, how what the parser holds at each stage compares
  with what the client says there (`Normal`): it is the same, or a poll read the
  beginning of the request and what is left of it cannot be taken for one
  (`MethodLate`, `UriLate`, `VersionLate`, then `IsDoomed`), or a line was cut at
  the end of the buffer (`SplitAt`); what a signal may have cut in the first line
  of a request (`Cut`): the functions that follow read the rest of a method or of
  a URI as something else, and never go on with a request to be refused; what
  leads to a refusal, an abandon or a bug (`Reasons`); that the answers are those
  of the requests (`Answers`). A lemma by stage says what one more cell does to
  the request that is read and to the one that was sent (`MethodMoves`,
  `LineMoves`, `FoldMoves`...), with no state in it; the steps of the program
  cite it (`ReadMethodNormal`, `SkipLineNormal`, `ReadFoldNormal`...).

`LibdarControlProofs` (any bound on the pages that fail):
`TypeCorrect`, `NoBugMet`, `PageFollows` and the refinement of `Dialogue`,
`Dialogues`. The invariant follows the component by the mode of its session: at
rest it watches no thread (`RestShape`), while an operation runs its state says
what its thread does and when its page reloads itself (`RunningShape`), and a
question that no page has shown yet is on the page that is being built
(`RoundShape`), so that the POST that answers is about an earlier one. It holds
until a thread is refused; from there on only the types are claimed. The
refinement mapping is a function of the state, and each step of the server or of
libdar is a step of `Dialogue` or a stutter.

`LibraryProofs` is about the library, then about the forms it stores.

First `Library` (any categories, configurations and guichets):
`TypeCorrect`, `RecordsExact`, `WrittenWhenSaved`. The invariant says that the
library in memory and the one in the file are both sound (`IsSound`): the users
that a configuration records are stored, and what each one uses, followed to
any depth, never leads back to it. The second fact is what makes
`check_against_cyclic_dependencies` enough, and is proved of sets of
configurations closed under use, without induction over a depth. That the file
is sound is needed as it is uploaded again.

Then `Options` (any number of operations, any of the classes):
`FormsStayCoherent`, `DependenciesAreThoseSaved`, `OptionsAreThoseShown`. The
invariant `OptionsInv` says that the values of a form are those of its fields,
that what it shows, locks and restricts is `Coherent` with them unless a load
left it torn (`Sound`), and that what is stored has exactly the labels that
`Saved` gives for its own values (`IsSaved`), so that a load finds all it looks
for: it is then a sequence of assignments of which the last one of each field
counts. What one assignment does, class by class, is a lemma on values
(`CreateAssign`, `ComprAssign`...); that a sequence of them settles the form
(`AssignAllSets`) is proved by the least length at which it would not, as the
loops of `Pages`. The cases that look alike in the code and are not are where
the proofs differ: the read form follows its own type, a torn compression keeps
the threads it should not have, a function of derivation sets the least count of
iterations except while a load is mute.

`OperationsProofs` (any menu, operations and repositories): `TypeCorrect`,
`ParametersFound`, `PathsFollow`, `ReloadsJustified`. The invariant adds that a
popup watches a thread from its launch until its end is seen (`ThreadsWatched`),
that the round which nothing follows has launched what the components shown
need (`Reached`), and that the status asked for is reset by each round and kept
while the thread runs (`StatusReset`, `StatusKept`): this is why the getters
that the thread calls find the operation they expect (`AsksAnswered`).

`BrowseProofs` (any tree of directories and repositories): `TypeCorrect`,
`NoBugMet`, `ListingCurrent`, `ToldWhileBrowsing`. Nine invariants are inductive
together, until the server thread meets an error: on the thread that is watched
and the mutex it holds (`Watched`, `Locked`), the popup (`Opened`, `Loaded`),
the thread that reaches the repository (`Connected`), what a page at rest offers
and a request may find (`Offered`, `Requested`), the changes told in the round
(`Told`) and the warnings no page has shown (`Warned`).

`BodyBuilderProofs` (any tree of components, whatever their events do to each
other, any requests and any number of rounds): `TypeCorrect`, `PageStable`,
`PostKept`, `ActedOnce`. The first invariant says that a call in progress has
the texts of the children it is done with, unless its component is obsolete
(`FramesOK`), where obsolete is that its text is marked as changed or that an
event still to be acted will mark it; that one hidden while it is evaluated was
marked (`HiddenOK`); that the callers of an obsolete one are obsolete
(`CallersOK`), which is what `my_body_part_has_changed` owes to them although it
stops at a hidden component; that a cache that may be used holds what its
component shows (`CachesOK`). `Lineage` is a recursive function on the tree: the
facts about it come from its definition and from the closed sets of `IsTree`,
which say that everything is below the root (`TreeInduction`). That rounds end
before `maxloop`, the first conjunct of `PageIsStable`, depends on the handlers
and is only model-checked: the theorem is about the other states.

`PostKept` and `ActedOnce` rest on a second invariant, `Requested`, of the round
in progress. In the first round, the only one that gives a POST (`RoundOK`), the
components not evaluated yet (`Unvisited`) have no cached text to use instead of
an evaluation (`FreshOK`), and are as the user saw them or an event decided
otherwise (`LockedOK`, `SeenOK`, `UntouchedOK`): what is posted to them will be
taken, and is kept once it was (`TakenOK`). That no input is still locked by an
earlier page (`RestOK`) is the hard part: one is locked only after it told its
change (`LocksFollow`, `UnlockOK`), and a change that was told reaches each
visible ancestor or is still to be visited (`UpOK`), so that a round in which
the root has not changed has unlocked all that it shows, by induction on the
tree. `ButtonOK` and `FormOK` say how far the component that the request names
is: it has not acted and will be evaluated, or has acted once and is either
cached under the key of this request or given a GET.

Assumptions are those of the `ASSUME` of each module: types, finiteness of the
sets that are counted, and what the constructors of the code guarantee (a
component adopts only what has no parent, a repository has a root). TLC
evaluates them in the runs.

Only model-checked:

* every liveness property: fairness and ENABLED are out of the prover's reach;
* the first conjunct of `PageIsStable`, that a page is built in a few rounds;
* `LocksMatch`: with several categories, a load tells the selected lists of the
  filled ones only, and the property is that of the page used in the run;
* the first part of `StartsAsAsked`, how a command line is cut; that the
  listeners follow from it is `SocketsAsAsked`;
* `FormIsStored` of `Options`, two action properties on what a load replaces and
  on what is told of it;
* those of `Fields`, whose recursive operators are out of the prover's reach.

`IsLockedByUsers` holds only in behaviours where `UsedIsKept` does.

## 5. What is found

The violation run is a disagreement between the code and what it says of
itself; `PROJECT.json` ("findings") quotes both sides. The others were met
while modelling; the properties name them as exceptions, or the models give them
a status of their own:

* sessions: a kill while libdar asks a question holds `lock_running` for ever
  (`KillIsStuck`); a session may be closed between its test and its acquisition
  (`server.cpp:198`); two initial sessions for one user (`session.cpp:412`); a
  session is found locked by its own user's second connection;
* pool: its thread may end before a server that has left its peers
  (`DyingIsDeleted`); a signal taken between the join of a listener and its
  removal throws a bug exception before the pool is cancelled (`webdar.cpp:724`),
  and the loop of `catch` (`webdar.cpp:418`), which goes on to the next listener
  inside its `if` only, may then never end; the option `-l` refuses `[::]`
  followed by a port (`webdar.cpp:674`), ignores what follows the digits of a
  port and a comma at the end (`webdar_tools.cpp:83-117`), and so takes some IPv6
  addresses without brackets for a name and a port;
* parser: looking for the next request makes the server refuse it, and a line
  whose CR is the last byte of a full buffer is cut there
  (`RefusedForAReason`);
* control: a stop before the libdar thread has cleared its page makes it throw
  (`archive_test.cpp:58`); after an error while listing, the archive is still
  open and the next one meets a bug exception (`user_interface.cpp:319`);
* listing: `give_answer` catches no exception of libdar
  (`user_interface.cpp:160-181`) and `archive_init_list` converts none
  (`archive_init_list.cpp:50-68`): the connection is closed, and the directory,
  marked as read before it was (`html_dir_tree.cpp:250`), shows what it got for
  as long as the listing is open (`IsCut`);
* operations: `need_entrepot_update` is cleared before the repository is reached,
  so that a failure leaves the path where it was (`lost`); the reload of a page
  that waits may launch an operation (`html_libdar_running_popup.cpp:97`);
* library: a context that a failed load leaves behind
  (`html_bibliotheque.cpp:553`), categories emptied without an event;
* pages: a check box that an event shows while a POST is evaluated is taken for
  unchecked, as `knownhosts_check` of `html_entrepot` when SFTP is chosen
  (`ChangesForAReason`); a radio that `set_selected_num` locked without a change
  misses a POST (`PostIsTaken`); `body_builder.hpp` says that hidden components
  are evaluated all the same, `get_body_part_or_cache` does not evaluate them;
* options: changes of some fields are told to nobody (`Silent`); fields saved as
  what they are not, not saved or not cleared (`Survivors`), among which the mask
  of extended attributes of a backup (`html_options_create.cpp:1021`) and the
  threads of a reading (`html_options_read.cpp:593`), which survive a Clear; the
  merge form goes
  on ignoring its events once cleared, and the compression of a merge is
  not recorded as used, so that it can be deleted (`html_options_merge.cpp:528`);
  the hidden repository of a catalogue is recorded (`html_options_read.cpp:534`);
  some displayed fields are not passed to libdar (`Unpassed`); a count of
  iterations below the displayed minimum is kept by a load (`TooFew`), and the
  threads of a compression whose load failed are saved (`Restored`);
* forms: the lists of mount points and links do not hear of the names in their
  rows (`Deaf`); `html_form_same_fs` takes its rows for components of another
  type (`html_form_same_fs.cpp:202`); a size out of range is assigned, then
  refused; one minute has the name of another (`TypoMinute`);
* browsing: the page of a repository is reloaded under the URL of the button
  that opened it, which acts again (`html_entrepot_landing.cpp:329`); the
  statuses of `Browse` and `Operations` are checks that pages out of date meet.

## 6. Plan

In order of importance:

1. Proofs about the start: how `Webdar` cuts a command line.
2. Proofs for `Options`: `FormIsStored`.
3. Models: several sessions and one file of configurations, a crash while it is
   written; `Library` with a chain of three; the lists of actors changed during
   an event (`events.cpp:159`); a session destroyed while its libdar thread
   fails, composing `LibdarControl` with `SessionTable`.

## 7. Not modelled

libdar itself, TLS and sockets, system calls other than threads and mutexes;
layout, style sheets and logs; pages that only show something (demonstration,
statistics, version); the columns of a listing; cookies and multipart bodies;
what a protocol asks to reach a repository; what a criterion or a mask matches,
which is libdar's; `html_options_list`, which has no option; the encoding half
of `base64`, which nothing calls; dates as text and the other conversions of
`webdar_tools`; the file of the library shared by several sessions; the signals
that ask for a report. `PROJECT.json` ("components") says it part by part.
