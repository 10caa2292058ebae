# A verification project for Thoughts

Thoughts is a Go program that keeps a person's thoughts, activities and goals in
one SQLite file. It runs as a terminal program, as the same program served to a
browser over one WebSocket, as a command line and as a small HTTP API. The
browser edition can dictate thoughts with a local speech model and show a
background image or video.

This directory holds TLA+ models of the parts whose correctness depends on the
order of things, the TLC configurations that check them on small instances, and
proofs, checked by TLAPS, of what matters most for every size. `PROJECT.json`
says for every definition which lines of the source it stands for, lists the
runs, a defect each property detects (`mutants`), the hazards and the theorems.

## 1. Inventory

### How the program works

* **Stores** (`internal/data`): SQL over one SQLite connection. Every operation is
  one transaction; transactions of several processes exclude each other and the
  loser gets `ErrDatabaseBusy`. Rows are never removed but marked `deleted_at`;
  rows that people edit carry a `version`, and a write names the version it read.
* **Services** (`internal/event`, `goal`, `goalassignment`, `subject`, `thought`,
  ...): validation, clock, and one store call each, except `goal.Service.Update`,
  which reads before it writes.
* **Screens** (`internal/tui`): a Bubble Tea program. One loop runs every `Update`;
  services are called by commands on goroutines of their own, whose results come
  back as messages later, and perhaps too late.
* **Browser terminal** (`internal/browserterm`): one session at a time; goroutines
  for the socket, for each recording (worker, consumer, audio connection) and for
  delivery to the loop.
* **Speech** (`internal/modelassets`, `internal/speech/moonshine`,
  `cmd/thoughts-tui/speech_setup.go`): a model directory that all processes share,
  an installer and repairer of it, and a transcriber that maps its files.
* **Background** (`internal/visual`): files on disk, selected by a row in SQLite.

### Components

| Component | State | Operations | Hard because | Correct when |
|---|---|---|---|---|
| Event store | events, their Subjects, contributions | start, add past, end, update, read | a start closes another Event; versions; three ways to complete | no overlaps, no lost update, credit only as earned |
| Goal, link and hierarchy stores | goals, numbered links, parent edges | create, update, delete, link, relink, parents | two reads before a write; links and edges outlive deletion | numbers stay, no cycle, no lost update |
| Subject and alias stores | names and aliases in one namespace | create, rename, delete, alias, promote an alias | two tables, one namespace; confirmations reviewed earlier | one live owner per name |
| Thought store | thoughts, versions, mindset periods | create, update, assign, delete, set mindset | versions against Subject deletion; client-chosen times | no lost update, ordered periods |
| Voice recording | draft, authority, queues, goroutines | start, stop, replace, chunk, publish, end, close | seven actors, cancellation that cannot recall a message | no text after stop, one consumer, an end that arrives |
| Speech model | directory, marker, lock, uses, transcriber, stream | load, install, repair, record, close | several processes, crashes, cleanup that fails | files in use and valid files stay |
| Browser session | slot, session, commands | connect, input, quit, shut down | reconnection against cleanup | one session at a time |
| Video editor | gate, identities, files | open, close, upload, preview, apply | delayed cleanup against a new screen | no other's files are discarded |
| Visual service | files, settings row | import, apply, restore | two stores, crash in between | a selection has its file |
| Home timeline | the day, its list, counts and times, cards, the Event form | move, reload, follow the clock, open a card, start, end, paste, pick Subjects | four reads per load that answer late; minutes and saves that reload; a form that is suspended | one day shown at a time, one's own save in it, a draft as it was left |
| Goals screen | list, details, form, picker, filters | open, edit, pick, create a Subject, filter, search | one awaited request among many under way; an index into a list that changes | the Goal asked for, the Subject chosen by name |
| Subject screens and root | lists, details, aliases, three drafts that wait | create, edit, delete, alias, promote, return | one creation form for three callers; writes confirmed after reads | lists known to be stale, drafts that get their Subject |
| Thoughts screen | a bounded window of rows, details, a draft, the designation | move, refresh, open, create, designate | batches at both edges while Thoughts arrive anywhere | no row skipped or lost |
| Voice draft's Subject | text, cue, suggestion, names | dictate, type, stop, pick, create, save | names, revisions, the end and keys in any order | only a cue is cut, only on evidence |
| Speech-setup popup | state of the popup, mailbox and watcher of each download | check, download, repair, hide, cancel, try again | reports and results of attempts that were cancelled or hidden | only the last attempt counts, speech is offered when it is there |
| Visual screen and its page | controls, the page's file and preview, async tasks | choose, cut, preview, stop, apply, remove | three parties, each with its own "current" | what is saved is what was previewed |
| Reads | none | timeline, metrics, progress | arithmetic on ranges | time is neither lost nor doubled |

`PROJECT.json` lists these with their sources, those that are not modelled with the
reason, and 40 hazards with the line where each one bites.

### Interactions

* The Event store reads links, Subjects and Goal activation in its own
  transactions to decide credit. `GoalCatalog` is that view; `EventStore` extends it
  and `GoalStore` is shown to implement it.
* Deleting a Subject is one transaction over subjects, aliases, thoughts, events and
  assignments. Each model has the part of it that its component sees.
* The editor and the audio session share the authority of a recording
  (`internal/voice`), which either may revoke; everything else between them is a
  message. Both are in `VoiceRecording`.
* The audio session asks the speech setup for a stream. `VoiceRecording` sees a
  consumer that may or may not be created; `SpeechModel` sees streams that are
  started, used and closed. What the first assumes of the second, one stream at a
  time, is `OneConsumer` there and the guard of `StartStream` here.
* A browser session runs the program; the program's loop opens and closes the Visual
  screen and so the session's video editor; HTTP requests find that editor through
  the server. `BrowserSession` extends `VideoEditor` and has all three.
* An accepted loop is handed to the visual service. `VideoEditor` sees a step that may
  fail, `VisualStore` the files and the row.
* The root model routes messages to the screens and owns the one form that creates a
  Subject. `EventForm`, `GoalsScreen` and `SpokenSubject` see it as a caller does (a
  request, and a return with or without a Subject), `SubjectsScreen` from the root's side,
  with the three callers as drafts that wait.
* The Visual screen and the page exchange numbered operations and answers; the page's
  requests reach the video editor. `VisualScreen` has the first two and sees the editor's
  files; `VideoEditor` has the requests, the gate and the cleanup behind them.
* The screens read what the stores hold by the time a command runs; `EventCards`,
  `GoalsScreen`, `SubjectsScreen` and `ThoughtBrowser` let other sessions change it.

## 2. Modules

| Module | Models | Checked by | Proved in |
|---|---|---|---|
| `GoalCatalog` | Subjects, Goals and links as the Event store sees them | with the next two | `GoalStoreProofs` |
| `EventStore` | the Event store | `MCEventStore` | `EventStoreProofs` |
| `GoalStore` | the Goal, link and hierarchy stores | `MCGoalStore` | `GoalStoreProofs` |
| `VoiceRecording` | a session's recordings | itself | `SpeechProofs` |
| `SpeechModel` | the shared speech model | itself | `SpeechProofs` |
| `SubjectNames` | names and aliases of Subjects | `MCThoughtStore` | `ThoughtStoreProofs` |
| `ThoughtStore` | the Thought store and its mindset periods, over `SubjectNames` | `MCThoughtStore` | `ThoughtStoreProofs` |
| `VisualStore` | the background's files and row | `MCScreens` | `ScreensProofs` |
| `VideoEditor` | the editors behind the Visual screen, their requests and cleanup | with the next | `BrowserSessionProofs` |
| `BrowserSession` | admission, commands and shutdown of sessions, over `VideoEditor` | `MCBrowserSession` | `BrowserSessionProofs` |
| `DayLoad` | which day the home timeline reads and shows | `MCScreens` | `ReadingScreensProofs` |
| `EventCards` | its cards, and Events that are started and ended on them | `MCScreens` | `ReadingScreensProofs` |
| `EventForm` | the form of an Event: fields, paste, Subject picker, creation, save | `MCScreens` | `WritingScreensProofs` |
| `GoalsScreen` | the requests of the Goals screen, its form and Subject picker | `MCScreens`, itself | `ReadingScreensProofs` |
| `GoalFilters` | the filters of the Goal list and the search in its Subject menu | `MCScreens` | `ReadingScreensProofs` |
| `SubjectsScreen` | the Subject and alias screens and the root's routes to them | `MCScreens` | `WritingScreensProofs` |
| `ThoughtBrowser` | the window of Thoughts, details, creation, designation | `MCScreens`, itself | `WritingScreensProofs` |
| `SpokenSubject` | the Subject that a dictation suggests for a draft | `MCScreens` | `WritingScreensProofs` |
| `VisualScreen` | the Visual screen and the page of the browser | `MCScreens`, itself | `ReadingScreensProofs` |
| `SpeechSetup` | the popup that checks, downloads and repairs the speech model | `MCScreens` | `ReadingScreensProofs` |
| `Screens`, with `ReadingScreens`, `WritingScreens`, `ScreenSlots` | the ten screens and the files of the background as one specification | `MCScreens` | `ScreensProofs` |

In every module an operator that begins with "Mutant of" in its comment is
a wrong version of the next definition. It is used by no specification; putting it
in that definition's place makes TLC violate the property named in `PROJECT.json`.

**EventStore.** A row is `[start, end, version]`; an end of `MaxTime + 1` is
`ended_at NULL`, so that one definition of `Overlap` covers ongoing Events as the SQL
does. One action is one transaction with its service's validation: `StartEvent` closes
the running Event, reconciles its credit and inserts the new one; `AddPastEvent`,
`EndEvent`, `UpdateEvent`, and `DeleteSubject` follow their functions. A transaction
that fails leaves nothing behind and is therefore no step. Clients hold the row they
read, as the screens do. One user owns every row.

**GoalStore.** `Numbered` is `activateGoalSubject`: a link keeps its number for good.
The read of a Goal, the read of its Subjects and the read of its omitted activation
are separate actions, because the code makes them in separate transactions.
Ancestors follow `goal_parents` through deleted Goals, as the recursive trigger does.
`Catalog` is the refinement mapping to `GoalCatalog`.

**VoiceRecording.** One action is what one goroutine does between two points at which
another may run: the loop's `Update` and the `Synchronize` after it are two actions,
since a worker may end in between; publication is two, since it asks the authority
first and fills the slot later. `Stopped(r)` is `stopRecording`. Texts are revision
numbers, PCM is a count. A draft may be replaced in any status: the screens ask the
user first while one records, but `Reset` itself has no such guard.

**SpeechModel.** `step` is the place of a process in a setup call; each step is one
file operation or one native call. The files of the revision are one value
(`absent`, `intact`, `broken`, `damaged`), the marker another, since their order is
the point. The lock directory outlives a crash, the `flock` of a use does not.
`GiveUp` is every failure and cancellation; the deferred releases follow it in their
order. A process may crash at any step (`Exit`), others may damage the files at any
time, and a stale lock is removed by hand when no installer runs, as
`internal/modelassets/catalog.go` asks.

**SubjectNames.** Two tables share one namespace: `SubjectMayBe` and `AliasMayBe` are each
the unique index of the one and the trigger against the other. `ReviewConflict` is the
read that follows a refused creation; what the client is shown is kept until
`CreateSubjectFromAlias` compares it. Case folding is not modelled: a name is a name in
the form in which the index compares it.

**ThoughtStore.** `NameStep` is every action of `SubjectNames` but the deletion of a
Subject, which `DeleteSubject` repeats together with what it does to Thoughts: one
transaction. `LatestIndex` is the query that every mindset change begins with. A
client chooses `at` before its command is carried out, so any time may arrive.

**VisualStore.** Each step is one file operation or one write of the row, so that a
crash can come between any two (`Crash`). A removal that fails leaves its file behind.
The database is written by one process, and a save that fails is taken to have saved
nothing.

**VideoEditor, BrowserSession.** `step` is where a request's goroutine is: before the
gate, behind it, or in a transfer or a media tool. `phase` is where the handler of a
socket is; each step of its deferred cleanup is an action. Random identities are numbers
in the order in which they are drawn. `CallbacksRan` is the one assumption about time: a
`context.AfterFunc` callback, a goroutine that has nothing to wait for, runs before
the next message of a user or a browser is handled and before a media tool is done.
The code has no other barrier between the end of a screen or a rendering and a request
that was admitted for it; without the assumption such a request could finish late.

**The screens.** Ten modules follow one pattern. Update handles one message at a time, so
each key and each answer is one action, with everything its handler calls. What a handler
starts is a message in `wire`: it runs once, at any later time (`Run`), and is answered or
fails later still. The code tells a current answer from an old one by a token, a revision
or a pointer that it compares with its own. Where several are compared with each other
(`DayLoad`, `EventCards`, `GoalsScreen`) they are numbers; where an answer is only ever
compared with the last one, the message has a flag `live`, which is cleared where the code
takes a new token. Keys are limited by `MaxWire` and similar bounds; answers never are.

**DayLoad, EventCards, EventForm.** A day's load starts three reads and a fourth of the
times of its Subjects, each with its own way to become old; the minute's tick, midnight,
keys, saves and closing start new ones. `EventCards` has the cards: what is selected, what
is opened, where the selection lands when a list comes in, and whether a save of one's own
is in it. `EventForm` has the draft: a paste belongs to one revision of it, the list of
Subjects to the form, and while the root creates a Subject for it the draft is suspended.

**GoalsScreen, GoalFilters.** `beginRequest` replaces the one owner token; a Goal and its
Subjects are known by the version of the Goal, so that `AcceptedWasSeen` can say that a
replacement was chosen from what it replaces. `GoalFilters` starts where `GoalsScreen`
accepts a list: the Subject filter is an index into the Subjects of the list, which
`Resolved` finds again in the next one; searches of the menu run as commands of
`listfilter.Scope`.

**SubjectsScreen.** `waits` are the drafts of other screens, `return` the pointers of the
root; `First` is the order in which a creation looks at them. `NoAlias`, `ReadBack` and
`Retire` are about the aliases of the Subject shown, which are read again after each write.

**ThoughtBrowser.** A Thought is its place in the order of the store; the window holds at
most three batches, and `Evicted` is the edge that goes. What a superseded read has seen is
dropped, which keeps the model small enough for three Thoughts that arrive anywhere.
A designation is applied twice: when the result of `SetMindset` is taken (`TakeMindset`), and
when the `MindsetChanged` that taking it sends has come back through the root (`TakeChanged`),
which is at any later time and checks neither owner nor request. `changed` counts those under
way by their value, since nothing orders them; `MaxWire` bounds how many there are when the key
is pressed again. `overtaken` is a history variable: where such a message has brought
back a designation that was changed meanwhile. `BadgesAreTrue` says that every badge shown is
the one stored, except there, and there again from the next answer about the Thought on.

**SpokenSubject.** Four cues stand for what the parser of spoken commands tells apart, and
four findings for what the stored names make of one. A draft keeps the text beside what it
would be had nothing been cut (`spoken`); `evidence` is what was known when the recording
ended.

**VisualScreen.** Three parties: the program's controls (`tui`), the page with its async
tasks, and the files of the editor. A task goes on from one `await` to the next; `cur` says
whether its operation is the page's last one. `Left` is what a new operation aborts. A load
or a choice that fails may bring the stored background back into the page (`Restored`), which
then counts as saved there (`Activated`).

**SpeechSetup.** The calls of the setup service, whose work on the files `SpeechModel` has,
are what they answer: at most one way on, and whether they failed. A download reports into a
mailbox of one; a watcher command carries one report at a time to the loop, and only the
report that is taken as current starts the next. `Offered` runs at the end of every
`Update`, so it is part of every action of the popup (`Becomes`).

## 3. Runs

| Run | Instance | Shows |
|---|---|---|
| `events` | 3 Events without Subjects, clock 0..3; or 2 Events, 2 Subjects, 1 Goal, clock 0..1; 1 client, versions to 3 | `NoOverlap`, `EarnedThroughAssignment`, `CurrentVersionMeansCurrentRow`, `EarnedIsKept`, `CompletionCredits` |
| `goal_links` | 2 Subjects and 2 Goals without edges; or 3 Goals without Subjects; 1 client, versions to 3 | `NumbersAreReferences`, `NoCycle`, `CurrentVersionMeansCurrentGoal`, `NumbersAreStable`, `ImplementsCatalog` |
| `voice` | 2 recordings, 1 update each, queue of 1, with fairness | `RecordingsAreJoined`, `DraftIsFrozen`, `StopCompletes`, `CloseCompletes` |
| `speech_model` | 2 processes | `MarkedIsComplete`, `StreamHasModel`, `LostModelStopsRepair`, `UsedModelStays`, `ValidModelSurvives`, `CallsReturn` |
| `speech_lost_stream` | 2 processes | the first finding below |
| `thoughts` | 2 Subjects, 1 alias, 3 names, 2 clients, 1 Thought, versions to 3, clock 0..2, 2 periods | `OneOwnerPerName`, `RefusedNameResolves`, `PromotionTakesReviewed`, `AcceptedEditIsCurrent`, `EveryThoughtIsListed`, `PeriodsChronological` |
| `video_editor` | 1 session, 2 openings of the screen, 2 requests, 1 rendering, 2 files | `FilesInUseStay`, `OtherScreensFilesStay`, `StoppedMeansStopped` |
| `browser_sessions` | 2 sessions, 1 opening, 2 requests, 1 file, with fairness | `NothingOutlives`, `SessionsEnd` |
| `screens` | the ten screens and `VisualStore`, one of them in each behaviour | `AwaitedIsComing`, `ShownIsRequested`, `OwnChangesAreShown`, `NothingIsLost`, `SpeechIsKept`, `SavedAsShown`, `StepsAreContinuous`, `SelectionIsComplete`, `ReadersFindFiles` |
| `goals_creation` | 1 Goal, 4 requests | the second finding |
| `visual_late` | 1 cut | the third finding |
| `mindset_late` | 1 Thought | the fourth finding |

The comment before each property says what it claims about which code. Type invariants and
`OneMutator` are proved, which needs no run.

**`screens`** is a union. The screens share nothing that their properties are about, so
`Screens` has each as an instance over the same eleven variables (`ScreenSlots`) and a
behaviour chooses one of them at first (`at`). Its properties are each a conjunction over the
screens that have something to say about it, "what is awaited is on its way" for instance;
the conjuncts, with their comments, are in the screens' modules. The run has as many
states as its eleven instances together, about two and a half million.

**Constraints.** `TrackOrCredit` and `LinksOrHierarchy` do the same inside one module: no
decision about overlaps reads an assignment and no trigger about edges reads a link, so the
third Event or Goal is explored without Subjects.

**Bounds.** Three Events are needed for a late entry between two others; two clients for
one to write behind the other; four seconds for intervals that touch, nest and are
empty. Credit needs a Subject that stays and one that goes, and three versions for
"read, changed by a deletion, written". Two Goals of a Subject compete for a number;
a cycle that a deleted Goal hides has three Goals. Two recordings are the old and the
new one; the third waits for the second as the second for the first. With one
update each, that of the old one meets that of the new one in the slot, and a queue of one
is full at once; a later update that replaces one of the same recording is covered by the
theorems, which hold for any `MaxRevision`. Locks are
between pairs of processes, so two show every conflict.
Three names leave one free while a Subject and an alias have the others; two clients
are the one that reviews or edits and the one that comes between; two periods are the
one that ends and the one that may begin too early. `SubjectNames` with more of each is
covered by its proofs. A background is replaced by one of either kind, so there are two
of each. Two openings of the Visual screen are the closed one and its successor; two
sessions the one that leaves and the one that reconnects. The two browser runs are one
specification with different bounds: with all of them large at once it has millions of
states and shows nothing that one of the two does not.

On the screens, two days and three minutes have a midnight between them; three cards are
an Event before, a group of Thoughts and an Event after it; two Goals and two Subjects are
the one shown and another; six Thoughts are three that are there and three that arrive
between and beside them, with batches of one and a window of three. Two loads, or one more
request than can be awaited, make one answer late. Two recordings of a draft are the one
that begins it and one that continues it; two cuts are the previewed loop and the next; two
downloads are the cancelled one and the one that is tried after it.

`MaxTime`, `MaxVersion` and the numbers of rows are real ends of the store models,
sessions and identities are used up in the browser's, where the server also returns, and
the keys of some screens are counted: their configurations set `CHECK_DEADLOCK FALSE`. In
the voice and speech runs deadlock is checked. Symmetry is used only in runs without
liveness properties.

**Fairness** (`VoiceRecording`). Goroutines are scheduled, so the loop, the worker, the
consumer, the delivery goroutine and the steps of `connect` are weakly fair; the
recognizer's calls return. `TakeMessages` is fair as one action: senders to the
program wait in line on one channel, and with two of them a turn comes. Users,
browsers and timers promise nothing.
`StopCompletes` allows the session to end first, as the code does.

**Fairness** (`SpeechModel`). A call goes on and a native call returns (weak). `Retire` is
strongly fair: the runtime gate is a channel whose waiting senders are served in
turn, so a stream that starts inferring again and again does not starve it.

**Fairness** (`BrowserSession`). Goroutines run; a started command goes on; a program
ends once its context is cancelled; a handler that was cancelled returns, because its
deadline interrupts the transfer and its context the media tool. A handler that is not
cancelled may stall for ever, users and browsers promise nothing, and a command that was
not started never has to be. `SessionsEnd` therefore says that stopping, and not a
patient client, is what ends a session.

The screens are checked for safety only. That an awaited answer is under way
(`AwaitedIsComing`) is what a liveness property would rest on; that it arrives then depends
on the database and the browser, of which nothing is assumed.

### Findings

**A lost stream does not stop repair** (`speech_lost_stream`). `docs/moonshine.md:101` says
that repair stops once the cleanup of a native resource has failed, until Thoughts is
restarted. The code does so for the model and for a stream that its transcriber closes. A
stream whose own `Close` fails, or which `StartStream` closes because its context ended,
is forgotten: the transcriber's `Close` finds no stream and no error, gives up the
installation use, and repair goes on (`internal/speech/moonshine/stream.go`,
`transcriber.go`).

**A picker that waits for nothing** (`goals_creation`). In the Goals screen the token
`subjectCreation` is meant to identify the visit of the picker that asked for a Subject
(`goals/model.go:102`, `subject_creation.go:8-9`). If that visit is left with Esc before
the root has taken the request, the token stays: the root drops the request, and the picker,
when it is opened again, ignores its keys. Esc still leaves it, and closing the screen
clears the token.

**Late results reach a new page** (`visual_late`). `tui/options.go:47` says that late
results cannot affect a new page because each operation has a number. The page compares it
when it answers, but not between an `await` and what follows in `previewFile`, nor when a
save with a warning discards the preview (`visual.js:374-384`, `551-552`). The program then
offers a video that the page no longer holds. In `VisualScreen` such a step sets `strayed`;
the other properties are stated for behaviours without it.

**An old designation comes back** (`mindset_late`). The comment at `thoughts/mindset.go:69-70`
says that the row "already contains the last accepted designation", and the key that changes
it goes by that. `receiveMindset` applies a result, allows the key again and returns a command
whose `MindsetChanged` the root routes back to the screen (`mindset.go:104-107`,
`tui/model.go:260-267`), where `applyMindset` (`:110-127`) sets row and details
without asking which change it was. If the user has changed the designation again and that
result was taken first, the message of the earlier change brings the old badge back. It stays
until the Thought is read again or the later change's message comes after it; with the order
reversed nothing corrects it, and the next key writes the designation the Thought already has.

Two things are worth knowing that no document speaks against. A Subject created for an
Event form while the form's list is still being read, or after that read failed, leaves the
new Subject as the only one to choose from; tests ask for the read's cancellation
(`events/subject.go:165-171`). And after two errors of the page, a stop that failed or a
picker that could not be shown, the page may hold a preview that the program does not know
of (`missed` in `VisualScreen`); Apply then saves it.

## 4. Proofs

The theorems hold for all sets of Events, Subjects, Goals, clients and processes, and
for all bounds. What is assumed of the constants is named in the modules: the bounds
are natural numbers, `Nothing` is not a value of the kind it stands for, and an empty
search matches every Subject.

**EventStoreProofs.** `IInv` adds two facts to the properties. `AssignedLive`: only inserted
Events have Subjects, and live ones; without it a deleted Subject could be removed
from an Event and take credit along. `HeldBehind`: no client holds a version from the
future; without it a row written later could reach a held version by chance. The
argument for `NoOverlap` is that a write either fits among the others (`Fits`) or only
shortens an interval; the one for versions is that whatever changes a row or its
Subjects advances its version (`ChangeAdvancesVersion`). `EarnedIsKept` and
`CompletionCredits` are proved per step from `IInv`.

**GoalStoreProofs.** `NumbersBounded` says that the numbers given out have an upper bound, so
that their maximum exists even over infinitely many Goals; a new number exceeds all
others of its Subject. For `NoCycle`: adding an
edge keeps the graph acyclic when the child is not above the parent, by the least
set closed under the edges, without induction. `LinksKnown` keeps a Subject that is
created later out of what a client listed before. The refinement maps each action
to the catalog action it is, and reads and parents to a stutter.

**ThoughtStoreProofs.** Its first part is about `SubjectNames`, whose actions it repeats.
The namespace needs `AliasesHaveSubjects`: a live alias belongs to a live Subject, or its name could be taken by neither check.
`LiveNamed` gives live rows a name. For Thoughts, `AssignedToLive` keeps a live Thought out
of deleted Subjects, so that it is in one list, and `HeldBehind` is as in the Event
store. `PeriodsChronological` needs that a period does not end before it starts; then
the latest by its start is the last inserted (`LatestIsLast`), which is what makes the
check against one row enough.

**SpeechProofs.** Of recordings, `Ordered` is the life of a recording across its seven actors.
`BornInOrder`: what has not been started has no worker, connection or consumer.
`ActiveOwns` and `ConsumerIsOwned`: a worker that has not ended is the session's active
one, and a consumer that has not closed has such a worker; there is one active recording, so there
is one consumer. `RevokedBeforeJoin`: a worker that joins has been stopped.
`AuthorityHasWorker`: only the recording of the draft may still change it. `EndIsLast`: an
end that is under way, wherever it is, is of a worker that joined its consumer.
`ClosedLast`: each step of `close` has the ones before it behind it. `RecordingsAreJoined`
is a consequence; `DraftIsFrozen` is proved per action from the invariant, most of which
do not touch what a draft accepted.

Of the model, `ModelIInv` says what each step of a call holds: the lock directory from
`Lock` to `Unlock`, the exclusive use from `Claim` to `Release`, the shared use while a
transcriber may map the files (`HoldsOK`); that exclusive uses exclude
others (`ExclusionOK`); and what is on the disk at each step (`DiskOK`). The six safety
properties follow; `UsedModelStays` and `ValidModelSurvives` from who may
change the files at all (`WhoChangesFiles`).

**BrowserSessionProofs.** `EditorInv` is about the editors and their requests: `GateHeld` (at
most one request is behind the gate), `RequestsAreFor` (which editor, session and screen a
request may be for), `OwnsFiles` (files belong to one screen's opening), `ScreensAreDrawn`
and `RenderingsAreDrawn` (identities in use were drawn, so a new one is different from
all), and `LateAreCancelled`: a request whose screen or rendering has ended was
cancelled, which is where the assumption on callbacks comes in. `SessionInv` says what is
left at each phase of a connection's end: no screen after the program, no command after
`Stop` has joined them, no files after the editor was closed; `OneSlot` that one
connection is past admission and `EndedFirst`, `ServeJoins` the same for the end of the
server. `NothingOutlives` needs all phases together: dropping any one leaves the step
after it unjustified. The two properties of steps, `OtherScreensFilesStay` and
`StoppedMeansStopped`, follow per action.

**ScreensProofs.** A behaviour stays on its screen, so an invariant of all of them is one of
each (`ScreensInv`), and the theorems about the properties of the `screens` run follow. The
lemmas are in `ReadingScreensProofs` and `WritingScreensProofs`. Each screen's module ends
with the inductive invariant `IInv` that its proof rests on; every key, answer and step of
another session has a lemma. What the invariants have in common: numbers given out are
behind the last one, at most one message of a kind is the awaited one, and what a message
carries was true when it was read and is at most as old as it says.

* The files of the background: `GateHeld`, every request past its beginning holds the
  gate, so one at most does (`OneJob`). `RowIsCurrent`: what it loaded is still selected
  until its own save. `NewFiles` and `OldFiles`: the files it writes are not the selected
  ones, and those it removes are no longer or not yet selected. `SelectionIsComplete` and
  `ReadersFindFiles` follow in any state, so also after a crash.
* `DayLoad`: the entries, counts and times that are awaited are of the day and minute that
  the screen would show (`OfTheLoad`), and times are read in the order of their
  requests (`TimesInOrder`, `NotAhead`).
* `EventCards`: a list that was read after a save has the Event (`ListsOK`); a card that is
  being opened is the one selected when the key was pressed (`CardOK`); a form knows
  the Event it ends (`FormOK`).
* `GoalsScreen`: an awaited answer is what the view asked for (`OneAwaited`, `Expected`),
  and the Subjects in the picker were read after its Goal (`ReadOK`, `PickerOK`). A save
  of Subjects is accepted for the version of the Goal, which a change would have advanced;
  that the two reads are separate does not matter because of their order.
* `SubjectsScreen`: a draft waits where it was left (`WaitsWhereAsked`), one answer of a
  kind is wanted (`OneWanted`), and one that is wanted saw all of one's own changes or the
  list is known to be stale (`SawAll`, `AliasOK`).
* `SpeechSetup`: one download is under way and its reports arrive in order (`OneAtATime`,
  `InOrder`, `ReportsOK`); a popup that says "ready" has a transcriber (`LoadedOK`).
* `ThoughtBrowser`: the rows are a window without gaps of what was there when they were read
  (`RowsOK`, `EdgesOK`, `Seen`), and a page that arrives continues them (`ReadsOK`). For
  `NothingIsSkipped` it is also needed that a page was asked for from the selected row
  (`StepsOK`); a page has at most `Batch` Thoughts (`BatchSize`), so the row it continues
  is never among those that it evicts (`CursorStays`), and the selection ends beside it.
  `BadgesOK`: the result of a change brings the stored designation; a `MindsetChanged`
  either agrees with the store or is known to be overtaken.
* `GoalFilters`: the index that is kept is the place of the Subject that was chosen among
  those offered now (`IndexIsOfWanted`), so its menu may only be open while they are
  current (`MenuIsOfRows`), and a live search is for the query in the menu
  (`SearchesAreOfMenu`). Counting those offered gives each a place of its own.
* `VisualScreen`: a request goes to the page, becomes a task there, and its answers come
  back; three more requests may overtake one that is awaited. `FramesOK` says which
  requests may be on their way one behind another (`BeginsOne`, `StopsOne`, `DiscardsOne`,
  `OpensOne`) and that the last is the one awaited; `TasksOK` that what the page works on
  belongs to it, or to what the next request ends; `ActsOK` that then no final answer is
  on its way and otherwise exactly one is. `CandidateOK`, `AnswersOK`, `LoopIsKnown` and
  `SavesOK` compare what the page holds with what the program was told and will be told;
  `SavedAsPreviewed`
  is what `SavesOK` says of the step that stores.
* `EventForm`: a live save carries the draft shown (`SavesOK`), a live paste fits the text
  and the focus (`PastesOK`), a live list was asked for before any Subject was created
  (`ListsOK`); a late list would otherwise remove one.
* `SpokenSubject`: `DraftOK` relates the text of a draft to what was said for it and to the
  cue that was taken out (`Taken`); every handler is a composition of few parts, for
  each of which a lemma says that it takes at most the cue.

**Only model-checked:** liveness (`StopCompletes`, `CloseCompletes`, `CallsReturn`,
`SessionsEnd`), which is outside what the prover can do. Every other property of a
passing run is a theorem. `AwaitedIsComing` of a screen is a safety property: that the answer is
on its way, not that it arrives.

## 5. Not modelled

Parsers and media processing, formatting, logging, preferences and the API are
sequential and depend on data rather than order. Reads (timeline, metrics, progress) change
nothing; what they return is arithmetic over rows that the stores' models keep consistent.
In the modelled components: settings of a Goal other than activation, the files of a model
revision one by one, download timers, the messages a recording ends with. On the screens:
layout, scrolling, the mouse, editing commands within a field, the other options pages,
framing and playback of the Visual screen, the list of mindset
periods and the list filter of the Goals (its menu has one). Two users do not interact:
every statement is confined to one `user_id`. A commit whose outcome the caller does not
learn (the process dies) is the action or no action, as for any transaction.

## 6. Plan

Done: the stores, recordings, the speech model, names and Thoughts, the background, the
browser session and the screens. What would come next:

1. Reads as operators: the time of a range split over the Subjects of its Events, and the
   progress of Goals, against a definition second by second; the merge of the timeline.
2. One abstract specification, "only the latest request is answered", that `DayLoad`,
   `GoalsScreen` and the others are shown to implement.
