# Specifications of the desktop chat client

TLA+ models of the program under `src/src/`, TLC configurations that check them
on small instances, and TLAPS proofs of what holds on every instance. Paths below
are relative to the repository.

## 1. The system

A Qt program with a login form and a main window. It talks to one server over TCP
with length-prefixed protobuf messages and keeps the messages it has seen in a
SQLite table.

| Component | State it keeps | Operations |
|---|---|---|
| `Client` (client/client.*) | socket and its mutex, `msg_to_server`, `__read_buffer`, `client_id`, `m_channels_history` | `do_connect` → `send_login_request` → header/body reads, one handler per response; `add_msg_to_send`/`start_send_msgs`; `close_connection`; `get_ptr_history` |
| `Control` (control/control.*) | `client`, `cacher`, the two windows | `autorisation`/`registration` start a detached thread in `connect_to_server`; slots `change_window`, `channels_received`, `joined`, `history_received`, `text_from_client`; `get_text_from_gui`, `join_to_channel` |
| `HistoryCacher` (cache/history_cacher.*) | `client_`, the cache | `set_client`; slots `on_authorized`, `on_channels_received`, `on_joined`, `on_message_received`, `on_history_received` |
| `SqliteCache` (cache/sqlitecache.h) | table `history` | `load`, `save`, `keys` |
| `MainWindow`, `ChannelWidget`, `ChatDelegate` (gui/) | `channels_` (the widgets), the channel list, the message list, the selected channel | `add_channel`, `channel_selected`, `message_received`, `history_received`, `join_clicked`, `send_clicked` |
| `LoginWidget` | the form | starts an attempt |
| the server (not in the repository) | who is in which channel, all messages | answers requests in order, echoes new messages |

**Threads.** The GUI thread runs every slot and every user action. Each login
attempt has a detached *worker* thread, which runs `connect_to_server` and then
joins an *io* thread that runs this attempt's `io_service`. The handlers of
`Client` run on the io thread. Only `close_connection` takes a lock.

**Interactions.** The io thread emits signals; `Control` and `HistoryCacher` live
in the GUI thread, so each emit queues a slot call per connection. `Control`
connects first (`control.cpp:64-68`), then `set_client` (`:70`), so for one signal
`Control`'s slot call stands before the cacher's. `m_channels_history` is written
by the io thread (echo, history) and by the GUI thread (cache load, new entries);
`msg_to_server` is pushed by the GUI thread and popped by the io thread;
`Control::client` and `HistoryCacher::client_` are assigned by worker threads and
read by the GUI thread.

**What is hard.**

- The test, push and start of a send against the pop and test of the write handler.
- Attempts that overlap share two pointers, and a client outlives its `io_service`.
- The chain of reads can end without a close, and only the worker closes then.
- The synchronisation (login → cached rows → channels → one history request per
  channel → rows saved) is spread over three queues, and an echo or a crash can
  come between any two of its steps.
- A list row is only a number: which message it shows is decided when painting.

What makes each component correct: the send side delivers once and in order
(§3.1); an attempt closes what it opened and nothing else, and runs no handler on a
dead object (§3.2); the cache grows in order and without repetition whatever
crashes, and memory, cache and widgets agree with it (§3.3); each row has the
message it was added for (§3.4). Of this the program does a part only: where the
threads can break it a violated run shows how, and a passing run shows what is true
in every schedule, or from where on it stops being true.

`PROJECT.json` lists the hazards with their lines and the properties aimed at each.

## 2. Modules

| Module | What it is |
|---|---|
| `FifoLink` | abstract: an ordered link that loses only what follows a close |
| `SendQueue` | `add_msg_to_send`, `start_send_msgs` and the write handler, step by step on both threads; refines `FifoLink` |
| `LoginSessions` | attempts, workers, io threads, the chain of reads of each client, codes, sends on whatever client is current |
| `Archive` | abstract: what the cache promises, an archive that only grows at its end, in order, without repetition |
| `HistorySync` | server, requests and responses, slot calls, memory, widgets, cache, lost connections, crashes, several users; refines `Archive` |
| `MessageList` | channel items, widgets and what they display, selection and rows against the histories |
| `SendQueueProofs`, `LoginSessionsProofs`, `HistorySyncProofs`, `MessageListProofs` | theorems about the module of that name |
| `HistoryCalmProofs` | lemmas about `HistorySync` in calm schedules: what can be under way at one time |
| `HistoryArchiveProofs` | ... that the cache implements `Archive`; extends `HistoryCalmProofs` |
| `HistoryGapProofs` | ... that the client catches up; extends `HistoryArchiveProofs` |
| `HistoryMemoryProofs` | ... that memory mirrors the cache, in every schedule; sequences flattened, filtered and concatenated |
| `MC*` | the instances TLC checks |

In `HistorySync` the outgoing queue appears only as the sequence `toServer`, which
is what `ImplementsLink` shows it to be as long as no undefined call is made and the
connection is up; nothing there makes the server take a request, so a request that
`sendqueue_stall` shows stranded, with all behind it, is one that stays in `toServer`
for ever. The connection there is that of one accepted login, of which
`LoginSessions` has the rest. `MessageList` takes only the order of arrivals and
slot calls from `HistorySync`. There a handler's push and its emit are one step: the emit
only adds at the end of the queue, so a slot call that runs between the two does what it
does when it runs after both. In `MessageList` they are two steps: a selection comes from
no queue, and counts what has been pushed.

Definitions whose comment starts with "Mutant" are faulty variants of the
definition that follows or of one nearby. No specification uses them; they are
there to confirm that a property can tell the difference.

### State and actions against the code

*SendQueue.* `queue` is `msg_to_server` with the i-th message called i. `gui` is the
place of the GUI thread in `add_msg_to_send`: `CheckEmpty` reads `empty()`,
`PushMsg` pushes, `StartFromGui` calls `start_send_msgs`. `OsWrite` is the write
itself, `WriteOk` and `Continue` the two steps of the handler, `WriteFail` its error
branch, `CloseConnection` a close by anyone. `StartSend` has the two calls that have
no defined outcome (a second write beside one that runs, and `front()` of an empty
queue) as disjuncts that set `fault`; nothing is followed beyond. `apart` is a history
variable: the GUI thread has never been inside `add_msg_to_send` while the io thread
was inside the write handler. It restricts nothing; three properties are about the
behaviours, or the part of a behaviour, in which it is TRUE.

*LoginSessions.* Attempt `s` makes client `s` and io_service `s`. `worker[s]` is the
place in `connect_to_server`: `Create` assigns the shared pointer (62), `Connect`
connects whatever client the pointer holds by then (64-68), `SetClient` hands it to the
cacher (70), `Launch` calls `do_connect` on it, whatever it has outstanding, and
`set_login` on the window (`author`), `CloseAfterJoin` closes whatever it holds after
the join, `Return` destroys the io_service with what is left on it. `ops[c]` counts
outstanding operations by kind, so a client that is connected twice has two chains.
`ahead` and `behind` count the connections of a client's codes to `Control`'s slot,
before and after the one to the cacher's: `Emit` queues a call for each. The operators
`Closes`, `Rearms`, `NullHistory` and `Code` are the table of the six body handlers:
which outcome of parsing closes, reads on, dereferences a history that does not exist,
and emits a code. `Alive` is the reference count: reads hold `shared_from_this()`, the
other handlers a bare `this`. Slot calls act on the pointers as they are when they run.
`shown` is the client whose acceptance has put up the main window. `fault` is the misuse
that ends a behaviour: of a client or an io_service that is gone, of a history that is
not there. `apart` is a history variable like that of `SendQueue`: no two attempts have
been between the assignment of `client` and the end of `connect_to_server` at a time.

*HistorySync.* `posted` is the server's log, a message is its position there.
`toServer`/`toClient` are in order (TCP). `events` is the GUI queue, with
`Control`'s call before the cacher's. `ReadAccepted` and `SetLoginId` are two
steps because `AutorOK` is emitted before `client_id` is assigned. `entries` is the
key set of `m_channels_history`; `ReadEcho` dereferences an entry without making it.
`SincesNewest` is `max_element` of `on_joined`, `SinceBack` the `messages.back().dt`
of `on_channels_received`. `phase` is `cut` after the connection has been lost: the
window stays, the slot calls that were queued still run, nothing is received.
`Unsaved` puts together, from the calls in `events`, what the cacher's two saving
slots will save in a channel.
`Crash` forgets everything but the rows, can fall between two rows of one response,
and lets the next user be another one, with other channels, who logs in or registers;
the table is the same for all of them. A row whose text has an apostrophe is not
inserted, because `save` puts the text into the statement as it is.

*MessageList.* `items` are the entries of the channel list with a flag that says if
their widget still exists; `label` is what a widget displays as the last message;
`rows` is only a count, as in the code. The two handlers are taken apart as the code
is: `EchoStored` pushes and `Emit` queues the slot call; `HistoryRead`, any number of
`HistoryStored` and `Emit` are the loop over a response and the one signal after it.
`io` is what the handler has still to emit. `again` and `missed` are history variables:
how many messages the selection of the current channel counted whose slot calls were
still to come, and how many a history has added since. `LoadCached` is a row of the
cache that `on_authorized` puts into a history before any channel is listed.

### Constants that choose a schedule or an environment

- `Calm` (HistorySync). TRUE: the GUI thread runs no slot in the middle of an io handler,
  and nothing is posted to or joined by the user while the client catches up. The program
  guarantees neither; the theorems and the run that assume it say what the
  synchronisation does by itself, and `sync_any`, `sync_echo` and `sync_gap` what it does
  and does not do otherwise.
- `Skew`, `Newcomers`, `MaxQuoted` (HistorySync): how far the time of a message may lie
  behind (0: each message a new second; 1: two may share one; 2: times may go back),
  whether users register as well as log in, how many texts have an apostrophe.

## 3. What TLC checks

### 3.1 Sending

| Run | Schedule | Shows |
|---|---|---|
| `sendqueue_threads` | any, fair | no interleaving loses, repeats or reorders a message before an undefined call (`InOrder`); the ordered link is refined in safety (`ImplementsLink`); a stranded queue never recovers (`StrandedStays`); and as long as the two threads have kept apart no undefined call is made (`NoUndefinedCall`), nothing is stranded (`NothingStranded`), and, if they stay apart, what can be delivered is (`DeliversApart`) |
| `sendqueue_stall` | any, fair | **violated**: `EveryMessageLeaves`. The handler pops the last message after the caller has seen a non-empty queue and before it pushes; neither starts a write |

Five messages: one being written, one next, one behind, and a queue emptied and
filled twice. Fairness: weak, on each step of either thread once it has begun, and
on the completion of a write (`WF_state`: a step that changes the queue's own
state, the history variable apart); none on the user sending or on a close. Once the two
threads overlap the run also reaches both undefined calls, where it ends: the handler pops
the last message after the caller's test and tests again after its push, so both start a
write, or one finds the queue emptied by the other.

### 3.2 Login attempts

| Run | Schedule | Shows |
|---|---|---|
| `sessions_apart` | any, fair | in any overlap, `Control` sees every authorization before the cacher (`ControlFirst`), and chains that end without a close are closed in the end (`DeadChainCloses`); as long as attempts have kept apart: a client has at most one operation of its connect–login–read chain outstanding (`OneChainApart`); a refused client is closed with nothing to read (`RefusedStaysQuiet`); no socket is left open by a returned worker or at the end of the program (`NoSocketLeft`); a refused attempt ends (`RefusedAttemptEnds`) |
| `sessions_author` | any | **violated**: `WindowServesAccepted`. The pointers and the login are those of the last attempt made, not of the accepted one |
| `sessions_send` | any | **violated**: `SendsOnLiveService`. After the server has closed, `connect_to_server` has returned and its io_service is gone, but the main window still hands messages to the client made with it |

No attempt waits for another: neither the form nor `autorisation` tests for one, and
`Start` does not either. So every run has the overlaps, and the passing one reaches
every fault. `ControlFirst` and `DeadChainCloses` hold throughout. What the others
assume is in the property and not in the model: `apart` is what a lock around lines 62
to 86 would give. Nothing more is assumed: answers may be queued, the window shown and
the program ended at any point, and the second attempt finds the first one's client in
the pointers. Without `apart` those are false: two chains then run on one client,
because `connect_to_server` connects whatever client `Control` holds (72); a login
handler closes through a bare `this` a client that the second attempt has dropped (46);
a worker closes another attempt's socket (82), and `~Control` only one of two (91).
`RefusedAttemptEnds` takes three attempts to break: one connects a refused client again,
another replaces it in the pointers before it is closed. What the user sees of the
overlap is `sessions_author`, and for that one a lock would not be enough: an answer
that is still queued when the next attempt is made shows the window for the wrong
client, and lets the cacher ask for the channels on a client that was not authorized.
`sessions_send` needs no second attempt.

Two attempts are enough for one to meet the other's client; two requests make one wait
behind another. In the violated runs a connection has two responses, an accepted login and
what follows; `sessions_apart`, which also checks liveness, has one, after which the next
header is waited for as it was for the first; the theorems hold for any number. Fairness:
weak, on the worker's steps and on handlers of a *closed* socket, whose operations
complete with an error; none on the server answering. A step of the io thread includes
the return of `run()` when it was the last outstanding operation.

### 3.3 History synchronisation

| Run | Schedule | Shows |
|---|---|---|
| `sync_calm` | Calm, fair, two messages may share a second, one text with an apostrophe | the cache implements the archive (`ImplementsArchive`): no lost connection and no crash makes a row lost, repeated or out of order; once nothing is under way the window lacks only messages without a row that a row makes the client pass over (`OnlyPassedOverMissing`); a client whose requests all get through catches up as long as it is connected (`SyncCompletes`) |
| `sync_any` | any, times may go back, users register | a history response finds its widget (`HistoryHasWidget`); memory is what has been saved and then what is about to be, and the former has its rows in that order (`CacheMirrorsHistory`); history requests are identified (`HistoryIdentified`), and any request that is not was made between the emit of the code and the assignment (`AnonymousOnlyWhenTorn`); a null pointer is met only by a message echoed before the window has its channel (`OnlyEarlyEchoFails`) |
| `sync_gap` | any | **violated**: `NothingMissing`. An echo between the slots of a join makes the history request start too late |
| `sync_echo` | any | **violated**: `EchoFindsChannel`. An echo before the GUI thread has made the entry, or the widget, of its channel |
| `sync_register` | Calm, users register | **violated**: `NothingTwice`. A registration does not load the cache, so the channel that is joined is fetched from its beginning and saved again |

Two channels, so that the requests of one signal follow each other and a message can
be for another channel; three messages in `sync_calm`: a cached one, one that a request
passes over and one behind it; two joins and two crashes (a channel is re-read from
a partly saved response twice), fewer in `sync_any` where everything interleaves.
Fairness: weak, on the io thread and on the GUI thread; none on posts, joins, logins,
lost connections or crashes, nor on a request getting to the server: that is
`EveryMessageLeaves`, which `sendqueue_stall` refutes. So `SyncCompletes` is about
behaviours in which `toServer` is empty again and again, and excuses a client whose
connection is lost and one that has dereferenced a null pointer.

### 3.4 The lists

| Run | Schedule | Shows |
|---|---|---|
| `list_rows` | any | rows, slot calls to come, messages counted too early and messages of histories add up to the messages of the selected channel (`RowsAccounted`); if the selection overtook no slot call and no history has come since, a new row shows its message (`UndisturbedRowShowsMessage`); the newest item of a channel is the one with a widget (`NewestItemLives`); an item displays the back of its history unless a refresh is queued or about to be (`ItemShowsLast`) |
| `list_shown` | any | **violated**: `NewRowShowsMessage`. Selecting a channel counts messages whose slot calls are still to come; each of these adds a row again |

Two channels, four messages, three items, three queued calls: one channel listed twice
beside another, and a message behind one whose call is queued, before and after a
selection. The channels are alike and permuted (`Alike`).

Every run allows the system to stop (`CHECK_DEADLOCK FALSE`): users need do nothing,
the bounds end the supply of messages, and a `fault` ends a behaviour.

## 4. What is proved

All with TLAPS, for every value of the constants allowed by the named assumption of
each module (bounds are natural numbers, schedule constants Boolean, in `HistorySync`
finitely many channels).

`SendQueueProofs`

- `TypeCorrect`, `OrderKept` (`InOrder`), `NeverRecovers` (`StrandedStays`),
  `LinkImplemented` (`ImplementsLink`): for any interleaving.
- `ApartIsDefined` (`NoUndefinedCall`), `ApartStrandsNothing` (`NothingStranded`): as
  long as the threads have kept apart.
- Argument: `InOrder` says the wire and then the queue are 1, 2, 3, …, the front
  being on both while its handler is pending. It is inductive together with the types
  and with the fact that an outstanding write has a message at the front. Refinement
  follows step by step: a push is `Send`, `OsWrite` is `Arrive` of exactly the next
  number, a close is `Drop`, all else stutters. While `apart` holds, what a caller
  inside `add_msg_to_send` has seen stays true until it acts on it: after `sawEmpty`
  the queue is empty (so, a write having a front, none is outstanding), after
  `sawBusy` it is not, and a caller about to start finds a message and no write.

`LoginSessionsProofs`

- In any overlap: `TypeCorrect`. A handler replaces one operation by at most one other,
  so no count goes below zero; what is being written is still queued (`SendTypes`).
- In any overlap: `ControlGoesFirst` (`ControlFirst`). Attempts connect and hand over each
  other's clients, but a pointer that has lost a client never gets it back (an attempt
  assigns its own once). So a client that the cacher holds when its worker is past
  `set_client` was in `Control::client` when that worker made the connects, and
  `set_client`, which drops the cacher's connection and makes it anew, has put it behind
  them (`Slotted`). Each emit then queues `Control`'s call before the cacher's, and a queue
  that is in turn stays so when its head is taken (`InTurn`).
- As long as attempts have kept apart: `ChainKept` (`OneChainApart`), `SocketsClosed`
  (`NoSocketLeft`) and `RefusedIsQuiet` (`RefusedStaysQuiet`). The invariant is in three
  parts. `Turns`: one attempt is inside `connect_to_server`, and from each step on the
  pointers are its own (`OwnPointers`). `Ended`: a client has one operation outstanding at
  most, and none once its io_service has stopped running; a refused client has none and is
  closed. `AllClosed`: after `~Control` no socket is open. `Ended` needs `Turns`: only if
  `client` is the attempt's own is it one without operations that `Launch` connects, and
  does the close after the join reach the socket that is open. That `apart` holds after a
  step means it held before (`ApartBefore`), so the parts are inductive although the
  attempts themselves wait for nothing.

`HistorySyncProofs`

- `TypeCorrect` (`TypeOK`): requests name channels and times that exist, memory and
  cache hold only messages that were posted, whatever is lost and whoever logs in.
- `WidgetFound` (`HistoryHasWidget`): `MainWindow::history_received` dereferences
  `channels_[channel]` unchecked, and in every schedule it is right to. The property is
  about the next slot call and its cause lies far back, so it is not inductive.
  `WidgetInv` follows the channel along its way: requests under way, responses under
  way and queued calls that concern a history name channels with widgets, and
  (`SlotsPaired`) before each of the cacher's calls that will make requests stands
  `Control`'s call with the same channels, unless those already have widgets. So the
  proof rests on the order of the two connects, which nothing in the code says is
  meant. Echoes have no such argument: `sync_echo` is the counterexample.
- `HistoryRequestsIdentified` (`HistoryIdentified`): history requests follow a response
  about channels, which the io thread can only have read after the handler that assigned
  `client_id`; what is queued or under way from then on is known to be after it.
- `OnlyTornIsAnonymous` (`AnonymousOnlyWhenTorn`): nobody can ask before the code of an
  accepted response has been emitted, as there is no slot call to run and no window to ask
  from (`AskedAfterAccept`), and from then on the io thread stands before the assignment
  or has passed it.
- `EarlyEchoOnly` (`OnlyEarlyEchoFails`): a widget comes together with the entry
  (`WidgetHasEntry`), and a history finds its widget (`WidgetFound`); an echo and its slot
  call are all that is left.

`HistoryCalmProofs`, `HistoryArchiveProofs`, `HistoryGapProofs`: what holds in kind
environments. The assumptions are needed: with `sync_calm`'s constants TLC refutes both
properties once `Calm` is FALSE, and once `Skew` is 2 (times go back, and a request made
from the time of the last row repeats rows or leaves some out), and `ImplementsArchive`
once `Newcomers` is TRUE (see `sync_register`). `OnlyPassedOverMissing` is not known to
need the last: TLC finds no counterexample, but the proof rests on `Ordered`, which then
fails. Lost connections, crashes within a save, other users and texts that can not be
inserted are not excluded.

- What `HistoryCalmProofs` shows, under `Calm`: no request lacks the identifier
  (`AllIdentified`) and no null pointer is dereferenced (`NoHarm`). `Flow` is the reason
  for both: the client is busy with one request, one response, or the two slot calls of
  one signal, or else only with histories, of which each channel has at most one on the
  way (`Apart`), since an answer about channels names each of them once (`ListedOnce`).
  These are lemmas for what follows; what the program does without `Calm` is said by
  `OnlyTornIsAnonymous`, `EarlyEchoOnly` and the run `sync_echo`.
- `CacheIsArchive` (`ImplementsArchive`), under `Calm`, `Skew <= 1` and `~Newcomers`:
  every step appends to one channel's rows messages that come later than all of them, in
  order, or leaves the rows alone. `Remembered` says that once the cache is loaded memory
  has every row, and all that is about to be saved. `Ordered` follows messages to the
  cache: what arrives or is to be saved ascends and comes after the channel's rows
  (`ArrivalsFollow`), and no row is later than the time a request asks from
  (`SincesFollow`), which is that of the last row, or of the newest message in memory;
  by `Flow` nothing else of the channel comes in between.
- `CatchesUp` (`OnlyPassedOverMissing`), under the same assumptions. `NoGap`: a message
  that the rows reach is saved or passed over (`Gapless`), because what is to be saved
  leaves nothing out between the rows and itself (`Completes`), nor does a request
  (`CompletesFrom`), while memory is saved or about to be (`HistorySaved`, `OthersSaved`),
  and a message the rows do not reach is in memory, or asked for, or on the way
  (`AllComing`; `JoinsAhead` for a join, which asks from memory and not from the cache).
  With nothing under way only the first two cases are left.

`HistoryMemoryProofs`

- `MemoryIsMirrored` (`CacheMirrorsHistory`): in every schedule, times that go back,
  registrations and faults included. `Mirror` names the four sequences the property
  quantifies over: memory is `saved` and then `Unsaved(ch)`, the rows are `older` and then
  the `rows` of `saved`. Each step changes these at their ends: a history or an echo
  grows memory and `Unsaved` together, a save moves messages from the front of `Unsaved`
  to the end of `saved`, a crash turns all rows into older ones. That `on_authorized` may
  make the rows it loads the whole of `saved` needs `Start`: until the cacher has heard of
  the login memory is empty and no history is on its way, because the accepting response
  is the first to be read, and its slot call is first in the queue, or second after
  `Control`'s call for the same signal.
- The lemmas on sequences below it (`FlattenConcat`: flattening two sequences of sequences
  one after the other; `InsertedConcat`: the insertable messages of one sequence after
  those of another) are inductions over the length. They are proved without an induction
  theorem: a set of failing indices has a least element (`LeastNat`), and it has none
  (`Climbs`).

`MessageListProofs`

- In every schedule: `TypeCorrect`, `NewestLives` (`NewestItemLives`), `LastShown`
  (`ItemShowsLast`), `EveryRowAccounted` (`RowsAccounted`) and `RowShowsItsMessage`
  (`UndisturbedRowShowsMessage`).
- `RowsAccounted` is inductive with the types and with the fact that messages are
  numbered as they come in, in histories and among the slot calls (`Numbered`): a push
  makes one message more and one slot call to come, a slot call turns one of these into a
  row, a history makes a message that nothing will add a row for. `Rowed`, for a
  selection that overtook nothing: the messages to come are exactly those behind the
  rows. As both ascend, the oldest slot call for the channel is for its first message
  without a row, so the row it adds is that message's.

Only model-checked: `DeliversApart`, `DeadChainCloses`, `RefusedAttemptEnds` and
`SyncCompletes`, which are liveness properties and outside the prover. Every safety
property of a passing run is the subject of a theorem.

## 5. Findings

The seven violated runs above; `PROJECT.json` quotes for each the comment it
contradicts. In short:

- sending: a message can wait for ever in the send queue; a message can be handed to a
  client with a destroyed io_service;
- attempts that overlap: the window works for another attempt than the accepted one;
- synchronisation: a join can lose the history before the first echo; an early echo
  dereferences null; a user who registers gets a channel's cached messages a second time;
- lists: a row can show another message or none.

What else goes wrong is what the conditions of the passing properties leave out: an
overlap of two threads or attempts (§3.1, §3.2), a request with an identifier that was
never set (`AnonymousOnlyWhenTorn`), and a text with an apostrophe that no later start
fetches (`PassedOver`).

## 6. What is not modelled

- Legacy windows (`chatwindow`, `channelswindow`, their models and `channeldelegate`):
  not built, and written against signals and functions that `Control` no longer has.
- Start-up (`main`, `StartupClient`) and `run_app`: constructs the objects and shows the
  form; nothing is decided there.
- The protocol library (a submodule) and the wire format. A message is a position, a
  response a kind with an outcome of parsing.
- The server beyond what requests and handlers show: in-order answers, history *later
  than* the time given, requests without the identifier dropped. None of it is in the
  repository. That it compares strictly matters: `ImplementsArchive` rests on it (were
  the message of the last row's own time sent again, it would be saved again), and so does
  that `OnlyPassedOverMissing` has to except messages of one second. That a message posted
  while a history request is under way is both echoed and answered is what the runs that
  are not calm have; no property depends on it.
- `LoginWidget` beyond starting attempts and being hidden: two pages, and fields that are
  checked and cleared. No other part reads them.
- `SqliteCache`: a database that can not be opened, and the columns' encoding.
- `MainWindow`: layout, painting, and the text that is typed; `join_clicked` and
  `send_clicked` only hand it on (`UserSends`, `UserJoins`).
- Memory-level races on `std::queue`, `std::map` and `shared_ptr`: each access is taken
  as atomic; the interleavings of accesses are modelled.
- What detached workers do after `~Control` has destroyed what they use.

## 7. Plan

1. Proofs: `OnlyPassedOverMissing` when users register, from an invariant that does not
   order the rows; and what then remains of `CacheIsArchive`, that no row is lost.
2. The composition of `LoginSessions` with `SendQueue` in place of the counter `queued`.
3. The login form's pages and fields, with what a late answer wipes.
