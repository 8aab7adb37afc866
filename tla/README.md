# Construct TUI in TLA+

TLA+ models of the Construct terminal client (`src/`), the TLC runs that check
them on small instances, and theorems about them checked by TLAPS.

## 1. The system

The client is one tokio process. A UI loop (`src/src/app.rs`) owns the screen
and the account; everything else is a task that talks to it through channels.

```
            keys                       InternalEvent (unbounded)
  terminal ------> App (UI loop) <--------------------------------------+
                    |   |   |                                           |
   IncomingEvent,   |   |   | StreamCmd (64, try_send)                  |
   forget_contact   |   |   v                                           |
   (2 unbounded     |   |  stream worker ---- StreamEvent (256) ---> relay task
    channels)       v   |   |      ^                                    |
            orchestrator|   |      | frames (unbounded)  StreamMessage  |
            actor  <----|---|------|------------------------------------+
              | |       |   v      |
              | |       |  pump task (frame_tx 256)  <==HTTP/2==> server
              | +--> StreamCmd (64, try_send)
              v         v
        SQLite (write)  SQLite (read)      token refresh tasks, auth tasks
```

### Components

| Component | Source (under `src/src/`) | State | Operations | Hard behaviour |
|---|---|---|---|---|
| Stream worker | `streaming.rs`, `grpc/stream.rs` | phase of the connect loop, `pending` buffer (256), `attempt`, subscription | connect, flush, send, subscribe, dispatch, back off, shut down | reconnection, frames in flight, full channels |
| Cursor tracker | `streaming.rs` 71-125 | `committed`, `pending` map, shared by three tasks | load, note, commit, commit_direct | out-of-order commits, crash between persist and commit |
| Relay task | `app.rs` 830-1017 | none | unseal, unpack, forward, note acks | ordering against the orchestrator |
| Orchestrator actor | `orchestrator_task.rs` | construct_core, timers, `session_established_at_ms`, in-flight bundle fetches | commands, events, dispatch of core actions, follow-ups | two input channels, await inside a handler, nested follow-ups, stale results |
| Storage | `storage.rs` | messages, contacts, ack store, secure store, records | insert or ignore, delete_contact, cursor | replays, deletion racing inserts |
| Account lifecycle | `app.rs` 262-620, 1020-1111, 1222-1440, 1860-1901, `auth.rs`, `bridge.rs` 183-282, `config/mod.rs` | screen, session in memory and on disk, keys, tokens, the running pipeline | start-up check, register, link, unlock, set passphrase, refresh, re-auth, logout | late results of tasks, several refresh tasks, stopping the old pipeline |
| Main screen | `app.rs` 1440-1857, `screens/*` | contacts, selection, focus, open chat | select, compose, add, delete, search | arrival while another chat is open |
| Unary gRPC | `grpc/client.rs`, `grpc/connection.rs`, `grpc/error.rs` | the HTTP/2 connection all tasks share, token | connect on demand, call with one retry, invalidate | two tasks connecting at once, a connection dropped under another task, retry of what was done |
| Codecs | `knst.rs`, `invite.rs`, `grpc/framing.rs` | none | encode, decode, validate | boundaries |

`construct_core` (the Double Ratchet) and the server are outside the
repository; the models leave their answers open.

### What makes each part correct

* Inbound: the durable cursor never runs ahead of what the client has dealt
  with, never falls back, and a stored text is never replaced; nothing is lost
  by a reconnect or a crash.
* Outbound: envelopes leave in the order given, each at most once per
  acceptance, and only the documented places drop one.
* Account: a main screen that a login led to belongs to the account on disk, the
  key in memory opens the file, an attempt to log in ends.
* Sessions: a contact the user removed stays removed; a session is opened once.
* Event cycle: a new session carries its ping before any text, a session just
  opened is not replaced, a message is stored and announced once, an ended
  session's keys stay on disk until the core gives them up, a text does not stay
  in the queue. (A text can be dropped without a word: section 3, Findings.)
* Connection: no connection is left behind, a call's result is truthful and
  arrives, a retry is a last one and on another connection.
* Main screen: a typed message goes to the contact whose chat is shown. (A second
  start of the pipeline breaks this: section 3, Findings.)

## 2. Modules

| Module | Models |
|---|---|
| `InboundDelivery` | server entry -> connection -> stream worker -> relay -> orchestrator -> messages table -> cursor |
| `Inbox` | the abstract promise of that pipeline |
| `OutgoingStream` | orchestrator and UI -> command channel -> stream worker, its pending buffer -> frame channel -> pump -> server, and the connection state reported back |
| `Outbox` | the abstract promise of that direction: in order, at most once, possibly lossy |
| `AccountLifecycle` | start-up, registration, link, unlock, passphrase, refresh, re-authentication, logout, the answer to an invite; the session file; the pipelines a login starts |
| `ChatSessions` | the main screen, the orchestrator's events and commands, sessions, contacts and their rows |
| `SessionActor` | the orchestrator actor's event cycle: what one event does to sessions, the core's queues, follow-ups, stored sessions and archives (saved, loaded, deleted), and to the transcript |
| `SharedConnection` | the one HTTP/2 connection, and the unary calls, stream workers, logins and logouts that open, use and drop it |
| `RemoteCall` | the abstract promise of a unary call |
| `MC...` | instances for TLC (modules whose constants are plain sets and numbers need none) |
| `..._proofs`, `QueueFacts` | theorems, one module per component (two for `OutgoingStream`); the facts about queues that `ChatSessions` and `SessionActor` share |

Operators marked `(mutant)` are not part of a specification: each is a
plausible mistake in the definition that follows it, kept to show that a
property would notice.

### InboundDelivery

An entry is its position in the server's log. The position is also its message
id, its Redis cursor and the milliseconds of that cursor, which is what
`cursor_after` and the stale-replay guard compare. An entry has a kind:
user `text`; session-opening `init` (msgNum 0) and `reset`, which the code
calls replay-sensitive; `ack`; `garbled` (dispatch_incoming cannot decode it);
`unreadable` (the relay cannot unseal or unpack it); and it may lack a cursor.

| State | Code |
|---|---|
| `phase`, `since` | the position of `run_worker`; the cursor it read before awaiting the open |
| `link`, `next`, `frames` | the HTTP/2 stream, what the server sends next, `frame_rx` |
| `events` | the 256-slot event channel |
| `cmds` | `StreamMessage` commands of the orchestrator |
| `resub` | a waiting `Subscribe` command with the cursor the UI read |
| `noted`, `committed` | `CursorTracker.pending`, `.committed` |
| `waiting`, `established` | the core's pending queue per contact; `session_established_at_ms` |
| `todo`, `step` | decrypted entries still to go through `persist_inbound`, and which part of it, or of `CursorTracker::persist`, is next |
| `messages`, `cursor` | the messages table, `secure_store["stream_cursor"]` |
| `seen` | history: entries some stage took a decision about |

Each action is one uninterrupted stretch of a task between two awaits, or one
SQLite statement: `persist_inbound` is two steps (`OrchStore`, `OrchCommit`)
because a crash can fall between them, and a commit that moves the cursor is two
as well: `AdvanceCursor` writes the row (`save_stream_cursor`), `OrchShare` then
sets `committed` under its lock. The lock covers only the assignment, so the
worker may read the older copy in between, and a crash may leave the row ahead of
any copy that was ever shared. The orchestrator takes no command while
`todo` is not empty, as its loop does not return to `select!` before the actions
of the previous one are dispatched. The UI and the worker keep running
meanwhile.

Left out: notifications to the UI, the acknowledgement table (the core's
deduplication is one of the answers in `Outcomes`), the list of subscribed
conversations, heartbeats and the events that carry no message. Logout, which
clears the cursor, belongs to the account lifecycle: the
model is one login.

### Inbox

Four variables: how many entries were published, which are decided, the table,
the watermark. `ImplementsInbox` maps the length of the log and `seen` to the
first two; queues, connections, crashes and redeliveries are invisible.

### OutgoingStream

An envelope is its number in the order of submission, a contact list its
version. A frame is a record of kind (`send`, `subscribe`, `heartbeat`,
`shutdown`) and argument.

| State | Code |
|---|---|
| `phase`, `hand` | the position in `run_worker` and `wait_backoff`, and the frame whose `send_frame` is awaited |
| `cmds` | `cmd_rx` (64) |
| `pending`, `subscribed` | the buffer for the next connection (`PENDING_CAP`), `subscribed_users` |
| `pump`, `outbox` | the pump task runs; `frame_tx` (256), whose first frame is the one the pump writes |
| `serverList` | the last contact list the server got on this connection |
| `events`, `shown` | `event_tx` (256) up to the relay, and the connection state the UI has been told |
| `list`, `loggedOut` | the UI's contact list, and whether `do_logout` has given up `stream_tx` |
| `submitted`, `delivered` | history: envelopes submitted and written |

Each await of the worker (a full frame channel, a full event channel, an open,
the back-off sleep) is a phase of its own; while it lasts only the other tasks
move. `select!` in the live loop is a free choice among ready branches.
`TrySend`, used by the orchestrator and by `do_logout`, drops the command when
the channel is full. Left out: the length of the back-off and of the heartbeat
interval (both may end at any time), and the content of what arrives. `None`
from `cmd_rx` before a Shutdown cannot happen: the orchestrator holds a sender,
and the relay holds the orchestrator's handle. The module is one pipeline: after
a re-authentication two workers report to the same UI (`conn_reauth`), and
`StatusTruthful` speaks of each alone.

### Outbox

Three variables: how many envelopes were submitted, which are held, which were
delivered. `ImplementsOutbox` maps all the places an envelope can be in
(command channel, buffer, hand, frame channel) to "held": where an envelope
waits, and how often the connection broke, is invisible. A held envelope may be
lost (a full channel or buffer, a flush or a write that fails), but delivery is
in order of submission and happens once.

### AccountLifecycle

An account is its number in the order of registration, a token pair its number
in the order the server issued it, a key its salt. `session.enc` is absent,
plaintext, encrypted under a key, cut short (`torn`) or overwritten and not
removed (`erased`). The keys that edit a text field are left out, as are wrong
passphrases: they change nothing modelled.

| State | Code |
|---|---|
| `screen` | `Screen`; everything behind the login is `main`, or `stray` when the answer to an invite put the main screen up over another one |
| `user`, `token`, `session`, `pending`, `key` | `user_id`, `access_token`, `current_session`, `pending_session`, `session_key` |
| `tasks` | spawned tasks of `start_auth_*`, `start_device_reauth`, `spawn_token_refresh*` and of `redeem_pasted_invite` |
| `inbox` | `internal_rx`: their answers, `InviteAccepted` among them, and `StreamAuthRequired` |
| `pipes`, `mine` | what `start_orchestrator` spawned; the one `orch_handle` and `stream_tx` point to |
| `file`, `db` | `session.enc`; whether `messages.db` exists, and its key |
| `issued` | history: which account each token pair was issued to |

One action is one handler of the UI loop or one answer of a task. Tasks answer
in any order and nothing cancels them, so an answer may be handled on any
screen and for any later login. The answer to an invite is handled like the
others: `finish_add_contact` sets `screen = Main` whatever stands there and
whoever is logged in by then (`InviteAccepted`). A handler that saves may fail:
before `session.enc` is opened (`refused`), after it was truncated (`cut`), as
`fs::write` rewrites it in place, or when the file is complete and its permissions
are set (`mode`). `start_orchestrator` returns early, leaving
the handles, when the database does not open with the key.

Left out: the cursor that logout clears, the HTTP/2 connection that all tasks
share, the device-id header, and the username (whether a failure with a
connecting screen and no key goes to onboarding or the error screen is a free
choice).

### ChatSessions

Composes three components around a set of contacts: the UI with the contact
list, the chat and the search; the orchestrator with its two queues; and the
tables both write. A contact stands for its id and its display name.

| State | Code |
|---|---|
| `ui.screen`, `focus` | main or search; list, or chat and compose box (the box is left through the chat, where keys only scroll) |
| `ui.list`, `sel` | `chat_list.contacts` and its selection; a contact added twice is listed twice |
| `ui.dialog`, `found` | `delete_confirm`; the selected search result |
| `ui.shown`, `view`, `opened` | `chat_view.contact_name`, `.messages`; history: whose rows were loaded |
| `lookups` | spawned tasks of `find_user` and `accept_invite` |
| `internal` | `internal_rx`: new messages, search results, accepted invites |
| `events`, `cmds` | `rx`, `cmd_rx` of the orchestrator, both unbounded |
| `orch.fetching`, `work` | the handler in progress: waiting for a key bundle, or the database and channel calls it still has to make |
| `orch.session`, `waiting`, `bundles` | the core's sessions and queued messages; tasks of `FetchPublicKeyBundle` |
| `contacts`, `stored`, `keys` | tables `contacts` and `messages`, `session_<id>` of `secure_store` |
| `sent` | history: texts given to the core of the orchestrator the UI talks to |
| `ui.read`, `ui.replaced`, `orch.second` | history: the last start read the contacts; the list was set under the chat shown; an older orchestrator runs |

The orchestrator's `select!` is a free choice between its queues. A handler
runs to its end before the next, but the UI reads and deletes rows on a second
connection between any two of its calls; hence `work`. `delete_contact` is three
statements without a transaction and may stop after the first or second. Calls
whose result the code ignores may fail (`Attempt`). A restart rebuilds the UI
and the sessions from the tables. A re-authentication runs `start_orchestrator` a
second time in the process (`SecondStart`, `SecondStartFails`): the list is read
again and its first contact selected, while focus, chat and history stay; the
orchestrator there was is not told, holds its own sessions, and goes on storing
and showing what it has and what its stream still brings (`orch.older`).

Left out: the settings and safety-number screens, unread counters, scrolling,
the limit of 50 rows, contacts of strangers' messages, and what an older
orchestrator does to texts and sessions, which no one sees but its peers.
Healing, ending and
archiving a session, timers and pings are in `SessionActor`. The text of a sent message is never stored
by the code, nor here.

### SessionActor

`ChatSessions` asks what two components do to the same rows; this module looks
inside the actor, at the cycle of `run`: an event is prepared, the core answers
with actions, each action is dispatched, may await and may push follow-up
events, and those are handled one level deep.

| State | Code |
|---|---|
| `cmds`, `events` | `cmd_rx`, `rx` |
| `plan` | what the handler in progress still has to do: fetch a bundle, check that a session came of it, a cycle with follow-ups or (`shallow`) without |
| `acts` | the rest of the `Vec<Action>` of the last `handle_event` |
| `follow`, `deep`, `nested` | `follow_ups`; whether they will be handled; whether the actions are those of a follow-up, whose own pushes go to `&mut Vec::new()` |
| `inited` | `session_inited` |
| `session`, `pending`, `healing` | the core's session with a contact (its role, the occasion it was opened on, the first message sent in it), its queue, its payload for a heal |
| `fetches`, `retries` | spawned tasks of `FetchPublicKeyBundle` and `HealSuppressed` |
| `rows`, `archive` | `session_<id>` of `secure_store`; whether `archive_<id>` holds the session that was ended last |
| `bubbles`, `previews` | `NewMessage` notices with a message's id; how many without one came of `NotifyNewMessage` |
| `fate` | per text of the user: queued, given to the stream's channel, dropped there, refused with an error, lost in a crash |
| `ended` | history: contacts with a terminated session that nothing has replaced since |

A message is a number and a body: user text, a KNST frame of a silent type, or
the bare bytes of a heartbeat, which is what the three routes of a message to the
transcript (`Surface` for the first message of a session and of a heal, `Show` for
`MessageDecrypted`) tell apart. `NotifyNewMessage` is a fourth (`Preview`): the
core makes its text, the notice has no message id and nothing is stored, but the
UI shows it as a bubble. One action of the model is the code between two
awaits or two SQLite statements. `InitNotOverwritten` and the others of this
module therefore quantify over every place a crash, a failed write or a command
of the UI can fall.

`construct_core` answers as `CoreHandles` allows: a message is decrypted, queued
for a session to come, dropped, taken as the end of the session or as the start
of a conflicting one. The start of a conflicting session is queued and is the
payload of the heal, and the message opens a session at most once. This is what
the comments and handlers of `orchestrator_task.rs` say of it; the crate itself
is outside the repository. `SaveSessionToSecureStore` of no data deletes the row
(`Erase`); the code does not say when the core asks for it, and the model lets it
drop the session with the end of one, and the archive with a timer.
`LoadSessionFromSecureStore` (`Load`) may be asked for when a message finds no
session, and answers by a follow-up.

A crash between saving a new session and its ping restores a session whose first
message will be a user text; `Crash` forgets the occasion (`by`), so `PingFirst`
speaks of sessions opened in this process. A crash between the archive and the
deletion leaves both rows. A failed INSERT of a message does not keep its bubble
back. Left out: the tables of timers and acks, records, receipts, notices that
neither show nor store anything, the stale-replay guard (in `InboundDelivery`), and
the import of `construct.orchestrator_state` at a start: only `ForgetContact`
exports it, and what the core keeps there is not in the repository.

### SharedConnection

A task is a unary call or a stream worker, a connection a name that is reused
when nobody refers to it. A request is a caller and the number of its attempt.

| State | Code |
|---|---|
| `session` | `Inner.session` |
| `live` | connections whose driver task runs and whose peer is there |
| `at`, `conn` | the await a task stands at; the connection it has opened, or whose `SendRequest` it cloned |
| `tries`, `first` | which `unary_once` of `unary` is running; history: the connection of the one that failed |
| `wire`, `replies`, `runs` | requests that left; what came back on a connection that still stood; history: what the server carried out |
| `mine`, `stopping` | the worker behind `stream_tx`; workers with a Shutdown in their channel |
| `clears` | tasks spawned by logouts that still have to invalidate |

No lock is held from one step to the next: `ensure` reads, connects and stores
in three steps, and `send_request` clones in a fourth, so the session may be
replaced or gone at each. Dropping an `H2Session` aborts its driver (`Clear`,
`Store`), which whoever uses it sees as a transport error. A request on a
connection that broke may have been carried out or not; that is decided by the
server taking it up later or never. The first attempt that fails to connect, or
finds the session gone, is retried like one that broke.

A logout is modelled with a worker, and its Shutdown arrives; that `try_send` may
drop it is in `OutgoingStream` (`LogoutStopsWorker`). Left out: the token and
device-id headers (a call reads whichever are set when
it starts, also after another login), and the framing of the body. What a worker
does with its frames is in `OutgoingStream` and `InboundDelivery`, whose workers
see a broken connection as an upset.

### RemoteCall

Per caller an outcome, how often the server ran the call, and whether an answer
was lost. Success means that it ran; a refusal that it did not, unless an
earlier copy had; a second run only follows a lost answer. A failed call may
have run and still may.

## 3. Runs

| Run | Checks | Bounds and why |
|---|---|---|
| `inbound_core` | `TypeOK`, `NothingSkipped`, `CursorNamesPersisted`, `ResumeNotAhead`, `CursorForward`, `ImplementsInbox` | 2 peers, 2 entries of 5 shapes, all core answers, writes may fail, event channel of 1, 2 upsets (crash, lost link, failed open, failed write, resubscription). Two entries are enough for an out-of-order commit; two upsets for a crash after a rewind or a failed write. |
| `inbound_live` | `InOrder`, `ReplayKeepsText`, `EveryTextStored` | fair tasks, 1 peer, 3 entries, 2 texts (a replay may decrypt differently), 1 frame at a time, working storage, a core that decrypts, 2 upsets. Three entries fill three queues of the pipeline at once. |
| `outgoing_core` | `TypeOK`, `InOrder`, `LiveMeansFlushed`, `SubscriptionCurrent`, `StatusTruthful`, `LossNeedsCause`, `ImplementsOutbox`, `ShutdownHeard`, `EveryEnvelopeSettles` | fair tasks, 4 envelopes, 2 versions of the contact list, command channel, pending buffer and frame channel of 2, event channel of 1. Four envelopes overflow channel or buffer with one in hand. |
| `chat_core` | `TypeOK`, `ComposeReachesShown`, `OpenChatComplete`, `StoredIsListed`, `TextsInOrder` | 2 people, 1 known at first, 2 texts, 1 message, 1 search or invite, 3 of these together, 1 event waiting when the UI adds one, 1 upset (restart, second start or failed call). Two people tell shown from selected; two texts can be swapped; one lookup can answer on any screen or add a contact a second time. |
| `account_core` | `TypeOK`, `KeyOpensFile`, `MainIsRestorable`, `AttemptEnds` | 2 accounts, 3 token pairs, 2 passphrases, 2 tasks and answers under way, invites among them, all three faults, any number of crashes, restarts and logouts; fair tasks for `AttemptEnds`. Two under way are enough for an answer to arrive in another login; three token pairs for register, re-authenticate or refresh, and register again. |
| `sessions_core` | `TypeOK`, `PingFirst`, `SurfacedOnce`, `EndedIsKept`, `InitNotOverwritten`, `TextsEnd` | 1 contact, 2 messages with any body, 1 text, 1 move (chat opened, contact removed, timer), 2 upsets (crash, failed fetch, init or write, dropped text). Two messages are one that opens a session and one that conflicts with it; contacts share nothing but the order of the queues. |
| `conn_core` | `TypeOK`, `OneConnection`, `RetryOnNewSession`, `ImplementsRemoteCall`, `CallsEnd`, `LoneStreamSettles` | fair tasks, 1 call, 1 worker, 2 logins, 5 connections, 2 upsets (failed connect, cut, hang-up, proxy error). Call and worker connect at the same time and take each other's connection away; the second login leaves an invalidation of the logout behind it. More tasks exceed TLC here, and are what the theorems are for. |
| `inbound_watermark` | violation of `WatermarkCoversOnlyPersisted` | see findings |
| `chat_forget` | violation of `DeletedStaysDeleted` | see findings; no upsets |
| `conn_reauth` | violation of `RestartSettles` | see findings; 2 workers, fair tasks, no upsets |
| `sessions_control` | violation of `ControlNeverShown` | see findings; no upsets |
| `sessions_nested` | violation of `HealPingsFirst` | see findings; no upsets |

`CHECK_DEADLOCK FALSE` stands where the system really may stop: the worker has
exited and nothing is submitted any more, or a bound on tokens or envelopes is
used up.

**Fairness** (`FairSpec`): weak fairness of each task's own steps (tokio runs
every ready task; `select!` picks among ready branches at random), of the
server answering an open and sending what it holds, and of a restart after a
crash. `open_message_stream` awaits the response without a timeout, so a server
that never answers does block the worker: liveness assumes it does answer.
Publishing, upsets and everything the user does are not fair; the number of
upsets is bounded, which is "the network is eventually good".

`OutgoingStream` assumes the same of each task; strong fairness of taking a
command in the live loop, because `select!` starts at a random branch, so a
command that is ready again and again is taken; and opens that return. `EveryEnvelopeSettles` asks nothing of an execution whose connections break for
ever.
`AccountLifecycle` assumes that the UI loop reads its channel and that every
task returns, the oldest at the latest when the others have (`Answer(1)`): each
waits for one call or for one sleep. The user is not fair.
`SharedConnection` assumes that a task between two awaits goes on, that
connecting ends (it has a timeout but for the HTTP/2 handshake), and that the
server deals with a request on a connection that stands: neither `do_unary` nor
`open_message_stream` has a timeout for the answer. Strong fairness is asked of
`Stop` only: a worker reads its commands between any two opens. `LoneStreamSettles` is
about executions in which, from some point on, one worker is left; its faults
are bounded in number.
`SessionActor` asks only that the actor goes on (`WF_vars(Actor)`), a bundle
fetch within a handler included: `fetch_bundle_json` is a unary call, which ends
by `CallsEnd`.

### Findings

* `inbound_watermark`: `src/src/storage.rs:354` calls the cursor "advanced only
  after durable persist". It is a single watermark: if storing entry 1 fails
  and entry 2 is stored, the cursor moves to 2 and entry 1 is not asked for
  again. The same happens when entry 1 waits in the core for its session while
  entry 2 is stored and the core's queue does not survive a crash.
* `chat_forget`: `src/src/storage.rs:303` deletes "a contact and all associated
  messages and DR session keys". ForgetContact travels on another channel than
  the events and can overtake an ActiveChatChanged sent before it, which then
  opens and saves a session of the deleted contact. No later step removes it.

* `conn_reauth`: `src/src/app.rs:1078-1080` says a re-authentication "restarts
  the orchestrator". It starts a second one; the first, its relay and its stream
  worker run on, as they hold each other's channels. Both workers drop the shared
  connection before each open (`src/src/streaming.rs:167`), so each breaks the
  other's stream, for ever and without any fault of the network.
* `sessions_control`: `src/src/knst.rs:131` says of silent control types "Never
  reaches the transcript. A bubble here is a user-visible defect." The arm of
  `MessageDecrypted` (`src/src/orchestrator_task.rs:584-627`) stores and shows
  whatever `decode_text` returns: an empty bubble for a silent frame, the raw
  bytes for a heartbeat. The filter of the other two routes is missing there.
* `sessions_nested`: `src/src/orchestrator_task.rs:241` says of follow-ups that
  "they should only produce simple actions". A heal can be among them: after
  `AckDbResult`, or when the queue is drained after a heal (which does not enter
  `session_inited`). END_SESSION goes out and the session is replaced, but
  `SessionInitCompleted` and the ping are pushed into a vector nobody reads: the
  new session is not saved then, and the next text is its first message, against
  `src/src/orchestrator_task.rs:689`. The fallback of line 535 likewise makes an
  INITIATOR session without a ping.

Four disagreements have a property and a configuration, kept for whoever works
on that code (`tlc -config <name>.cfg MC<Module>`, TLC finds the violation), but
are not listed runs:

* `outgoing_logout.cfg`, `LogoutStopsWorker`: `src/src/app.rs:1865` says logging
  out "stops background tasks". Shutdown is sent with `try_send`; with the
  channel full it is dropped, and as the orchestrator still holds a sender the
  worker never ends.
* `account_newkey.cfg`, `MainHasPipeline`: `src/src/app.rs:170` calls the handle
  "set after successful auth". A new account gets a key from a fresh salt, while
  `messages.db` of an earlier account or version stays and does not open with it:
  the main screen appears with no orchestrator, or with the one of another
  account.
* `account_late.cfg`, `LogoutSticks`: a token refresh that answers after the
  logout puts its token back into the client (`src/src/app.rs:1060`, before the
  session is looked at).
* `inbound_stale.cfg`, `WatermarkEntryOnDisk`: the stale-replay guard commits the
  cursor of an entry it drops, though nothing was persisted. It compares the
  server's time of the entry with the local time the session was made, so a
  first-time session-opening message can be taken for a replay.

More shows in the models without a property of its own:

* A second start of the pipeline under an open chat moves the selection to the
  first contact (`src/src/app.rs:721`, `src/src/screens/chat_list.rs:35`): until a
  chat is opened again, Send goes to that contact and not to the one whose name
  is shown. `ComposeReachesShown` holds but for this (`ui.replaced`). Texts the
  older orchestrator has not sent by then may be overtaken by newer ones.
* An invite that is answered after a logout, while a passphrase is chosen, or
  over an error puts up the main screen (`src/src/app.rs:1764`) with no session in
  memory or on disk, or with one that was not saved (`stray`).
* `NotifyNewMessage` (`src/src/orchestrator_task.rs:969`) becomes a bubble: a
  message that is announced by it and by `MessageDecrypted` appears twice.
  `SurfacedOnce` is about notices that name a message.
* `SendEncryptedMessage` ignores the result of `try_send`
  (`src/src/orchestrator_task.rs:930`): with the stream's channel full or closed a
  text is gone without an error, and the transcript shows it as sent.
* When archiving an ended session fails, its row stays, and the next save of a
  session with that contact replaces it: the ended keys are then nowhere
  (`Save`, `ended`).

Three smaller ones. `confirm_delete` is to clear the chat "if it was showing the deleted contact"
(`src/src/app.rs:1845`), but clears any chat: after every removal no entry has
the id, and the other half of the condition compares a name with an id.
After a save that truncated `session.enc` the error screen leads to the unlock
screen, which no passphrase opens and where Esc, which the comment at
`src/src/app.rs:1257` promises, does nothing. And tokens refreshed while the
first passphrase is chosen stay in `current_session`, while
`handle_set_passphrase` saves the older `pending_session`
(`src/src/bridge.rs:188`: "app must re-save the session").

## 4. Theorems

`InboundDelivery_proofs` proves, for every number of contacts, entries,
capacities and upsets:

1. `TypeCorrect`: `Spec => []TypeOK`.
2. `InOrderAlways`: `Spec => []InOrder`, the inductive invariant.
   `NothingSkipped` alone is not inductive: the cursor moves to an entry that
   stood in `todo`, `waiting` or `cmds`, so those must be known to have nothing
   undecided before them, and that follows only if every queue upstream is
   gap-free with respect to what lies behind it (`QueuesContiguous`) and every
   resume point (`since`, `committed`, a waiting subscription) is settled
   (`ResumePointsSettled`). The lemmas `ContiguousTail` and `ContiguousAppend`
   carry each hand-over between two queues.
3. `NothingSkippedAlways`, from 2.
4. `ResumeNeverAhead`: neither the shared copy, nor what the worker has read of it,
   nor a waiting subscription of the UI is ahead of the row, whichever statement of
   the orchestrator they fall between; and copy and row differ only between the
   two statements of a commit.
5. `InboxImplemented`: `Spec => ImplementsInbox`, from 1, 2 and `OnlyLogged`
   (whatever is in a queue was logged). `CursorNeverBack` and
   `TextNeverReplaced` follow from the step lemma of this refinement.
6. `CursorNamesAlways`, with the strengthening that between the two halves of
   `persist_inbound` the row is in the table.

`OutgoingStream_proofs` proves, for all capacities and numbers of envelopes:

1. `OutgoingTypeCorrect`, `OutgoingInOrder` and `OutgoingLiveMeansFlushed`. The
   inductive invariant is `TypeOK`, `Shape` and `InLine`. `Shape` says where
   frames can be in each phase (a hand only while a send is awaited, no frames
   without a connection, an empty buffer in the live loop). `InLine` says that
   the frame channel, the hand, the buffer and the command channel, in this order, are one strictly increasing sequence of envelopes behind all
   that were written. `LineMoves` and `LineGrows` carry it through a hand-over
   and a submission.
2. `OutgoingImplementsOutbox`: every step is a submission, a write to the
   server, or at most a loss (`StepKinds`); each is a step of `Outbox`.

`OutgoingViews_proofs` goes on with the same module:

1. `OutgoingSubscriptionCurrent` and `OutgoingStatusTruthful` are about the last
   word of a queue. `SubscriptionCurrent` speaks of a moment when no list is under
   way; the invariant `ListOnTheWay` says what it would become, before that
   moment: the last list in the command channel, or else the one the worker
   remembers, is the newest accepted, and likewise from there through the frame
   channel to the server (`Carries`). `Told` does the same for the reports between
   worker and UI (`Tells`), in each phase that has something to tell.
2. `OutgoingLossNeedsCause`, an action property: `Excused` says of every action
   which envelopes it can give up. It needs `Shape`: what the worker holds in its
   hand when a connection breaks differs from phase to phase.

`AccountLifecycle_proofs` proves, for all numbers of accounts, tokens, keys and
tasks and all faults, `AccountTypeCorrect`, `AccountKeyOpensFile` and
`AccountMainIsRestorable`. Neither of the last two is inductive: a restore task
overwrites the file with a plaintext session, which is harmless only because
nothing else is under way (`RestoreAlone`, `RestoredAlone`, from
`StartsClean`); and the passphrase saves the pending session, which must be of
the account on the screen and must not survive the arrival of a key
(`PendingUnsaved`, `UnlockClean`, `SameAccount`). `MainIsRestorable` distinguishes
a main screen that a login led to, which the file must back, from one that an
invite put up, of which only `SameAccount` is left. There is one lemma per action
(`StartUpInv` to `AnswerInv`); the queue lemmas `AppendOne`, `TakeOne` and
`RemoveOne` say where the elements of a changed queue come from.

`SharedConnection_proofs` proves, for all sets of callers, workers and
connections and all bounds:

1. `ConnectionTypeCorrect`. A logout spawns one invalidation per login, so
   `TypeOK` is inductive only with `LoginsCount`: the invalidations under way and
   the reachable worker do not outnumber the logins.
2. `NoConnectionLeaks` and `RetriesAreRenewed`. The inductive invariant also
   says at which steps a task holds a connection (`Held`), that one about to be
   stored is known to the task that opened it and to nobody else, not even as the
   connection of a failed first attempt (`Fresh`), and that while a call tries
   again the session is not the one it tried first (`Renewed`): the failed
   connection was dropped and no task can store it a second time.
3. `ClientImplementsRemoteCall`: every step of a task, the server or the network
   is a step of `RemoteCall` or invisible to it. It needs that a request on the
   wire has not run yet, that a reply tells what happened, and that a second
   request exists only in the second attempt (`Carried`). `MoveMaps` reduces the
   steps that touch one caller to what they do to its three mapped values.

`ChatSessions_proofs` proves, for every finite set of contacts and all bounds,
`ChatTypeCorrect` (with `Typed`: a queued text has a receiver), and over it

1. `ChatComposeReachesShown`, with `Steady`: a deletion dialog only stands over
   the list, and a shown chat needs a selection, unless the list was replaced under
   it. Nothing but the list keys and a second start then moves the selection, and a
   late search result or invite is put at the end.
2. `ChatStoredIsListed`, inductive over the types: an addition lists the contact
   whether or not its row was written, a deletion that stops halfway leaves the
   entry, and a second start reads the table the list is compared with; if it
   cannot read it (`ui.read`), nothing is said.
3. `ChatOpenChatComplete`, with `ShownAfter`: in the work of the orchestrator every
   `store` has its `show` behind it, and so has what is left to an older one. A chat
   loaded between the two calls gets the
   message twice or once, never not at all.
4. `ChatTextsInOrder`, with `Queued`: what was sent is before what the orchestrator
   has in hand, and that before the event queue, and both queues ascend. A text is
   in hand as an event that waits for a bundle or as a call still to be made (a
   second start leaves both to the older orchestrator); the
   shape of the work list (one text, behind the messages that waited) is what
   makes this last.

`SessionActor_proofs` proves, for any contacts and all bounds, what five of the six
properties of `sessions_core` say. Everything rests on `Inv`, how a handler unfolds:
`PlanShape` (a message is a handler of its own, a removal leaves the chat first, a
ping waits behind the bundle of its chat, what the user or a timer sends comes
last), `LastOnly` (in a batch what is not a show, a save or a send comes last), and
`Linked`, what an action that is still to be dispatched relies on: an action that
pushes finds no follow-up waiting, `CheckAck` and `InitSession` find `inited`
empty, an archive precedes the deletion of the row, a session that is to be saved
or used exists.

1. `ActorTypeCorrect`, which includes that at most two follow-ups wait.
2. `ActorEndedIsKept`: from `Linked`, the end of a session deletes the row only with
   its archive written. Three things may take the last copy, and end what the
   property promises (`ended`): a removal of the contact, an empty save, and a new
   session saved over a row whose archiving failed.
3. `ActorInitNotOverwritten`: sessions that a cycle has opened are compared with the
   heals of its follow-ups, and no other action of that cycle opens or ends one.
   This is where `Linked` must know that a database answer is the only follow-up
   of its cycle.
4. `ActorPingFirst`, with `PingsAhead`: a session of an opened chat without a first
   message has its ping as the next step of the plan, the cycle after it, or the
   next action, so no queued text comes between.
5. `ActorSurfacedOnce`, with `Waits` and `InTurn`, of notices that name a message. A
   message is in the command
   channel, in hand (a step, a `CheckAck`, its answer), or taken: queued in the
   core, kept for a heal, about to be shown, or shown. `InTurn` orders
   the three by arrival, so a message that is taken up was taken by nobody before.
   `Waits` says that no message is both queued and shown, or queued twice, and that
   the payload of a heal, if it is still queued, is at the head of its queue
   (`HealsFirst`): the session it opens takes the head off and shows the payload,
   and only if these are the same message is none lost and none shown again.

Theorem 5 is about the actor's own bookkeeping. It takes from `CoreHandles` that
the core decrypts a queued message at most once, and from `Arrive` that a
redelivered message does not reach the actor's handler; the second is the
business of `InboundDelivery`.

The only assumptions are those on the constants: `InboundAssumption`,
`OutgoingAssumption`, `AccountAssumption`, `ConnectionAssumption`,
`ChatAssumption` (contacts are finite in number; a start lists them in some order)
and `ActorAssumption` (`None` is no contact, session or message, and bounds are
numbers).

Every safety invariant and action property that a passing run checks is stated by
a theorem. Liveness (`EveryTextStored`, `ShutdownHeard`, `EveryEnvelopeSettles`,
`AttemptEnds`, `CallsEnd`, `LoneStreamSettles`, `TextsEnd`) is checked by TLC only,
as ENABLED and induction over executions are out of TLAPS's reach here. What
`SetToSeqs` enumerates is taken from its definition; no recursive definition is
reasoned about.

## 5. Not modelled

* The length of delays (back-off, heartbeat interval, cooldowns): a delay may end
  at any time.
* The cursor across logins: a logout clears it while entries of the old pipeline
  may still be committed, and what the server makes of a cursor of another
  account is not in the repository.
* Tokens and device ids as headers of a call; the screens that only draw; the
  safety number; the ack table, records and delivery marks, which the core reads
  as answers that the models leave open.
* Invite parsing and expiry and the byte layout of KNST frames: pure functions
  of one value, which the repository's unit tests reach. The cutting of gRPC
  frames out of chunks (`grpc/stream.rs:138-160`): a loop over one task's own
  buffer; the models receive whole frames.
* `cursor_after` on cursors that are not `<millis>-<seq>`: the server sends one
  form, and with one form the order is that of positions.
* `TuiBridge`, which nothing calls; generated code; process start-up.

## 6. Plan

1. `InboundDelivery`, `Inbox`, `OutgoingStream`, `Outbox`, `AccountLifecycle`,
   `ChatSessions`, `SharedConnection`, `RemoteCall`, `SessionActor` are done but
   for what section 2 leaves out.
2. Proofs of all safety properties are done.
3. An abstract contact book that `ChatSessions` implements, and an abstract inbox
   of a chat that `SessionActor` implements (a message that was taken is shown at
   most once, or dropped).
