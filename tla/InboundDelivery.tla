--------------------------- MODULE InboundDelivery ---------------------------
(***************************************************************************)
(* The inbound half of the client: a server entry travels                  *)
(*                                                                         *)
(*   server log -> MessageStream -> stream worker -> relay -> orchestrator *)
(*              -> messages table -> stream cursor                         *)
(*                                                                         *)
(* and the cursor is where the next subscription resumes.  An entry is its *)
(* position in the server's log; the position is also its message id, its  *)
(* stream cursor and the milliseconds of that cursor.  construct_core (the *)
(* ratchet) and the server are outside the repository: what they may       *)
(* answer is a choice, restricted by the constant Outcomes.                *)
(*                                                                         *)
(* Sources: src/src/streaming.rs, src/src/orchestrator_task.rs,            *)
(* src/src/storage.rs, the relay task of src/src/app.rs.                   *)
(***************************************************************************)
EXTENDS Integers, Sequences, Functions

CONSTANTS
    Contacts,   \* peers
    Texts,      \* what a decryption of an entry may yield (a replay may differ)
    NoText,     \* "no row with this id in the messages table"
    Entries,    \* shapes of the entries the server may log
    Outcomes,   \* answers of construct_core to a message
    Skews,      \* how far the local clock may run ahead of the server's
    StoreFails, \* may an INSERT into messages fail?
    EventCap,   \* capacity of the worker's event channel (256 in the code)
    MaxLog,     \* bound: entries the server logs
    MaxFrames,  \* bound: frames received and not yet dispatched
    MaxCmds,    \* bound: commands queued at the orchestrator
    MaxUpsets   \* bound: crashes, lost connections, failed opens and writes,
                \* resubscriptions

Kinds == {"text", "init", "reset", "ack", "garbled", "unreadable"}
EntryShapes == [kind : Kinds, from : Contacts, cursor : BOOLEAN]
Answers == {"decrypt", "queue", "ignore"}

ASSUME InboundAssumption ==
    /\ NoText \notin Texts
    /\ Entries \subseteq EntryShapes
    /\ Outcomes \subseteq Answers
    /\ Skews \subseteq Nat
    /\ StoreFails \in BOOLEAN
    /\ EventCap \in Nat \ {0}
    /\ MaxLog \in Nat
    /\ MaxFrames \in Nat \ {0}
    /\ MaxCmds \in Nat \ {0}
    /\ MaxUpsets \in Nat

VARIABLES
    log,          \* the server's stream, oldest first
    phase,        \* where run_worker stands; "down": the process is not running
    link,         \* the HTTP/2 stream is up
    since,        \* cursor read before the open that is in progress, else 0
    next,         \* next position the server sends on this connection, else 1
    frames,       \* frame_rx: received, not yet dispatched
    events,       \* event channel worker -> relay
    cmds,         \* StreamMessage commands relay -> orchestrator
    resub,        \* a Subscribe command waiting for the worker, as its cursor
    noted,        \* CursorTracker.pending: ids whose cursor is remembered
    committed,    \* CursorTracker.committed (0: none)
    waiting,      \* per contact, entries construct_core queues until a session
    established,  \* session_established_at_ms (0: no entry)
    todo,         \* decrypted entries the orchestrator is still to persist
    step,         \* of persist_inbound: "store", "commit"; "share": a cursor
                  \* just saved is not in the tracker yet
    messages,     \* messages table: id -> text
    cursor,       \* secure_store["stream_cursor"] (0: none)
    upsets,       \* how many of those so far
    seen          \* history: entries the pipeline took a decision about

stream   == <<link, next, frames>>
queues   == <<events, cmds, resub>>
tracker  == <<noted, committed>>
core     == <<waiting, established>>
actor    == <<todo, step>>
disk     == <<messages, cursor>>
vars == <<log, phase, link, since, next, frames, events, cmds, resub, noted,
          committed, waiting, established, todo, step, messages, cursor,
          upsets, seen>>

Pos == 1..MaxLog
NoQueues == [c \in Contacts |-> <<>>]
NoSessions == [c \in Contacts |-> 0]

TypeOK ==
    /\ log \in Seq(EntryShapes) /\ Len(log) <= MaxLog
    /\ phase \in {"down", "connect", "opening", "live", "backoff"}
    /\ link \in BOOLEAN
    /\ since \in 0..MaxLog /\ next \in 1..(MaxLog + 1)
    /\ frames \in Seq(Pos) /\ events \in Seq(Pos) /\ cmds \in Seq(Pos)
    /\ Len(events) <= EventCap
    /\ resub \in SUBSET (0..MaxLog)
    /\ noted \in SUBSET Pos
    /\ committed \in 0..MaxLog /\ cursor \in 0..MaxLog
    /\ waiting \in [Contacts -> Seq(Pos)]
    /\ established \in [Contacts -> Nat]
    /\ todo \in Seq([id : Pos, text : Texts])
    /\ step \in {"store", "commit", "share"}
    /\ messages \in [Pos -> Texts \cup {NoText}]
    /\ upsets \in 0..MaxUpsets
    /\ seen \in SUBSET Pos

Init ==
    /\ log = <<>>
    /\ phase = "connect" /\ link = FALSE /\ since = 0 /\ next = 1
    /\ frames = <<>> /\ events = <<>> /\ cmds = <<>> /\ resub = {}
    /\ noted = {} /\ committed = 0
    /\ waiting = NoQueues /\ established = NoSessions
    /\ todo = <<>> /\ step = "store"
    /\ messages = [k \in Pos |-> NoText] /\ cursor = 0
    /\ upsets = 0 /\ seen = {}

Upset == upsets < MaxUpsets /\ upsets' = upsets + 1

-----------------------------------------------------------------------------
(* Server and connection *)

\* A peer's message, an ack or a control entry is appended to the stream.
Publish ==
    /\ Len(log) < MaxLog
    /\ \E e \in Entries : log' = Append(log, e)
    /\ UNCHANGED <<phase, link, since, next, frames, events, cmds, resub,
                   tracker, core, actor, disk, upsets, seen>>

\* The pump hands the next frame of the connection to frame_rx.
Transmit ==
    /\ link /\ next <= Len(log) /\ Len(frames) < MaxFrames
    /\ frames' = Append(frames, next)
    /\ next' = next + 1
    /\ UNCHANGED <<log, phase, link, since, events, cmds, resub, tracker,
                   core, actor, disk, upsets, seen>>

\* The pump returns: no more frames, the frame channel is closed.
LinkLost ==
    /\ link /\ Upset
    /\ link' = FALSE /\ next' = 1
    /\ UNCHANGED <<log, phase, since, frames, events, cmds, resub, tracker,
                   core, actor, disk, seen>>

-----------------------------------------------------------------------------
(* Stream worker *)

\* (mutant) The subscription asks for the entry after the next one.
WorkerConnectPastNext ==
    /\ phase = "connect"
    /\ phase' = "opening"
    /\ since' = committed + 1
    /\ resub' = {}
    /\ UNCHANGED <<log, stream, events, cmds, tracker, core, actor, disk,
                   upsets, seen>>

\* Top of the loop: one try_recv, drop the old connection, read the cursor.
WorkerConnect ==
    /\ phase = "connect"
    /\ phase' = "opening"
    /\ since' = committed
    /\ resub' = {}
    /\ UNCHANGED <<log, stream, events, cmds, tracker, core, actor, disk,
                   upsets, seen>>

\* The server accepted the subscription: it resends what follows since.
WorkerOpened ==
    /\ phase = "opening"
    /\ phase' = "live"
    /\ link' = TRUE /\ next' = since + 1 /\ frames' = <<>>
    /\ since' = 0
    /\ UNCHANGED <<log, queues, tracker, core, actor, disk, upsets, seen>>

\* The open failed, on the transport or for the bearer token.
WorkerOpenFailed ==
    /\ phase = "opening" /\ Upset
    /\ phase' = "backoff" /\ since' = 0
    /\ UNCHANGED <<log, stream, queues, tracker, core, actor, disk, seen>>

\* The back-off sleep is over.
WorkerRetry ==
    /\ phase = "backoff"
    /\ phase' = "connect"
    /\ UNCHANGED <<log, since, stream, queues, tracker, core, actor, disk,
                   upsets, seen>>

\* (mutant) try_send: a frame that finds the channel full is dropped.
WorkerDispatchLossy ==
    /\ phase = "live" /\ frames # <<>>
    /\ frames' = Tail(frames)
    /\ events' = IF Len(events) < EventCap
                 THEN Append(events, Head(frames)) ELSE events
    /\ UNCHANGED <<log, phase, link, since, next, cmds, resub, tracker, core,
                   actor, disk, upsets, seen>>

\* (mutant) An unbounded event channel.
WorkerDispatchUnbounded ==
    /\ phase = "live" /\ frames # <<>>
    /\ frames' = Tail(frames)
    /\ events' = Append(events, Head(frames))
    /\ UNCHANGED <<log, phase, link, since, next, cmds, resub, tracker, core,
                   actor, disk, upsets, seen>>

\* dispatch_incoming: an undecodable frame is dropped, the others wait for
\* room in the event channel.
WorkerDispatch ==
    /\ phase = "live" /\ frames # <<>>
    /\ frames' = Tail(frames)
    /\ \/ /\ log[Head(frames)].kind = "garbled"
          /\ seen' = seen \cup {Head(frames)}
          /\ UNCHANGED events
       \/ /\ log[Head(frames)].kind # "garbled"
          /\ Len(events) < EventCap
          /\ events' = Append(events, Head(frames))
          /\ UNCHANGED seen
    /\ UNCHANGED <<log, phase, link, since, next, cmds, resub, tracker, core,
                   actor, disk, upsets>>

\* frame_rx is closed and empty, or a heartbeat fails on the closed stream
\* while frames are still queued: those are lost with the connection.
WorkerLeavesLive ==
    /\ phase = "live" /\ ~link
    /\ phase' = "backoff"
    /\ frames' = <<>>
    /\ UNCHANGED <<log, link, since, next, queues, tracker, core, actor, disk,
                   upsets, seen>>

\* A Subscribe command: on a live stream it is forwarded with the cursor the
\* UI read (the server may rewind to it); during back-off it ends the sleep.
WorkerSubscribe ==
    /\ \E c \in resub :
         \/ /\ phase = "live" /\ link
            /\ next' \in {next, c + 1}
            /\ UNCHANGED <<phase, frames>>
         \/ /\ phase = "live" /\ ~link
            /\ phase' = "backoff" /\ frames' = <<>>
            /\ UNCHANGED next
         \/ /\ phase = "backoff"
            /\ phase' = "connect"
            /\ UNCHANGED <<next, frames>>
    /\ resub' = {}
    /\ UNCHANGED <<log, link, since, events, cmds, tracker, core, actor, disk,
                   upsets, seen>>

\* The UI changes the contact list and resubscribes with the durable cursor
\* (bound: one such command waits at a time).
Resubscribe ==
    /\ phase # "down" /\ resub = {} /\ Upset
    /\ resub' = {cursor}
    /\ UNCHANGED <<log, phase, since, stream, events, cmds, tracker, core,
                   actor, disk, seen>>

-----------------------------------------------------------------------------
(* Cursor *)

\* (mutant) The cursor of the latest commit wins.
AdvanceCursorAlways(k) == cursor' = k /\ step' = "share"

\* CursorTracker.persist up to save_stream_cursor: the row moves strictly
\* forward or not at all.  Only when it has moved is the shared copy set, by a
\* statement of its own, OrchShare.
AdvanceCursor(k) ==
    IF k > cursor
    THEN cursor' = k /\ step' = "share"
    ELSE step' = "store" /\ UNCHANGED cursor

-----------------------------------------------------------------------------
(* Relay *)

HasCursor(k) == log[k].cursor

\* CursorTracker.note: an entry without a cursor is not remembered.
Note(k) == noted' = IF HasCursor(k) THEN noted \cup {k} ELSE noted

Relayed ==
    /\ events # <<>>
    /\ events' = Tail(events)

\* A resolvable envelope becomes a StreamMessage command.
RelayMessage ==
    /\ Relayed
    /\ log[Head(events)].kind \in {"text", "init", "reset"}
    /\ Len(cmds) < MaxCmds
    /\ cmds' = Append(cmds, Head(events))
    /\ UNCHANGED <<log, phase, since, stream, resub, tracker, core, actor,
                   disk, upsets, seen>>

\* An envelope that cannot be unsealed or unpacked is dropped for good.
RelayDrop ==
    /\ Relayed
    /\ log[Head(events)].kind = "unreadable"
    /\ seen' = seen \cup {Head(events)}
    /\ UNCHANGED <<log, phase, since, stream, cmds, resub, tracker, core,
                   actor, disk, upsets>>

\* (mutant) An ack needs no persisting, so its cursor is committed at once.
RelayAckCommits ==
    /\ Relayed
    /\ log[Head(events)].kind = "ack"
    /\ AdvanceCursor(Head(events))
    /\ seen' = seen \cup {Head(events)}
    /\ UNCHANGED <<log, phase, since, stream, cmds, resub, tracker, core,
                   todo, messages, upsets>>

\* The server's ack of one of our messages: its cursor is noted, and no
\* later step commits it.
RelayAck ==
    /\ Relayed
    /\ log[Head(events)].kind = "ack"
    /\ Note(Head(events))
    /\ seen' = seen \cup {Head(events)}
    /\ UNCHANGED <<log, phase, since, stream, cmds, resub, committed, core,
                   actor, disk, upsets>>

-----------------------------------------------------------------------------
(* Orchestrator *)

Sensitive(k) == log[k].kind \in {"init", "reset"}

\* should_drop_stale_session_replay
StaleReplay(k) ==
    /\ Sensitive(k)
    /\ established[log[k].from] # 0
    /\ HasCursor(k)
    /\ k < established[log[k].from]

\* The orchestrator task waits for the next command or event.
Idle == todo = <<>> /\ step = "store"

TakeCommand ==
    /\ Idle /\ cmds # <<>>
    /\ cmds' = Tail(cmds)
    /\ seen' = seen \cup {Head(cmds)}

\* A replay-sensitive entry older than the session is dropped, and its cursor
\* committed directly, if the row can be written.
OrchDropStale ==
    /\ TakeCommand
    /\ StaleReplay(Head(cmds))
    /\ \/ AdvanceCursor(Head(cmds)) /\ UNCHANGED upsets
       \/ Upset /\ UNCHANGED <<cursor, step>>
    /\ UNCHANGED <<log, phase, since, stream, events, resub, tracker, core,
                   todo, messages>>

\* (mutant) The cursor is committed when the entry is decrypted.
OrchDecryptCommits ==
    /\ TakeCommand
    /\ AdvanceCursor(Head(cmds))
    /\ \E t \in Texts : todo' = <<[id |-> Head(cmds), text |-> t]>>
    /\ UNCHANGED <<log, phase, since, stream, events, resub, tracker, core,
                   messages, upsets>>

\* The core decrypts at once: MessageDecrypted.
OrchDecrypt ==
    /\ TakeCommand
    /\ ~StaleReplay(Head(cmds))
    /\ "decrypt" \in Outcomes
    /\ Note(Head(cmds))
    /\ \E t \in Texts : todo' = <<[id |-> Head(cmds), text |-> t]>>
    /\ UNCHANGED <<log, phase, since, stream, events, resub, committed, core,
                   step, disk, upsets>>

\* No session yet: the core queues the entry and asks for the key bundle.
OrchQueue ==
    /\ TakeCommand
    /\ ~StaleReplay(Head(cmds))
    /\ "queue" \in Outcomes
    /\ Note(Head(cmds))
    /\ waiting' = [waiting EXCEPT ![log[Head(cmds)].from] =
                      Append(@, Head(cmds))]
    /\ UNCHANGED <<log, phase, since, stream, events, resub, committed,
                   established, actor, disk, upsets>>

\* Duplicate, control or undecryptable: the core emits nothing to persist.
OrchIgnore ==
    /\ TakeCommand
    /\ ~StaleReplay(Head(cmds))
    /\ "ignore" \in Outcomes
    /\ Note(Head(cmds))
    /\ UNCHANGED <<log, phase, since, stream, events, resub, committed, core,
                   actor, disk, upsets>>

\* What the core releases when a session for c comes up: the first waiting
\* entry only if it carries user text, the others through drain_pending.
Released(c, surfaced, t) ==
    LET kept == IF surfaced THEN waiting[c] ELSE Tail(waiting[c])
    IN  [i \in 1..Len(kept) |-> [id |-> kept[i], text |-> t]]

\* Action::InitSession as responder: the session is dated by the local clock.
OrchInitResponder(c) ==
    /\ phase # "down" /\ Idle /\ waiting[c] # <<>>
    /\ \E s \in Skews :
          established' = [established EXCEPT ![c] = Len(log) + 1 + s]
    /\ \E surfaced \in BOOLEAN, t \in Texts : todo' = Released(c, surfaced, t)
    /\ waiting' = [waiting EXCEPT ![c] = <<>>]
    /\ UNCHANGED <<log, phase, since, stream, queues, tracker, step, disk,
                   upsets, seen>>

\* Action::InitSession as initiator: opening a chat, or a send.
OrchInitInitiator(c) ==
    /\ phase # "down" /\ Idle /\ waiting[c] = <<>> /\ established[c] = 0
    /\ \E s \in Skews :
          established' = [established EXCEPT ![c] = Len(log) + 1 + s]
    /\ UNCHANGED <<log, phase, since, stream, queues, tracker, waiting, actor,
                   disk, upsets, seen>>

\* Action::SessionHealNeeded as responder: as OrchInitResponder, but the
\* session is not dated.
OrchHealResponder(c) ==
    /\ phase # "down" /\ Idle /\ waiting[c] # <<>>
    /\ \E surfaced \in BOOLEAN, t \in Texts : todo' = Released(c, surfaced, t)
    /\ waiting' = [waiting EXCEPT ![c] = <<>>]
    /\ UNCHANGED <<log, phase, since, stream, queues, tracker, established,
                   step, disk, upsets, seen>>

\* SessionTerminated, or the user forgets the contact.
OrchSessionEnds(c) ==
    /\ Idle /\ established[c] # 0
    /\ established' = [established EXCEPT ![c] = 0]
    /\ UNCHANGED <<log, phase, since, stream, queues, tracker, waiting, actor,
                   disk, upsets, seen>>

\* (mutant) INSERT OR REPLACE.
InsertOrReplace(id, text) == messages' = [messages EXCEPT ![id] = text]

\* INSERT OR IGNORE: a row that exists keeps its text.
Insert(id, text) ==
    messages' = IF messages[id] = NoText
                THEN [messages EXCEPT ![id] = text]
                ELSE messages

\* persist_inbound, first half.
OrchStore ==
    /\ todo # <<>> /\ step = "store"
    /\ Insert(Head(todo).id, Head(todo).text)
    /\ step' = "commit"
    /\ UNCHANGED <<log, phase, since, stream, queues, tracker, core, todo,
                   cursor, upsets, seen>>

\* (mutant) The error of the INSERT is logged and the commit made all the same.
OrchStoreFailsCommits ==
    /\ todo # <<>> /\ step = "store"
    /\ StoreFails /\ Upset
    /\ step' = "commit"
    /\ UNCHANGED <<log, phase, since, stream, queues, tracker, core, todo,
                   disk, seen>>

\* The INSERT fails: nothing is committed, the entry is passed over.
OrchStoreFails ==
    /\ todo # <<>> /\ step = "store"
    /\ StoreFails /\ Upset
    /\ todo' = Tail(todo)
    /\ UNCHANGED <<log, phase, since, stream, queues, tracker, core, step,
                   disk, seen>>

\* persist_inbound, second half: CursorTracker.commit.
OrchCommit ==
    /\ todo # <<>> /\ step = "commit"
    /\ noted' = noted \ {Head(todo).id}
    /\ IF Head(todo).id \in noted
       THEN AdvanceCursor(Head(todo).id)
       ELSE step' = "store" /\ UNCHANGED cursor
    /\ todo' = Tail(todo)
    /\ UNCHANGED <<log, phase, since, stream, queues, committed, core,
                   messages, upsets, seen>>

\* (mutant) The result of save_stream_cursor is not looked at.
OrchCommitFailsShares ==
    /\ todo # <<>> /\ step = "commit" /\ Upset
    /\ noted' = noted \ {Head(todo).id}
    /\ committed' = Head(todo).id
    /\ todo' = Tail(todo) /\ step' = "store"
    /\ UNCHANGED <<log, phase, since, stream, queues, core, disk, seen>>

\* The cursor row cannot be written: the note is spent all the same.
OrchCommitFails ==
    /\ todo # <<>> /\ step = "commit" /\ Upset
    /\ noted' = noted \ {Head(todo).id}
    /\ todo' = Tail(todo) /\ step' = "store"
    /\ UNCHANGED <<log, phase, since, stream, queues, committed, core, disk,
                   seen>>

\* The rest of CursorTracker.persist; the worker may have read the old copy
\* after the row was written.
OrchShare ==
    /\ step = "share"
    /\ committed' = cursor
    /\ step' = "store"
    /\ UNCHANGED <<log, phase, since, stream, queues, noted, core, todo, disk,
                   upsets, seen>>

-----------------------------------------------------------------------------
(* Process *)

\* The process dies.  construct_core may or may not have saved its queue.
Crash ==
    /\ phase # "down" /\ Upset
    /\ phase' = "down" /\ link' = FALSE
    /\ since' = 0 /\ next' = 1 /\ committed' = 0
    /\ frames' = <<>> /\ events' = <<>> /\ cmds' = <<>> /\ resub' = {}
    /\ noted' = {} /\ todo' = <<>> /\ step' = "store"
    /\ waiting' \in {waiting, NoQueues}
    /\ established' = NoSessions
    /\ UNCHANGED <<log, disk, seen>>

\* start_orchestrator: CursorTracker.load, a fresh worker.
Restart ==
    /\ phase = "down"
    /\ phase' = "connect"
    /\ committed' = cursor
    /\ UNCHANGED <<log, since, stream, queues, noted, core, actor, disk,
                   upsets, seen>>

Worker == \/ WorkerConnect \/ WorkerOpened \/ WorkerOpenFailed \/ WorkerRetry
          \/ WorkerDispatch \/ WorkerLeavesLive \/ WorkerSubscribe
Relay == RelayMessage \/ RelayDrop \/ RelayAck
Command == OrchDropStale \/ OrchDecrypt \/ OrchQueue \/ OrchIgnore
Persist == OrchStore \/ OrchStoreFails \/ OrchCommit \/ OrchCommitFails
             \/ OrchShare
Session(c) == \/ OrchInitResponder(c) \/ OrchInitInitiator(c)
              \/ OrchHealResponder(c) \/ OrchSessionEnds(c)

Next ==
    \/ Publish \/ Transmit \/ LinkLost
    \/ Worker \/ Resubscribe
    \/ Relay
    \/ Command \/ Persist
    \/ \E c \in Contacts : Session(c)
    \/ Crash \/ Restart

Spec == Init /\ [][Next]_vars

\* Each task of the runtime makes progress, the server answers an open and
\* sends what it has, and the user starts the program again.
Fairness ==
    /\ WF_vars(Transmit) /\ WF_vars(Restart)
    /\ WF_vars(WorkerConnect) /\ WF_vars(WorkerOpened)
    /\ WF_vars(WorkerRetry) /\ WF_vars(WorkerDispatch)
    /\ WF_vars(WorkerLeavesLive)
    /\ WF_vars(Relay) /\ WF_vars(Command) /\ WF_vars(Persist)

FairSpec == Spec /\ Fairness

-----------------------------------------------------------------------------
(* Properties *)

\* The durable watermark never passes an entry the pipeline has not decided
\* about: whatever the crashes, reconnects, rewinds and duplicates, every
\* entry up to the stored stream cursor was offered to the orchestrator or
\* dropped as undecodable.  (since = cursor.committed() at each reconnect, and
\* every hand-over of the pipeline is first-in first-out and never skips.)
NothingSkipped == \A k \in 1..cursor : k \in seen

\* The strengthening that makes NothingSkipped inductive.  An entry stands in a
\* queue only if every earlier one has been decided about or stands before it
\* (in that queue or further down the pipeline); everything an open connection
\* has sent is somewhere in the pipeline; and nothing that can become a cursor
\* or a resume point has an undecided entry below it.
Contiguous(q, S) ==
    \A i \in 1..Len(q) : \A k \in 1..(q[i] - 1) :
        k \in S \/ \E j \in 1..(i - 1) : q[j] = k

AtOrch   == seen
AtRelay  == AtOrch \cup Range(cmds)
AtWorker == AtRelay \cup Range(events)
OnWire   == AtWorker \cup Range(frames)

QueuesContiguous ==
    /\ Contiguous(cmds, AtOrch)
    /\ Contiguous(events, AtRelay)
    /\ Contiguous(frames, AtWorker)
    /\ \A k \in 1..(next - 1) : k \in OnWire
    /\ ~link => next = 1

Settled(k) == \A j \in 1..k : j \in seen

ResumePointsSettled ==
    /\ Settled(cursor) /\ Settled(committed) /\ Settled(since)
    /\ \A c \in resub : Settled(c)
    /\ \A i \in 1..Len(todo) : Settled(todo[i].id)
    /\ \A c \in Contacts : \A i \in 1..Len(waiting[c]) : Settled(waiting[c][i])

InOrder == QueuesContiguous /\ ResumePointsSettled

\* "Advanced only after durable persist", for the entry the cursor names: its
\* row is in the messages table, or it is a replay-sensitive entry.
CursorNamesPersisted ==
    cursor > 0 /\ ~Sensitive(cursor) => messages[cursor] # NoText

\* No subscription resumes past the row on disk, though the worker reads the
\* shared copy while the orchestrator is between the row and the copy, writes
\* of the row fail, and the UI's Subscribe waits with a cursor of its own; and
\* the copy lags the row only in between.
ResumeNotAhead ==
    /\ committed <= cursor /\ since <= cursor
    /\ \A c \in resub : c <= cursor
    /\ phase # "down" /\ step # "share" => committed = cursor

\* The stream cursor refuses to go backwards.
CursorForward == [][cursor' >= cursor]_vars

\* A server rewind cannot clobber the plaintext of a stored message.
ReplayKeepsText ==
    [][\A k \in Pos : messages[k] # NoText => messages'[k] = messages[k]]_vars

\* At-least-once: a text entry the server has logged reaches the messages
\* table, across lost connections and crashes (FairSpec, a store that works, a
\* core that decrypts a redelivery).
EveryTextStored ==
    \A k \in Pos :
        (k <= Len(log) /\ log[k].kind = "text") ~> (messages[k] # NoText)

\* The pipeline implements the inbox: its queues, crashes, reconnections and
\* redeliveries are invisible there, and OrchStore of a row that exists is a
\* stutter.
Ideal == INSTANCE Inbox WITH published <- Len(log), decided <- seen
ImplementsInbox == Ideal!Spec

\* src/src/storage.rs:354 and src/src/streaming.rs:71 call the cursor a
\* watermark "advanced only after durable persist".  Read of the entry the
\* cursor names, it should be on disk.
WatermarkEntryOnDisk == cursor > 0 => messages[cursor] # NoText

\* The same comment, read as a watermark: every user text below it is on disk.
WatermarkCoversOnlyPersisted ==
    \A k \in 1..cursor : log[k].kind = "text" => messages[k] # NoText

=============================================================================
