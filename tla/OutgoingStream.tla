--------------------------- MODULE OutgoingStream ---------------------------
(***************************************************************************)
(* The outgoing half of the stream worker: commands of the orchestrator    *)
(* (envelopes) and of the UI (contact lists, shutdown) cross               *)
(*                                                                         *)
(*   command channel -> run_worker -> frame channel -> pump -> server      *)
(*                                                                         *)
(* while connections fail to open, are refused the token, and break.  The  *)
(* worker reports its connection to the UI over the event channel, which   *)
(* is bounded: a slow relay holds the worker up.  An envelope is its       *)
(* number in the order of the try_send calls, a contact list its version.  *)
(*                                                                         *)
(* Sources: src/src/streaming.rs, src/src/grpc/stream.rs, the callers in   *)
(* src/src/orchestrator_task.rs and src/src/app.rs.                        *)
(***************************************************************************)
EXTENDS Integers, Sequences

CONSTANTS
    CmdCap,     \* command channel (64 in the code)
    PendingCap, \* OUTGOING_BUFFER_CAP (256)
    FrameCap,   \* frame channel plus the frame the pump is writing (256 + 1)
    EventCap,   \* event channel (256)
    MaxEnvs,    \* bound: envelopes
    MaxLists    \* bound: contact lists

ASSUME OutgoingAssumption ==
    /\ CmdCap \in Nat \ {0} /\ PendingCap \in Nat \ {0}
    /\ FrameCap \in Nat \ {0} /\ EventCap \in Nat \ {0}
    /\ MaxEnvs \in Nat /\ MaxLists \in Nat \ {0}

VARIABLES
    phase,      \* where run_worker stands
    cmds,       \* command channel
    hand,       \* the frame whose send_frame is awaited, at most one
    pending,    \* envelopes kept for the next connection
    subscribed, \* subscribed_users, as a version
    pump,       \* the pump task of the current connection runs
    outbox,     \* frame channel
    serverList, \* last list the server got on this connection (0: none)
    events,     \* event channel
    shown,      \* the connection the UI has been told
    list,       \* version of the UI's contact list
    loggedOut,  \* do_logout gave the sender up
    submitted,  \* envelopes the orchestrator has tried to send
    delivered,  \* history: envelopes written to the server
    taken       \* history: last list the command channel accepted

conn   == <<pump, outbox, serverList>>
worker == <<phase, hand, pending, subscribed>>
report == <<events, shown>>
callers == <<list, loggedOut, submitted, taken>>
vars == <<phase, cmds, hand, pending, subscribed, pump, outbox, serverList,
          events, shown, list, loggedOut, submitted, delivered, taken>>

Envs  == 1..MaxEnvs
Lists == 1..MaxLists
Frames == [kind : {"send"}, arg : Envs] \cup [kind : {"subscribe"}, arg : Lists]
            \cup [kind : {"heartbeat", "shutdown"}, arg : {0}]
Phases == {"connect", "opening", "refused", "announce", "sleep", "flush",
           "greet", "hail", "live", "hangup", "leaving", "exited"}

Frame(kind, arg) == [kind |-> kind, arg |-> arg]
Heartbeat == Frame("heartbeat", 0)

\* The envelopes in a queue.
EnvsIn(q) == {q[i].arg : i \in {j \in DOMAIN q : q[j].kind = "send"}}

TypeOK ==
    /\ phase \in Phases
    /\ cmds \in Seq(Frames) /\ Len(cmds) <= CmdCap
    /\ hand \in Seq(Frames) /\ Len(hand) <= 1
    /\ pending \in Seq(Frames) /\ Len(pending) <= PendingCap
    /\ \A i \in DOMAIN pending : pending[i].kind = "send"
    /\ subscribed \in Lists
    /\ pump \in BOOLEAN
    /\ outbox \in Seq(Frames) /\ Len(outbox) <= FrameCap
    /\ serverList \in 0..MaxLists
    /\ events \in Seq({"connected", "disconnected", "reconnecting", "auth",
                       "message"})
    /\ Len(events) <= EventCap
    /\ shown \in {"connected", "disconnected", "reconnecting"}
    /\ list \in Lists /\ taken \in Lists
    /\ loggedOut \in BOOLEAN
    /\ submitted \in 0..MaxEnvs
    /\ delivered \subseteq Envs

\* spawn_stream_worker gets the contacts read at start-up; handle_auth_msg has
\* already shown the account as connected.
Init ==
    /\ phase = "connect" /\ cmds = <<>> /\ hand = <<>> /\ pending = <<>>
    /\ subscribed = 1 /\ list = 1 /\ taken = 1
    /\ pump = FALSE /\ outbox = <<>> /\ serverList = 0
    /\ events = <<>> /\ shown = "connected"
    /\ loggedOut = FALSE /\ submitted = 0 /\ delivered = {}

-----------------------------------------------------------------------------
(* Callers: every command goes through try_send *)

Closed == phase \in {"leaving", "exited"}
Room == ~Closed /\ Len(cmds) < CmdCap

\* A full or closed channel drops the command and the caller goes on.
TrySend(f) == cmds' = IF Room THEN Append(cmds, f) ELSE cmds

\* Action SendEncryptedMessage, an END_SESSION or a retry of the orchestrator.
SendEnvelope ==
    /\ submitted < MaxEnvs
    /\ submitted' = submitted + 1
    /\ TrySend(Frame("send", submitted'))
    /\ UNCHANGED <<worker, conn, report, list, loggedOut, delivered, taken>>

\* A contact was added or deleted.
ListChanged ==
    /\ ~loggedOut /\ list < MaxLists
    /\ list' = list + 1
    /\ TrySend(Frame("subscribe", list'))
    /\ taken' = IF Room THEN list' ELSE taken
    /\ UNCHANGED <<worker, conn, report, loggedOut, submitted, delivered>>

Logout ==
    /\ ~loggedOut
    /\ loggedOut' = TRUE
    /\ TrySend(Frame("shutdown", 0))
    /\ UNCHANGED <<worker, conn, report, list, submitted, delivered, taken>>

-----------------------------------------------------------------------------
(* The worker *)

\* Reporting waits for room in the event channel.
Report(e) ==
    /\ Len(events) < EventCap
    /\ events' = Append(events, e)
    /\ UNCHANGED shown

\* (mutant) push_pending without its bound.
KeepAll(q, f) == Append(q, f)

\* push_pending: the oldest envelope makes room.
Keep(q, f) == Append(IF Len(q) >= PendingCap THEN Tail(q) ELSE q, f)

Drop == pump' = FALSE /\ outbox' = <<>> /\ serverList' = 0

\* run_worker returns: its receiver, its buffer and the stream are dropped.
Leave ==
    /\ phase' = "leaving"
    /\ cmds' = <<>> /\ pending' = <<>> /\ hand' = <<>>
    /\ Drop
    /\ UNCHANGED <<subscribed, report, callers, delivered>>

\* (mutant) The list of a Subscribe taken offline is not kept.
TakeOfflineListless(then) ==
    /\ cmds # <<>>
    /\ LET c == Head(cmds) IN
       \/ c.kind = "shutdown" /\ Leave
       \/ /\ c.kind # "shutdown"
          /\ cmds' = Tail(cmds)
          /\ pending' = IF c.kind = "send" THEN Keep(pending, c) ELSE pending
          /\ phase' = then
          /\ UNCHANGED <<hand, subscribed, conn, report, callers, delivered>>

\* (mutant) Any command, Shutdown included, merely ends the wait.
TakeOfflineDeaf(then) ==
    /\ cmds # <<>>
    /\ LET c == Head(cmds) IN
       /\ cmds' = Tail(cmds)
       /\ pending' = IF c.kind = "send" THEN Keep(pending, c) ELSE pending
       /\ subscribed' = IF c.kind = "subscribe" THEN c.arg ELSE subscribed
       /\ phase' = then
       /\ UNCHANGED <<hand, conn, report, callers, delivered>>

\* A command taken without a connection, on the way to phase `then`.
TakeOffline(then) ==
    /\ cmds # <<>>
    /\ LET c == Head(cmds) IN
       \/ c.kind = "shutdown" /\ Leave
       \/ /\ c.kind # "shutdown"
          /\ cmds' = Tail(cmds)
          /\ pending' = IF c.kind = "send" THEN Keep(pending, c) ELSE pending
          /\ subscribed' = IF c.kind = "subscribe" THEN c.arg ELSE subscribed
          /\ phase' = then
          /\ UNCHANGED <<hand, conn, report, callers, delivered>>

\* Top of the loop: at most one command, then the open.
Connect ==
    /\ phase = "connect"
    /\ \/ TakeOffline("opening")
       \/ /\ cmds = <<>>
          /\ phase' = "opening"
          /\ UNCHANGED <<cmds, hand, pending, subscribed, conn, report,
                         callers, delivered>>

Opened ==
    /\ phase = "opening"
    /\ phase' = "flush"
    /\ pump' = TRUE /\ serverList' = subscribed
    /\ UNCHANGED <<cmds, hand, pending, subscribed, outbox, report, callers,
                   delivered>>

\* Refused token, or any other error of the open.
OpenFailed ==
    /\ phase = "opening"
    /\ phase' \in {"refused", "announce"}
    /\ UNCHANGED <<cmds, hand, pending, subscribed, conn, report, callers,
                   delivered>>

Refused ==
    /\ phase = "refused"
    /\ Report("auth")
    /\ phase' = "announce"
    /\ UNCHANGED <<cmds, hand, pending, subscribed, conn, callers, delivered>>

\* (mutant) The flush takes the newest envelope first.
FlushNewest ==
    /\ phase = "flush" /\ hand = <<>> /\ pending # <<>>
    /\ hand' = <<pending[Len(pending)]>>
    /\ pending' = SubSeq(pending, 1, Len(pending) - 1)
    /\ UNCHANGED <<phase, cmds, subscribed, conn, report, callers, delivered>>

FlushNext ==
    /\ phase = "flush" /\ hand = <<>> /\ pending # <<>>
    /\ hand' = <<Head(pending)>> /\ pending' = Tail(pending)
    /\ UNCHANGED <<phase, cmds, subscribed, conn, report, callers, delivered>>

\* (mutant) The flush stops early.
FlushedSome ==
    /\ phase = "flush" /\ hand = <<>>
    /\ phase' = "greet"
    /\ UNCHANGED <<cmds, hand, pending, subscribed, conn, report, callers,
                   delivered>>

Flushed ==
    /\ phase = "flush" /\ hand = <<>> /\ pending = <<>>
    /\ phase' = "greet"
    /\ UNCHANGED <<cmds, hand, pending, subscribed, conn, report, callers,
                   delivered>>

\* (mutant) A reconnected stream is not reported.
GreetSilently ==
    /\ phase = "greet"
    /\ phase' = "hail" /\ hand' = <<Heartbeat>>
    /\ UNCHANGED <<cmds, pending, subscribed, conn, report, callers, delivered>>

Greet ==
    /\ phase = "greet"
    /\ Report("connected")
    /\ phase' = "hail" /\ hand' = <<Heartbeat>>
    /\ UNCHANGED <<cmds, pending, subscribed, conn, callers, delivered>>

\* The awaited send_frame succeeds.
Handed ==
    /\ hand # <<>> /\ pump /\ Len(outbox) < FrameCap
    /\ outbox' = Append(outbox, Head(hand)) /\ hand' = <<>>
    /\ phase' = IF phase = "hail" THEN "live" ELSE phase
    /\ UNCHANGED <<cmds, pending, subscribed, pump, serverList, report,
                   callers, delivered>>

\* (mutant) The live loop moves the envelope into the failed send.
HandFailedMoved ==
    /\ hand # <<>> /\ ~pump
    /\ hand' = <<>>
    /\ phase' = IF phase = "flush" THEN "greet" ELSE "hangup"
    /\ UNCHANGED <<cmds, pending, subscribed, conn, report, callers, delivered>>

\* (mutant) The flush puts the failed envelope back with push_pending.
HandFailedKept ==
    /\ hand # <<>> /\ ~pump
    /\ hand' = <<>>
    /\ phase' = IF phase = "flush" THEN "greet" ELSE "hangup"
    /\ pending' = IF Head(hand).kind = "send" THEN Keep(pending, Head(hand))
                  ELSE pending
    /\ UNCHANGED <<cmds, subscribed, conn, report, callers, delivered>>

\* It fails: the flush gives the envelope up, the live loop keeps it.
HandFailed ==
    /\ hand # <<>> /\ ~pump
    /\ hand' = <<>>
    /\ phase' = IF phase = "flush" THEN "greet" ELSE "hangup"
    /\ pending' = IF phase = "live" /\ Head(hand).kind = "send"
                  THEN Keep(pending, Head(hand)) ELSE pending
    /\ UNCHANGED <<cmds, subscribed, conn, report, callers, delivered>>

Idle == phase = "live" /\ hand = <<>>

TakeLive ==
    /\ Idle /\ cmds # <<>>
    /\ LET c == Head(cmds) IN
       \/ c.kind = "shutdown" /\ Leave
       \/ /\ c.kind # "shutdown"
          /\ cmds' = Tail(cmds) /\ hand' = <<c>>
          /\ subscribed' = IF c.kind = "subscribe" THEN c.arg ELSE subscribed
          /\ UNCHANGED <<phase, pending, conn, report, callers, delivered>>

HeartbeatTick ==
    /\ Idle
    /\ hand' = <<Heartbeat>>
    /\ UNCHANGED <<phase, cmds, pending, subscribed, conn, report, callers,
                   delivered>>

\* An incoming frame becomes an event; those received before the pump ended
\* are still taken.
DispatchIncoming ==
    /\ Idle
    /\ Report("message")
    /\ UNCHANGED <<worker, cmds, conn, callers, delivered>>

\* The frame receiver yields None.
StreamEnded ==
    /\ Idle /\ ~pump
    /\ phase' = "hangup"
    /\ UNCHANGED <<cmds, hand, pending, subscribed, conn, report, callers,
                   delivered>>

Hangup ==
    /\ phase = "hangup"
    /\ Drop
    /\ Report("disconnected")
    /\ phase' = "announce"
    /\ UNCHANGED <<cmds, hand, pending, subscribed, callers, delivered>>

Announce ==
    /\ phase = "announce"
    /\ Report("reconnecting")
    /\ phase' = "sleep"
    /\ UNCHANGED <<cmds, hand, pending, subscribed, conn, callers, delivered>>

\* The delay ends, or a command ends it.
Wake ==
    /\ phase = "sleep"
    /\ \/ TakeOffline("connect")
       \/ /\ phase' = "connect"
          /\ UNCHANGED <<cmds, hand, pending, subscribed, conn, report,
                         callers, delivered>>

Exit ==
    /\ phase = "leaving"
    /\ Report("disconnected")
    /\ phase' = "exited"
    /\ UNCHANGED <<cmds, hand, pending, subscribed, conn, callers, delivered>>

Worker ==
    \/ Connect \/ Opened \/ OpenFailed \/ Refused \/ FlushNext \/ Flushed
    \/ Greet \/ Handed \/ HandFailed \/ TakeLive \/ HeartbeatTick
    \/ DispatchIncoming \/ StreamEnded \/ Hangup \/ Announce \/ Wake \/ Exit

-----------------------------------------------------------------------------
(* The pump, the relay *)

PumpSend ==
    /\ pump /\ outbox # <<>>
    /\ outbox' = Tail(outbox)
    /\ LET f == Head(outbox) IN
       /\ delivered' = IF f.kind = "send" THEN delivered \cup {f.arg}
                       ELSE delivered
       /\ serverList' = IF f.kind = "subscribe" THEN f.arg ELSE serverList
    /\ UNCHANGED <<worker, cmds, pump, report, callers>>

\* A write or read error, or the server ends the stream: the pump returns and
\* what its channel held is gone.
LinkLost ==
    /\ pump
    /\ Drop
    /\ UNCHANGED <<worker, cmds, report, callers, delivered>>

\* The UI learns the state; an auth event starts a token refresh instead.
Relay ==
    /\ events # <<>>
    /\ events' = Tail(events)
    /\ shown' = IF Head(events) \in {"auth", "message"} THEN shown
                ELSE Head(events)
    /\ UNCHANGED <<worker, cmds, conn, callers, delivered>>

Next ==
    \/ SendEnvelope \/ ListChanged \/ Logout
    \/ Worker \/ PumpSend \/ LinkLost \/ Relay

Spec == Init /\ [][Next]_vars

\* tokio runs every ready task and select! picks among its ready branches at
\* random; opens return, the server takes what the pump writes.
FairSpec ==
    /\ Spec
    /\ WF_vars(Connect) /\ WF_vars(Opened \/ OpenFailed) /\ WF_vars(Refused)
    /\ WF_vars(FlushNext) /\ WF_vars(Flushed) /\ WF_vars(Greet)
    /\ WF_vars(Handed \/ HandFailed) /\ WF_vars(StreamEnded)
    /\ WF_vars(Hangup) /\ WF_vars(Announce) /\ WF_vars(Wake) /\ WF_vars(Exit)
    /\ SF_vars(TakeLive)
    /\ WF_vars(PumpSend) /\ WF_vars(Relay)

-----------------------------------------------------------------------------
(* Properties *)

Sorted(q) ==
    \A i, j \in DOMAIN q :
        i < j /\ q[i].kind = "send" /\ q[j].kind = "send"
            => q[i].arg < q[j].arg

Before(p, q) == \A a \in EnvsIn(p), b \in EnvsIn(q) : a < b

Queued == EnvsIn(outbox) \cup EnvsIn(hand) \cup EnvsIn(pending)
            \cup EnvsIn(cmds)

\* Whatever connections did, the envelopes still held stand in the order the
\* orchestrator sent them, behind all that were written to the server: a
\* kept envelope never overtakes or repeats one of an earlier connection.
InOrder ==
    /\ Sorted(outbox) /\ Sorted(pending) /\ Sorted(cmds)
    /\ Before(outbox, hand) /\ Before(outbox, pending) /\ Before(outbox, cmds)
    /\ Before(hand, pending) /\ Before(hand, cmds) /\ Before(pending, cmds)
    /\ \A d \in delivered, k \in Queued : d < k
    /\ \A k \in Queued \cup delivered : k <= submitted

\* Nothing waits in the buffer while the connection is used: the flush took
\* it all or the heartbeat that follows a failed flush ends the connection.
LiveMeansFlushed == phase = "live" => pending = <<>>

Listing(q) == \E i \in DOMAIN q : q[i].kind = "subscribe"

\* On a connection with no list on the way, the server has the newest list
\* the command channel accepted, whether it arrived while the worker was
\* connecting, sleeping, or sending.
SubscriptionCurrent ==
    /\ ~Closed /\ ~Listing(cmds) => subscribed = taken
       \* the worker remembers it for the next open
    /\ pump /\ ~Listing(outbox) /\ ~Listing(hand) => serverList = subscribed

\* When every report has reached the UI, it shows the state the worker is in.
StatusTruthful ==
    events = <<>> =>
        /\ phase \in {"hail", "live", "hangup"} => shown = "connected"
        /\ phase = "sleep" => shown = "reconnecting"
        /\ phase = "exited" => shown = "disconnected"

\* An envelope the client holds is given up only with a broken connection it
\* had been handed to, by a flush onto one, by a full buffer (the oldest), or
\* at exit.  In particular being offline or a failed send in the live loop
\* costs none.
LossNeedsCause ==
    [][LET lost == Queued \ (Queued' \cup delivered') IN
       \/ lost = {}
       \/ phase' = "leaving"
       \/ ~pump' /\ lost \subseteq EnvsIn(outbox)
       \/ ~pump' /\ phase = "flush" /\ lost = EnvsIn(hand)
       \/ Len(pending) = PendingCap /\ lost = EnvsIn(<<Head(pending)>>)]_vars

\* The worker refines the abstract outbox: what it holds is what stands in
\* any of its queues.
Ideal == INSTANCE Outbox WITH queued <- Queued
ImplementsOutbox == Ideal!Spec

\* A Shutdown the channel accepted ends the worker, whatever it was doing.
ShutdownHeard ==
    (\E i \in DOMAIN cmds : cmds[i].kind = "shutdown") ~> phase = "exited"

Breaks == LinkLost \/ OpenFailed

\* Unless connections keep failing for ever, every held envelope is
\* eventually written or given up: none waits in a buffer for good.
EveryEnvelopeSettles ==
    []<><<Breaks>>_vars \/ \A k \in Envs : k \in Queued ~> k \notin Queued

\* "Drop the orchestrator and stream worker (stops background tasks)", says
\* do_logout: after a logout the worker ends.
LogoutStopsWorker == loggedOut ~> phase = "exited"
=============================================================================
