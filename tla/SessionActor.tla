----------------------------- MODULE SessionActor -----------------------------
(***************************************************************************)
(* How the orchestrator actor turns one event into crypto-session changes: *)
(*                                                                         *)
(*   event -> prepare_outgoing -> core.handle_event -> dispatch actions    *)
(*                 -> follow-up events -> their actions -> next event      *)
(*                                                                         *)
(* Dispatching an action may await the network, change the core's session, *)
(* and push follow-up events, which are handled one level deep: what a     *)
(* follow-up's own actions push goes into a vector nobody reads.           *)
(*                                                                         *)
(* construct_core is outside the repository.  CoreHandles leaves open what *)
(* it answers, within what the comments and handlers of the actor say of   *)
(* each event; it decrypts a queued message at most once.                  *)
(*                                                                         *)
(* Sources: src/src/orchestrator_task.rs, src/src/knst.rs (decode_text).   *)
(***************************************************************************)
EXTENDS Naturals, Sequences

CONSTANTS
    Peers,
    None,
    MaxIn,     \* bound: messages that arrive
    MaxOut,    \* bound: texts the user sends
    MaxMoves,  \* bound: chats opened, contacts removed, timers fired
    MaxUpsets  \* bound: crashes, failed fetches, inits and writes, dropped texts

VARIABLES
    cmds, events,       \* cmd_rx and rx of the actor
    plan,               \* what the handler in progress still has to do
    acts,               \* actions of the last handle_event, not yet dispatched
    follow,             \* follow_ups of the cycle
    deep,               \* follow-ups of the cycle will be handled
    nested,             \* the actions are those of a follow-up
    inited,             \* session_inited of the cycle
    session,            \* the core's session with each peer
    pending, healing,   \* the core's queue for a session, its payload for a heal
    fetches, retries,   \* tasks: FetchPublicKeyBundle, waits of HealSuppressed
    rows,               \* secure_store: session_<id>
    archive,            \* archive_<id> holds the session that was ended last
    bubbles,            \* NewMessage notices with a message's id, sent to the UI
    previews,           \* how many were sent for a preview, without one
    arrived, moves, upsets,
    fate,               \* per text: "none", "queued", "sent", "refused", "dropped", "lost"
    ended               \* history: peers that ended a session the disk holds

queues == <<cmds, events>>
cycle  == <<acts, follow, deep, nested, inited>>
core   == <<session, pending, healing>>
tasks  == <<fetches, retries>>
disk   == <<rows, archive>>
notices == <<bubbles, previews>>
counts == <<arrived, moves, upsets>>
vars == <<cmds, events, plan, acts, follow, deep, nested, inited, session, pending,
          healing, fetches, retries, rows, archive, bubbles, previews, arrived, moves,
          upsets, fate, ended>>

Texts == 1..MaxOut
\* What a decrypted payload is: user text, a KNST frame of a silent control
\* type, or the bare bytes of a heartbeat.
Bodies == {"text", "silent", "beat"}
Arrivals == [id : 1..MaxIn, body : Bodies]

\* A session: who opened it, on what occasion, and the first message sent in it.
Sessions == [role : {"initiator", "responder"}, by : {"open", "heal", "other"},
             first : {"none", "ping", "text", "beat"}]
NewSession(role, by) == [role |-> role, by |-> by, first |-> "none"]

ASSUME ActorAssumption ==
    /\ None \notin Peers \cup Sessions \cup Arrivals
    /\ MaxIn \in Nat /\ MaxOut \in Nat /\ MaxMoves \in Nat /\ MaxUpsets \in Nat

\* Events and actions alike: a kind, a peer, and what belongs to it.
Item(kind, p, arg) == [kind |-> kind, peer |-> p, arg |-> arg]
Act(kind, p) == Item(kind, p, None)

Active(p) == session[p] # None
Idle == plan = <<>> /\ acts = <<>> /\ follow = <<>>

TypeOK ==
    /\ \A p \in Peers :
        /\ session[p] \in Sessions \cup {None} /\ rows[p] \in Sessions \cup {None}
        /\ pending[p] \in Seq(Arrivals) /\ healing[p] \in Arrivals \cup {None}
        /\ fetches[p] \in Nat /\ retries[p] \in Nat
    /\ \A i \in DOMAIN bubbles : bubbles[i] \in Arrivals
    /\ archive \in [Peers -> BOOLEAN] /\ ended \subseteq Peers /\ inited \subseteq Peers
    /\ previews \in Nat
    /\ fate \in [Texts -> {"none", "queued", "sent", "refused", "dropped", "lost"}]
    /\ deep \in BOOLEAN /\ nested \in BOOLEAN
    /\ arrived \in 0..MaxIn /\ moves \in 0..MaxMoves /\ upsets \in 0..MaxUpsets
    /\ Len(follow) <= 2

Init ==
    /\ cmds = <<>> /\ events = <<>> /\ plan = <<>> /\ acts = <<>> /\ follow = <<>>
    /\ deep = FALSE /\ nested = FALSE /\ inited = {}
    /\ session = [p \in Peers |-> None] /\ pending = [p \in Peers |-> <<>>]
    /\ healing = [p \in Peers |-> None] /\ fetches = [p \in Peers |-> 0]
    /\ retries = [p \in Peers |-> 0]
    /\ rows = [p \in Peers |-> None] /\ archive = [p \in Peers |-> FALSE]
    /\ bubbles = <<>> /\ previews = 0 /\ arrived = 0 /\ moves = 0 /\ upsets = 0
    /\ fate = [t \in Texts |-> "none"] /\ ended = {}

Upset == upsets < MaxUpsets /\ upsets' = upsets + 1 /\ UNCHANGED <<arrived, moves>>

-----------------------------------------------------------------------------
(* What reaches the actor *)

\* The relay forwards a message.
Arrive(p, body) ==
    /\ arrived < MaxIn
    /\ arrived' = arrived + 1
    /\ cmds' = Append(cmds, Item("received", p, [id |-> arrived', body |-> body]))
    /\ UNCHANGED <<events, plan, cycle, core, tasks, disk, notices, moves, upsets,
                   fate, ended>>

\* The user opens a chat or removes a contact, or a timer of the core fires.
Move(p) ==
    /\ moves < MaxMoves
    /\ moves' = moves + 1
    /\ \/ events' = Append(events, Act("open", p)) /\ UNCHANGED cmds
       \/ events' = Append(events, Act("timer", p)) /\ UNCHANGED cmds
       \/ cmds' = Append(cmds, Act("forget", p)) /\ UNCHANGED events
    /\ UNCHANGED <<plan, cycle, core, tasks, disk, notices, arrived, upsets, fate,
                   ended>>

\* The user sends the next text.
Submit(p, t) ==
    /\ \A u \in Texts : fate[u] = "none" <=> u >= t
    /\ fate' = [fate EXCEPT ![t] = "queued"]
    /\ events' = Append(events, Item("out", p, [what |-> "text", text |-> t]))
    /\ UNCHANGED <<cmds, plan, cycle, core, tasks, disk, notices, counts, ended>>

\* A FetchPublicKeyBundle task ends; a failure only tells the UI.
Fetched(p) ==
    /\ fetches[p] > 0
    /\ fetches' = [fetches EXCEPT ![p] = @ - 1]
    /\ \/ events' = Append(events, Act("bundle", p)) /\ UNCHANGED counts
       \/ Upset /\ UNCHANGED events
    /\ UNCHANGED <<cmds, plan, cycle, core, retries, disk, notices, fate, ended>>

-----------------------------------------------------------------------------
(* The handler in progress, as a list of steps *)

\* A step of a handler: a whole cycle, with or without its follow-ups.
Cycle(e, follows) == [do |-> IF follows THEN "cycle" ELSE "shallow", event |-> e]
Todo(what, e) == [do |-> what, event |-> e]
Ping(p) == Item("out", p, [what |-> "ping", text |-> 0])

\* prepare_outgoing: a chat that is opened and a message to send need a session.
\* had_inbound is sampled before the bundle is fetched.
Prepared(e) ==
    IF e.kind \in {"open", "out"} /\ ~Active(e.peer)
    THEN <<Todo("fetch", e), Cycle(Act("bundle", e.peer), TRUE)>>
            \o (IF e.kind = "open" /\ pending[e.peer] = <<>>
                THEN <<Todo("ping", e)>> ELSE <<Todo("require", e)>>)
            \o <<Cycle(e, TRUE)>>
    ELSE <<Cycle(e, TRUE)>>

NextEvent ==
    /\ Idle /\ events # <<>>
    /\ events' = Tail(events)
    /\ plan' = Prepared(Head(events))
    /\ UNCHANGED <<cmds, cycle, core, tasks, disk, notices, counts, fate, ended>>

\* handle_command; the stale-replay guard before it is in InboundDelivery.
NextCommand ==
    /\ Idle /\ cmds # <<>>
    /\ cmds' = Tail(cmds)
    /\ LET c == Head(cmds)
       IN plan' = IF c.kind = "forget"
                  THEN <<Cycle(Act("away", c.peer), FALSE), Todo("forget", c)>>
                  ELSE <<Cycle(c, TRUE)>>
    /\ UNCHANGED <<events, cycle, core, tasks, disk, notices, counts, fate, ended>>

\* (mutant) a text is given up silently
RefuseSilently(e) == UNCHANGED fate

\* The text of an event will not be sent: an error is shown.
Refuse(e) ==
    fate' = IF e.kind = "out" /\ e.arg.what = "text"
            THEN [fate EXCEPT ![e.arg.text] = "refused"] ELSE fate

Between == acts = <<>> /\ follow = <<>> /\ plan # <<>>
Doing(what) == Between /\ Head(plan).do = what

\* A handler without a session: a text is given up, an opened chat goes on.
WithoutSession(e) ==
    /\ plan' = IF e.kind = "open" THEN <<Cycle(e, TRUE)>> ELSE <<>>
    /\ Refuse(e)

\* establish_session awaits the bundle.
Establish ==
    /\ Doing("fetch")
    /\ \/ plan' = Tail(plan) /\ UNCHANGED <<counts, fate>>
       \/ Upset /\ WithoutSession(Head(plan).event)
    /\ UNCHANGED <<queues, cycle, core, tasks, disk, notices, ended>>

\* (mutant) the ping goes through the actor's own queue, as heartbeats do
EstablishedQueues ==
    /\ Doing("ping") \/ Doing("require")
    /\ LET e == Head(plan).event
       IN IF ~Active(e.peer) THEN WithoutSession(e) /\ UNCHANGED events
          ELSE /\ plan' = Tail(plan)
               /\ events' = IF Head(plan).do = "ping"
                            THEN Append(events, Ping(e.peer)) ELSE events
               /\ UNCHANGED fate
    /\ UNCHANGED <<cmds, cycle, core, tasks, disk, notices, counts, ended>>

\* establish_session returned; a new INITIATOR session of an opened chat is
\* given a ping at once, by a cycle whose follow-ups are dropped.
Established ==
    /\ Doing("ping") \/ Doing("require")
    /\ LET e == Head(plan).event
       IN IF ~Active(e.peer) THEN WithoutSession(e)
          ELSE /\ plan' = IF Head(plan).do = "ping"
                          THEN <<Cycle(Ping(e.peer), FALSE)>> \o Tail(plan)
                          ELSE Tail(plan)
               /\ UNCHANGED fate
    /\ UNCHANGED <<queues, cycle, core, tasks, disk, notices, counts, ended>>

\* ForgetContact: the core's state and both rows of the contact go.
Forget ==
    /\ Doing("forget")
    /\ LET p == Head(plan).event.peer
       IN /\ session' = [session EXCEPT ![p] = None]
          /\ pending' = [pending EXCEPT ![p] = <<>>]
          /\ healing' = [healing EXCEPT ![p] = None]
          /\ rows' = [rows EXCEPT ![p] = None]
          /\ archive' = [archive EXCEPT ![p] = FALSE]
          /\ ended' = ended \ {p}
    /\ plan' = Tail(plan)
    /\ UNCHANGED <<queues, cycle, tasks, notices, counts, fate>>

-----------------------------------------------------------------------------
(* construct_core: the actions it asks for, and what it keeps to itself *)

Ask(as) == acts' = as

\* A session as it is imported from its row.
Restored(row) == IF row = None THEN None ELSE [row EXCEPT !.by = "other"]

\* A message of the peer: decrypted, queued for a session to come, taken as the
\* start of a conflicting session, as its end, or dropped.  The start of a
\* conflicting session is queued, and is the payload of the heal; what comes
\* while one is queued is queued behind it.  A row is deleted by a save of no
\* data, and may be asked for when a session is missing.
Incoming(p, m) ==
    \/ Active(p) /\ Ask(<<Item("show", p, m), Act("save", p)>>) /\ UNCHANGED core
    \/ Active(p) /\ Ask(<<Item("show", p, m), Act("preview", p)>>) /\ UNCHANGED core
    \/ Active(p) /\ Ask(<<Item("heal", p, "Initiator")>>) /\ UNCHANGED core
    \/ /\ Active(p)
       /\ IF pending[p] = <<>>
          THEN /\ \E a \in {Item("heal", p, "Responder"), Act("retry", p)} : Ask(<<a>>)
               /\ healing' = [healing EXCEPT ![p] = m]
          ELSE Ask(<<>>) /\ UNCHANGED healing
       /\ pending' = [pending EXCEPT ![p] = Append(@, m)]
       /\ UNCHANGED session
    \/ /\ Active(p)
       /\ \E a \in {Act("terminate", p), Item("erase", p, "session")} : Ask(<<a>>)
       /\ session' = [session EXCEPT ![p] = None]
       /\ UNCHANGED <<pending, healing>>
    \/ /\ ~Active(p) /\ \E a \in {Act("fetch", p), Act("load", p)} : Ask(<<a>>)
       /\ pending' = [pending EXCEPT ![p] = Append(@, m)]
       /\ UNCHANGED <<session, healing>>
    \/ Ask(<<>>) /\ UNCHANGED core

\* A session has been opened: it is saved, and the queue drained, in which a
\* message may turn out to be the start of yet another session.
Drain(p) ==
    /\ \/ /\ Ask(<<Act("save", p)>>
                    \o [i \in DOMAIN pending[p] |-> Item("show", p, pending[p][i])])
          /\ pending' = [pending EXCEPT ![p] = <<>>] /\ UNCHANGED healing
       \/ /\ pending[p] # <<>>
          /\ Ask(<<Act("save", p), Item("heal", p, "Initiator")>>)
          /\ pending' = [pending EXCEPT ![p] = <<>>] /\ UNCHANGED healing
       \/ /\ pending[p] # <<>>
          /\ Ask(<<Act("save", p), Item("heal", p, "Responder")>>)
          /\ healing' = [healing EXCEPT ![p] = Head(pending[p])] /\ UNCHANGED pending
    /\ UNCHANGED session

CoreHandles(e) ==
    LET p == e.peer IN
    \/ /\ e.kind = "received"
       /\ \/ Incoming(p, e.arg)
          \/ Ask(<<Item("check", p, e.arg)>>) /\ UNCHANGED core
    \/ e.kind = "acked" /\ Incoming(p, e.arg)
    \/ e.kind = "inited" /\ Drain(p)
    \/ /\ e.kind = "bundle" /\ Ask(IF Active(p) THEN <<>> ELSE <<Act("init", p)>>)
       /\ UNCHANGED core
    \/ /\ e.kind = "out"
       /\ Ask(IF Active(p) THEN <<Item("send", p, e.arg), Act("save", p)>> ELSE <<>>)
       /\ UNCHANGED core
    \/ /\ e.kind = "launched"
       /\ Ask(IF healing[p] # None THEN <<Item("heal", p, "Responder")>> ELSE <<>>)
       /\ UNCHANGED core
    \/ /\ e.kind = "timer"
       /\ \E a \in {Act("beat", p), Item("erase", p, "archive")} : Ask(<<a>>)
       /\ UNCHANGED core
    \/ /\ e.kind = "loaded"
       /\ Ask(IF Active(p) \/ e.arg # None THEN <<>> ELSE <<Act("fetch", p)>>)
       /\ session' = IF Active(p) THEN session
                     ELSE [session EXCEPT ![p] = Restored(e.arg)]
       /\ UNCHANGED <<pending, healing>>
    \/ e.kind \in {"open", "away"} /\ Ask(<<>>) /\ UNCHANGED core

-----------------------------------------------------------------------------
(* A cycle: run, handle_command *)

StartCycle ==
    /\ Doing("cycle") \/ Doing("shallow")
    /\ CoreHandles(Head(plan).event)
    /\ deep' = (Head(plan).do = "cycle") /\ nested' = FALSE /\ inited' = {}
    /\ plan' = Tail(plan)
    /\ UNCHANGED <<queues, follow, tasks, disk, notices, counts, fate, ended>>

FollowUp ==
    /\ acts = <<>> /\ follow # <<>>
    /\ CoreHandles(Head(follow))
    /\ follow' = Tail(follow) /\ nested' = TRUE
    /\ UNCHANGED <<queues, plan, deep, inited, tasks, disk, notices, counts, fate,
                   ended>>

\* (mutant) what follow-ups push is handled as well
PushAlways(es) == follow' = follow \o es

\* follow_ups.push: only the first level of a full cycle is read again.
Push(es) == follow' = IF deep /\ ~nested THEN follow \o es ELSE follow

\* The next action is of this kind; it is done with.
Next1(kind) == acts # <<>> /\ Head(acts).kind = kind
Peer == Head(acts).peer
Done == acts' = Tail(acts)
Open(p, role, by) == session' = [session EXCEPT ![p] = NewSession(role, by)]

\* decode_text and the filters of InitSession and heal: only user text.
Surface(m) ==
    /\ bubbles' = IF m.body = "text" THEN Append(bubbles, m) ELSE bubbles
    /\ UNCHANGED previews

-----------------------------------------------------------------------------
(* dispatch *)

Completed(p) == <<Act("inited", p)>>

\* (mutant) the first message stays in the core's queue
InitResponderKeeps ==
    /\ Next1("init") /\ pending[Peer] # <<>>
    /\ Open(Peer, "responder", "other")
    /\ Surface(Head(pending[Peer]))
    /\ Push(Completed(Peer)) /\ inited' = inited \cup {Peer} /\ Done
    /\ UNCHANGED <<queues, plan, deep, nested, pending, healing, tasks, disk, counts,
                   fate, ended>>

\* The peer wrote first: its message opens the session and is shown from here.
InitResponder ==
    /\ Next1("init") /\ pending[Peer] # <<>>
    /\ Open(Peer, "responder", "other")
    /\ pending' = [pending EXCEPT ![Peer] = Tail(@)]
    /\ Surface(Head(pending[Peer]))
    /\ Push(Completed(Peer)) /\ inited' = inited \cup {Peer} /\ Done
    /\ UNCHANGED <<queues, plan, deep, nested, healing, tasks, disk, counts, fate,
                   ended>>

\* Nothing is queued, or what is queued has no wire payload (an upset).
InitInitiator ==
    /\ Next1("init")
    /\ IF pending[Peer] = <<>> THEN UNCHANGED counts ELSE Upset
    /\ Open(Peer, "initiator",
            IF plan # <<>> /\ Head(plan).do = "ping" THEN "open" ELSE "other")
    /\ Push(Completed(Peer)) /\ inited' = inited \cup {Peer} /\ Done
    /\ UNCHANGED <<queues, plan, deep, nested, pending, healing, tasks, disk, notices,
                   fate, ended>>

InitFails ==
    /\ Next1("init") /\ Upset /\ Done
    /\ UNCHANGED <<queues, plan, follow, deep, nested, inited, core, tasks, disk,
                   notices, fate, ended>>

\* (mutant) a heal is not compared with what the cycle has opened
HealAlways ==
    /\ Next1("heal")
    /\ LET wire == healing[Peer]
           more == IF Head(acts).arg = "Initiator" THEN <<Act("reinit", Peer)>>
                   ELSE IF wire = None THEN <<>> ELSE <<Item("rejoin", Peer, wire)>>
       IN /\ acts' = more \o Tail(acts)
          /\ healing' = IF Head(acts).arg = "Initiator" THEN healing
                        ELSE [healing EXCEPT ![Peer] = None]
    /\ UNCHANGED <<queues, plan, follow, deep, nested, inited, session, pending, tasks,
                   disk, notices, counts, fate, ended>>

\* SessionHealNeeded, up to the await of the bundle.  The winner of the
\* tie-break has sent END_SESSION, the other has taken the queued payload.
Heal ==
    /\ Next1("heal")
    /\ LET wire == healing[Peer]
           stale == Peer \in inited
           wins == Head(acts).arg = "Initiator"
           more == IF stale THEN <<>>
                   ELSE IF wins THEN <<Act("reinit", Peer)>>
                   ELSE IF wire = None THEN <<>> ELSE <<Item("rejoin", Peer, wire)>>
       IN /\ acts' = more \o Tail(acts)
          /\ healing' = IF stale \/ wins THEN healing
                        ELSE [healing EXCEPT ![Peer] = None]
    /\ UNCHANGED <<queues, plan, follow, deep, nested, inited, session, pending, tasks,
                   disk, notices, counts, fate, ended>>

\* The bundle came: a new session replaces the old one, and a ping is to follow.
HealInitiator ==
    /\ Next1("reinit")
    /\ \/ /\ Open(Peer, "initiator", "heal")
          /\ Push(Completed(Peer) \o <<Ping(Peer)>>)
          /\ UNCHANGED counts
       \/ Upset /\ UNCHANGED <<session, follow>>
    /\ Done
    /\ UNCHANGED <<queues, plan, deep, nested, inited, pending, healing, tasks, disk,
                   notices, fate, ended>>

\* The same from the peer's payload, whose text is shown; a message opens a
\* session once, so only one that is still queued does.  On a failure the peer is
\* sent END_SESSION.
HealResponder ==
    /\ Next1("rejoin")
    /\ LET m == Head(acts).arg
           opens == \E i \in DOMAIN pending[Peer] : pending[Peer][i] = m
       IN \/ /\ opens
             /\ Open(Peer, "responder", "heal")
             /\ pending' = [pending EXCEPT ![Peer] = Tail(@)]
             /\ Surface(m)
             /\ Push(Completed(Peer))
             /\ UNCHANGED counts
          \/ /\ IF opens THEN Upset ELSE UNCHANGED counts
             /\ UNCHANGED <<session, pending, notices, follow>>
    /\ Done
    /\ UNCHANGED <<queues, plan, deep, nested, inited, healing, tasks, disk, fate, ended>>

\* MessageDecrypted: whatever decode_text gives is stored and shown.
Show ==
    /\ Next1("show")
    /\ bubbles' = Append(bubbles, Head(acts).arg)
    /\ UNCHANGED previews
    /\ Done
    /\ UNCHANGED <<queues, plan, follow, deep, nested, inited, core, tasks, disk, counts,
                   fate, ended>>

\* SaveSessionToSecureStore of a session; a failed write is only logged.  A new
\* session takes the row of one that was ended and could not be archived.
Save ==
    /\ Next1("save")
    /\ \/ /\ rows' = [rows EXCEPT ![Peer] = session[Peer]]
          /\ ended' = IF archive[Peer] THEN ended ELSE ended \ {Peer}
          /\ UNCHANGED counts
       \/ Upset /\ UNCHANGED <<rows, ended>>
    /\ Done
    /\ UNCHANGED <<queues, plan, follow, deep, nested, inited, core, tasks, archive,
                   notices, fate>>

\* SaveSessionToSecureStore of no data deletes the row of the session or of the
\* archive; with the last of the two the core gives up what it ended.
Erase ==
    /\ Next1("erase")
    /\ \/ /\ IF Head(acts).arg = "session"
             THEN rows' = [rows EXCEPT ![Peer] = None] /\ UNCHANGED archive
             ELSE archive' = [archive EXCEPT ![Peer] = FALSE] /\ UNCHANGED rows
          /\ ended' = IF rows'[Peer] = None /\ ~archive'[Peer]
                      THEN ended \ {Peer} ELSE ended
          /\ UNCHANGED counts
       \/ Upset /\ UNCHANGED <<disk, ended>>
    /\ Done
    /\ UNCHANGED <<queues, plan, follow, deep, nested, inited, core, tasks, notices, fate>>

\* LoadSessionFromSecureStore answers by a follow-up.
Load ==
    /\ Next1("load")
    /\ Push(<<Item("loaded", Peer, rows[Peer])>>)
    /\ Done
    /\ UNCHANGED <<queues, plan, deep, nested, inited, core, tasks, disk, notices, counts,
                   fate, ended>>

\* NotifyNewMessage: a notice without the message's id, which the UI shows as a
\* bubble of its own.
Preview ==
    /\ Next1("preview")
    /\ previews' = previews + 1
    /\ Done
    /\ UNCHANGED <<queues, plan, follow, deep, nested, inited, core, tasks, disk, bubbles,
                   counts, fate, ended>>

\* SendEncryptedMessage, the first of its session or a later one.  The result of
\* try_send is ignored: a full or closed channel drops it without a word.
SendOut ==
    /\ Next1("send")
    /\ LET x == Head(acts).arg
           Goes(how) == IF x.what = "text" THEN [fate EXCEPT ![x.text] = how] ELSE fate
       IN /\ session' = IF session[Peer].first = "none"
                        THEN [session EXCEPT ![Peer].first = x.what] ELSE session
          /\ \/ fate' = Goes("sent") /\ UNCHANGED counts
             \/ fate' = Goes("dropped") /\ Upset
    /\ Done
    /\ UNCHANGED <<queues, plan, follow, deep, nested, inited, pending, healing, tasks,
                   disk, notices, ended>>

\* FetchPublicKeyBundle and HealSuppressed spawn a task.
Spawn ==
    /\ Next1("fetch") \/ Next1("retry")
    /\ IF Head(acts).kind = "fetch"
       THEN fetches' = [fetches EXCEPT ![Peer] = @ + 1] /\ UNCHANGED retries
       ELSE retries' = [retries EXCEPT ![Peer] = @ + 1] /\ UNCHANGED fetches
    /\ Done
    /\ UNCHANGED <<queues, plan, follow, deep, nested, inited, core, disk, notices,
                   counts, fate, ended>>

\* The cooldown of a suppressed heal is over.
RetryDue(p) ==
    /\ retries[p] > 0
    /\ retries' = [retries EXCEPT ![p] = @ - 1]
    /\ events' = Append(events, Act("launched", p))
    /\ UNCHANGED <<cmds, plan, cycle, core, fetches, disk, notices, counts, fate, ended>>

\* CheckAckInDb answers by a follow-up.
CheckAck ==
    /\ Next1("check")
    /\ Push(<<Item("acked", Peer, Head(acts).arg)>>)
    /\ Done
    /\ UNCHANGED <<queues, plan, deep, nested, inited, core, tasks, disk, notices, counts,
                   fate, ended>>

\* SendHeartbeat comes back as a message to send.
Beat ==
    /\ Next1("beat")
    /\ events' = Append(events, Item("out", Peer, [what |-> "beat", text |-> 0]))
    /\ Done
    /\ UNCHANGED <<cmds, plan, follow, deep, nested, inited, core, tasks, disk, notices,
                   counts, fate, ended>>

\* (mutant) the session's row is deleted before the archive is written
TerminateDeletesFirst ==
    /\ Next1("terminate")
    /\ IF rows[Peer] # None
       THEN /\ rows' = [rows EXCEPT ![Peer] = None] /\ ended' = ended \cup {Peer}
            /\ UNCHANGED <<acts, archive>>
       ELSE /\ archive' = [archive EXCEPT ![Peer] = TRUE] /\ Done
            /\ UNCHANGED <<rows, ended>>
    /\ UNCHANGED <<queues, plan, follow, deep, nested, inited, core, tasks, notices,
                   counts, fate>>

\* SessionTerminated archives first; if that fails it stops there, and the
\* archive, if there is one, is that of an earlier session.
Terminate ==
    /\ Next1("terminate")
    /\ ended' = IF rows[Peer] = None THEN ended ELSE ended \cup {Peer}
    /\ \/ /\ archive' = [archive EXCEPT ![Peer] = TRUE]
          /\ acts' = <<Act("unrow", Peer)>> \o Tail(acts)
          /\ UNCHANGED counts
       \/ /\ archive' = [archive EXCEPT ![Peer] = @ /\ rows[Peer] = None]
          /\ Upset /\ Done
    /\ UNCHANGED <<queues, plan, follow, deep, nested, inited, core, tasks, rows,
                   notices, fate>>

\* ... then deletes the session's row.
DeleteRow ==
    /\ Next1("unrow")
    /\ \/ rows' = [rows EXCEPT ![Peer] = None] /\ UNCHANGED counts
       \/ Upset /\ UNCHANGED rows
    /\ Done
    /\ UNCHANGED <<queues, plan, follow, deep, nested, inited, core, tasks, archive,
                   notices, fate, ended>>

\* The process ends and starts again with the sessions that were saved.  The
\* import of construct.orchestrator_state, which only ForgetContact exports, is
\* left out: what construct_core puts there is not known here.
Crash ==
    /\ Upset
    /\ cmds' = <<>> /\ events' = <<>> /\ plan' = <<>> /\ acts' = <<>> /\ follow' = <<>>
    /\ inited' = {}
    /\ session' = [p \in Peers |-> Restored(rows[p])]
    /\ pending' = [p \in Peers |-> <<>>] /\ healing' = [p \in Peers |-> None]
    /\ fetches' = [p \in Peers |-> 0] /\ retries' = [p \in Peers |-> 0]
    /\ fate' = [t \in Texts |-> IF fate[t] = "queued" THEN "lost" ELSE fate[t]]
    /\ UNCHANGED <<deep, nested, disk, notices, ended>>

-----------------------------------------------------------------------------
Dispatch == InitResponder \/ InitInitiator \/ InitFails \/ Heal \/ HealInitiator
              \/ HealResponder \/ Show \/ Preview \/ Save \/ Erase \/ Load \/ SendOut \/ Spawn
              \/ CheckAck \/ Beat \/ Terminate \/ DeleteRow
Actor == NextEvent \/ NextCommand \/ Establish \/ Established \/ Forget \/ StartCycle
              \/ FollowUp \/ Dispatch

Next ==
    \/ Actor \/ Crash
    \/ \E p \in Peers : \E body \in Bodies : Arrive(p, body)
    \/ \E p \in Peers : Move(p) \/ Fetched(p) \/ RetryDue(p)
    \/ \E p \in Peers : \E t \in Texts : Submit(p, t)

Spec == Init /\ [][Next]_vars

\* The actor runs while it has something to do, and a bundle fetch ends.
FairSpec == Spec /\ WF_vars(Actor)

-----------------------------------------------------------------------------
(* Properties *)

\* The session made when a chat is opened, with nothing of the peer queued,
\* carries its ping before any text, though texts wait in the actor's queue and
\* the bundle is awaited ("ping occupies msgNum=0 so the peer can become
\* RESPONDER before user text", orchestrator_task.rs:1151).
PingFirst ==
    \A p \in Peers : session[p] # None /\ session[p].by = "open"
                        => session[p].first \in {"none", "ping"}

\* A session that InitSession has opened is not replaced in the same cycle,
\* neither by its actions nor by those of its follow-ups
\* (orchestrator_task.rs:242).
InitNotOverwritten ==
    [][\A p \in inited : p \in inited' => session'[p] # None
                            /\ session'[p].role = session[p].role
                            /\ session'[p].by = session[p].by]_vars

\* No message is stored and announced under its id twice, whether it opened a
\* session, waited for one, or was part of a heal.  A preview names no message
\* and is not counted: the UI shows it as well (orchestrator_task.rs:969).
SurfacedOnce == \A i, j \in DOMAIN bubbles : bubbles[i].id = bubbles[j].id => i = j

\* What the disk holds of a session that the peer ends stays there, as a session
\* or as its archive, at every moment a crash can strike and whichever write
\* fails (apply_session_terminated, orchestrator_task.rs:1050), until the contact
\* is forgotten, the core deletes the last copy by an empty save, or saves a new
\* session over a row that could not be archived.
EndedIsKept == \A p \in ended : rows[p] # None \/ archive[p]

\* A text of the user does not stay with the actor: it is given to the stream's
\* channel, dropped where that has no room, refused with an error, or goes with a
\* crash.
TextsEnd == \A t \in Texts : fate[t] = "queued" ~> fate[t] # "queued"

\* "Never reaches the transcript. A bubble here is a user-visible defect."
\* (knst.rs:131, of silent control types.)
ControlNeverShown == \A i \in DOMAIN bubbles : bubbles[i].body = "text"

\* "KNST session-ping occupies msgNum=0 so user text is not the X3DH carrier"
\* (orchestrator_task.rs:690, of a heal), and follow-ups "should only produce
\* simple actions" (orchestrator_task.rs:241).
HealPingsFirst ==
    \A p \in Peers : session[p] # None /\ session[p].by = "heal"
                        /\ session[p].role = "initiator"
                        => session[p].first # "text"
=============================================================================
