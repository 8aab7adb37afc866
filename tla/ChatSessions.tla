---------------------------- MODULE ChatSessions ----------------------------
(***************************************************************************)
(* The main screen and the orchestrator around one set of contacts.  They  *)
(* share the database and talk over unbounded queues:                      *)
(*                                                                         *)
(*   UI  --events (rx)-->  orchestrator  --internal events-->  UI          *)
(*       --commands (cmd_rx)-->                                            *)
(*                                                                         *)
(* The orchestrator takes from its two queues in any order and waits for   *)
(* the server, holding everything else up, when it needs a key bundle to   *)
(* open a session.  The UI reads and deletes rows on a connection of its   *)
(* own while the orchestrator writes.  A contact stands for its id and its *)
(* name.  Inbound entries reach the command queue as InboundDelivery       *)
(* describes; envelopes leave as OutgoingStream describes.                 *)
(*                                                                         *)
(* A re-authentication starts all this a second time in the same process,  *)
(* under the chat that is open: the list is read again, and the UI talks   *)
(* to a new orchestrator while the older one goes on with what it has.     *)
(*                                                                         *)
(* Sources: src/src/app.rs, src/src/orchestrator_task.rs,                  *)
(* src/src/storage.rs, src/src/screens/chat_list.rs, chat_view.rs,         *)
(* contact_search.rs.                                                      *)
(***************************************************************************)
EXTENDS Integers, Sequences, SequencesExt

CONSTANTS
    People,       \* whom the user may know
    Known,        \* the contacts the database holds at first
    None,         \* no contact
    MaxTexts,     \* bound: texts composed
    MaxInbound,   \* bound: messages of the contacts
    MaxLookups,   \* bound: searches and invites submitted
    MaxInputs,    \* bound: of these three together
    MaxEvents,    \* bound: events queued when the UI queues one more
    MaxUpsets     \* bound: restarts, second starts and failed calls of the
                  \* database, together

ASSUME ChatAssumption ==
    /\ IsFiniteSet(People) /\ Known \subseteq People /\ None \notin People
    /\ {MaxTexts, MaxInbound, MaxLookups, MaxInputs, MaxEvents, MaxUpsets} \subseteq Nat

VARIABLES
    ui,       \* the App: see Fresh
    lookups,  \* searches and invites whose answers are outstanding
    internal, \* internal events queued for the UI
    events,   \* rx of the orchestrator
    cmds,     \* cmd_rx of the orchestrator
    orch,     \* the orchestrator and its core: see Loaded
    contacts, stored, keys, \* tables: contacts, messages, session_<id> of secure_store
    sent,     \* history: texts given to the core, in order
    count     \* how much of each bound is used

queues == <<events, cmds>>
disk   == <<contacts, stored, keys>>
vars   == <<ui, lookups, internal, events, cmds, orch, contacts, stored, keys,
            sent, count>>

-----------------------------------------------------------------------------
(* Values.                                                                 *)

Inbounds == [kind : {"received"}, id : 1..MaxInbound, peer : People]
Texts    == [kind : {"sent"}, id : 1..MaxTexts, peer : People \cup {None}]

Open(c)   == [what |-> "open", arg |-> c]
Text(t)   == [what |-> "text", arg |-> t]
Bundle(c) == [what |-> "bundle", arg |-> c]
Store(m)  == [what |-> "store", arg |-> m]
Show(m)   == [what |-> "show", arg |-> m]
Save(c)   == [what |-> "save", arg |-> c]

Tagged(tags, args) == [what : tags, arg : args]
Events   == Tagged({"open", "bundle"}, People) \cup Tagged({"text"}, Texts)
Commands == Tagged({"forget"}, People) \cup Tagged({"inbound"}, Inbounds)
Steps    == Tagged({"store", "show"}, Inbounds) \cup Tagged({"text"}, Texts)
              \cup Tagged({"save"}, People)
Notices  == Tagged({"show"}, Inbounds) \cup Tagged({"invite"}, People)
              \cup Tagged({"search"}, People \cup {None})
Lookups  == [id : 1..MaxLookups, what : {"search", "invite"}, who : People]

Args(tagged, tag) == {x.arg : x \in {y \in tagged : y.what = tag}}

Count(what) == count' = [count EXCEPT ![what] = @ + 1]
Upset == count.upsets < MaxUpsets /\ Count("upsets")

\* A call of the database whose result (or error) nobody looks at: the table
\* changes, or it does not.
Attempt(next, new, old) ==
    \/ next = new /\ UNCHANGED count
    \/ next = old /\ Upset

RoomForEvent == Len(events) < MaxEvents
RoomForInput == count.texts + count.inbound + count.lookups < MaxInputs

-----------------------------------------------------------------------------
(* The App after the first start_orchestrator: the contacts of the         *)
(* database, ordered by their names, the first one selected, no chat open. *)
First(known) == IF known = <<>> THEN 0 ELSE 1
Fresh(known) ==
    [screen |-> "main", focus |-> "list",
     list   |-> known,                            \* chat_list.contacts
     sel    |-> First(known),                     \* its selection (0: none)
     dialog |-> None,                             \* delete_confirm
     found  |-> None,                             \* the selected search result
     shown  |-> None, view |-> {},                \* contact_name, messages
     opened |-> None,        \* history: whose rows were loaded into view
     read   |-> TRUE,        \* history: the last start could read the contacts
     replaced |-> FALSE]     \* history: the list was set under the chat shown

\* The orchestrator with the sessions start_orchestrator restored.
Loaded(material) ==
    [fetching |-> <<>>,  \* the event whose key bundle it waits for, at most one
     work     |-> <<>>,  \* what is left to do of the event or command in hand
     session  |-> material,                   \* peers the core has a session with
     waiting  |-> [c \in People |-> <<>>],    \* messages kept until there is one
     bundles  |-> {},                         \* bundles fetched by spawned tasks
     second   |-> FALSE,                      \* an older orchestrator runs beside it
     older    |-> {}]                         \* messages that one has still to store, to show

Idle == orch.fetching = <<>> /\ orch.work = <<>>

Init ==
    /\ contacts = Known /\ keys \in SUBSET Known
    /\ \E known \in SetToSeqs(contacts) : ui = Fresh(known)
    /\ orch = Loaded(keys)
    /\ lookups = {} /\ internal = <<>> /\ events = <<>> /\ cmds = <<>>
    /\ stored = {} /\ sent = <<>>
    /\ count = [texts |-> 0, inbound |-> 0, lookups |-> 0, upsets |-> 0]

\* The sessions a start can find: those of the table, and any an older
\* orchestrator has saved meanwhile, which no one else reads.
Material == IF orch.second THEN {k \in SUBSET People : keys \subseteq k} ELSE {keys}

\* The program ends, or dies, and is started again on the same database.
Restart ==
    /\ Upset
    /\ \/ \E known \in SetToSeqs(contacts), material \in Material :
             ui' = Fresh(known) /\ orch' = Loaded(contacts \cap material)
       \/ ui' = [Fresh(<<>>) EXCEPT !.read = FALSE] /\ orch' = Loaded({})
    /\ lookups' = {} /\ internal' = <<>> /\ events' = <<>> /\ cmds' = <<>>
    /\ UNCHANGED <<disk, sent>>

-----------------------------------------------------------------------------
(* A second start, by the success of a re-authentication.                  *)

\* The messages the orchestrator has still to decrypt, to store or to show.
Undecrypted == Args(ToSet(cmds), "inbound") \cup UNION {ToSet(orch.waiting[c]) : c \in People}
ToStore == Args(ToSet(orch.work), "store")
ToShow  == Args(ToSet(orch.work), "show") \ ToStore

\* The orchestrator of a second start, which knows the sessions given, beside
\* the one there was: that one is not told, and goes on with what it has.
Second(material) ==
    [Loaded(material) EXCEPT
        !.second = TRUE,
        !.older = orch.older \cup {Store(m) : m \in Undecrypted \cup ToStore}
                    \cup {Show(m) : m \in ToShow}]

\* start_orchestrator: set_contacts selects the first entry whatever chat is
\* shown, unless the contacts cannot be read; then the list stays, and no
\* session is loaded.
SecondStart ==
    /\ Upset
    /\ \/ \E known \in SetToSeqs(contacts), material \in Material :
             /\ ui' = [ui EXCEPT !.screen = "main", !.list = known, !.sel = First(known),
                         !.read = TRUE, !.replaced = ui.shown # None]
             /\ orch' = Second(contacts \cap material)
       \/ ui' = [ui EXCEPT !.screen = "main"] /\ orch' = Second({})
    /\ events' = <<>> /\ cmds' = <<>>
    /\ UNCHANGED <<lookups, internal, disk, sent>>

\* start_orchestrator cannot open the database, and returns.
SecondStartFails ==
    /\ Upset
    /\ ui' = [ui EXCEPT !.screen = "main"]
    /\ UNCHANGED <<lookups, internal, queues, orch, disk, sent>>

\* What an older orchestrator still does to a message.
OlderStores(m) ==
    /\ Store(m) \in orch.older
    /\ Attempt(stored', stored \cup {m}, stored)
    /\ orch' = [orch EXCEPT !.older = (@ \ {Store(m)}) \cup {Show(m)}]
    /\ UNCHANGED <<ui, lookups, internal, queues, contacts, keys, sent>>

OlderNotifies(m) ==
    /\ Show(m) \in orch.older
    /\ internal' = Append(internal, Show(m))
    /\ orch' = [orch EXCEPT !.older = @ \ {Show(m)}]
    /\ UNCHANGED <<ui, lookups, queues, disk, sent, count>>

-----------------------------------------------------------------------------
(* Keys on the main screen.                                                *)

Selected == IF ui.sel = 0 THEN None ELSE ui.list[ui.sel]

\* A key of the main screen that no dialog intercepts.
MainKey(focus) == ui.screen = "main" /\ ui.dialog = None /\ ui.focus = focus

OnlyUi == UNCHANGED <<lookups, internal, queues, orch, disk, sent, count>>

\* j, k: ChatListPane::next and prev stop at the ends.
MoveSelection ==
    /\ MainKey("list") /\ ui.sel # 0
    /\ \E i \in {ui.sel - 1, ui.sel + 1} \cap DOMAIN ui.list : ui' = [ui EXCEPT !.sel = i]
    /\ OnlyUi

\* Enter, Tab in the list: the chat of the selected contact, if there is one,
\* with its stored messages, if they can be read.
OpenChat ==
    /\ MainKey("list") /\ RoomForEvent
    /\ LET c == Selected IN
       \/ /\ c = None /\ UNCHANGED <<events, count>>
          /\ ui' = [ui EXCEPT !.focus = "chat"]
       \/ /\ c # None /\ events' = Append(events, Open(c))
          /\ \E loaded \in {c, None} :
                /\ ui' = [ui EXCEPT !.focus = "chat", !.shown = c, !.opened = loaded,
                            !.replaced = FALSE, !.view = {m \in stored : m.peer = loaded}]
                /\ IF loaded = c THEN UNCHANGED count ELSE Upset
    /\ UNCHANGED <<lookups, internal, cmds, orch, disk, sent>>

\* Esc, Shift+Tab: back to the list.  The compose box is left through the
\* chat, where the keys only scroll: the two are one focus here.
LeaveChat ==
    /\ MainKey("chat")
    /\ ui' = [ui EXCEPT !.focus = "list"]
    /\ OnlyUi

\* Enter in the compose box, with a text: it goes to the selected contact, and
\* into the chat that is shown in any case.
Send ==
    /\ MainKey("chat") /\ count.texts < MaxTexts /\ RoomForInput /\ RoomForEvent
    /\ LET t == [kind |-> "sent", id |-> count.texts + 1, peer |-> Selected] IN
       /\ events' = IF Selected = None THEN events ELSE Append(events, Text(t))
       /\ ui' = [ui EXCEPT !.view = @ \cup {t}]
    /\ Count("texts")
    /\ UNCHANGED <<lookups, internal, cmds, orch, disk, sent>>

\* x: ask before the selected contact is deleted.
AskDelete ==
    /\ MainKey("list") /\ Selected # None
    /\ ui' = [ui EXCEPT !.dialog = Selected]
    /\ OnlyUi

\* Any key but y.
CancelDelete ==
    /\ ui.screen = "main" /\ ui.dialog # None
    /\ ui' = [ui EXCEPT !.dialog = None]
    /\ OnlyUi

\* ChatListPane::remove_at of the first entry of c; the selection goes to the
\* entry that took its place, or to the last one.
Unlisted(c) ==
    IF c \notin ToSet(ui.list) THEN [list |-> ui.list, sel |-> ui.sel]
    ELSE LET i == CHOOSE j \in DOMAIN ui.list :
                    ui.list[j] = c /\ \A k \in 1..(j - 1) : ui.list[k] # c
             rest == RemoveAt(ui.list, i)
         IN  [list |-> rest, sel |-> IF i > Len(rest) THEN Len(rest) ELSE i]

\* (mutant) the entry leaves the list although the rows may still be there.
DeleteFailsUnlists ==
    /\ ui.screen = "main" /\ ui.dialog # None /\ Upset
    /\ LET l == Unlisted(ui.dialog) IN
       ui' = [ui EXCEPT !.dialog = None, !.list = l.list, !.sel = l.sel]
    /\ UNCHANGED <<lookups, internal, queues, orch, disk, sent>>

\* y, when delete_contact fails: the statements before the failing one stay.
DeleteFails ==
    /\ ui.screen = "main" /\ ui.dialog # None /\ Upset
    /\ \E done \in 0..2 :
          /\ contacts' = IF done >= 1 THEN contacts \ {ui.dialog} ELSE contacts
          /\ stored' = IF done = 2 THEN {m \in stored : m.peer # ui.dialog} ELSE stored
    /\ ui' = [ui EXCEPT !.dialog = None]
    /\ UNCHANGED <<lookups, internal, queues, orch, keys, sent>>

\* y: rows, list entry and session go.  The chat is emptied if no entry of the
\* contact is left, whichever chat it is (the other half of the condition
\* compares a name with an id), and takes the name of the selected contact.
ConfirmDelete ==
    /\ ui.screen = "main" /\ ui.dialog # None
    /\ LET c == ui.dialog
           l == Unlisted(c)
           gone == c \notin ToSet(l.list)
       IN
       /\ contacts' = contacts \ {c} /\ keys' = keys \ {c}
       /\ stored' = {m \in stored : m.peer # c}
       /\ cmds' = Append(cmds, [what |-> "forget", arg |-> c])
       /\ ui' = [ui EXCEPT !.dialog = None, !.list = l.list, !.sel = l.sel,
                   !.view   = IF gone THEN {} ELSE @,
                   !.opened = IF gone THEN None ELSE @,
                   !.shown  = IF ~gone THEN @ ELSE IF l.sel = 0 THEN None ELSE l.list[l.sel]]
    /\ UNCHANGED <<lookups, internal, events, orch, sent, count>>

-----------------------------------------------------------------------------
(* The contact search and its answers.                                     *)

\* a, n in the list.
OpenSearch ==
    /\ MainKey("list")
    /\ ui' = [ui EXCEPT !.screen = "search", !.found = None]
    /\ OnlyUi

\* Esc, or typing, which drops the result.
EditSearch ==
    /\ ui.screen = "search"
    /\ \E s \in {"main", "search"} : ui' = [ui EXCEPT !.screen = s, !.found = None]
    /\ OnlyUi

\* Enter without a result: find_user, or accept_invite for a pasted invite.
\* Nothing stops a second one while the first is outstanding.
SubmitSearch(what, c) ==
    /\ ui.screen = "search" /\ ui.found = None
    /\ count.lookups < MaxLookups /\ RoomForInput
    /\ lookups' = lookups \cup {[id |-> count.lookups + 1, what |-> what, who |-> c]}
    /\ Count("lookups")
    /\ UNCHANGED <<ui, internal, queues, orch, disk, sent>>

\* The server answers: somebody, nobody (a search), or an error, which only
\* changes a line of the search screen.
LookupAnswers(l) ==
    /\ lookups' = lookups \ {l}
    /\ \E who \in {l.who} \cup (IF l.what = "search" THEN {None} ELSE {}) :
          internal' = Append(internal, [what |-> l.what, arg |-> who])
    /\ UNCHANGED <<ui, queues, orch, disk, sent, count>>

LookupFails(l) ==
    /\ lookups' = lookups \ {l}
    /\ UNCHANGED <<ui, internal, queues, orch, disk, sent, count>>

\* (mutant) the new contact is selected.
FinishAddSelects(c) ==
    /\ Attempt(contacts', contacts \cup {c}, contacts)
    /\ ui' = [ui EXCEPT !.list = Append(@, c), !.sel = Len(ui.list) + 1,
                !.found = None, !.screen = "main"]
    /\ events' = Append(events, Open(c))
    /\ UNCHANGED <<cmds, orch, stored, keys, sent>>

\* (mutant) the first contact of an empty list is not selected.
FinishAddUnselected(c) ==
    /\ Attempt(contacts', contacts \cup {c}, contacts)
    /\ ui' = [ui EXCEPT !.list = Append(@, c), !.found = None, !.screen = "main"]
    /\ events' = Append(events, Open(c))
    /\ UNCHANGED <<cmds, orch, stored, keys, sent>>

\* finish_add_contact: the row is written if it can be; the list entry is
\* appended even if there is one already.
FinishAdd(c) ==
    /\ Attempt(contacts', contacts \cup {c}, contacts)
    /\ ui' = [ui EXCEPT !.list = Append(@, c), !.sel = IF @ = 0 THEN 1 ELSE @,
                !.found = None, !.screen = "main"]
    /\ events' = Append(events, Open(c))
    /\ UNCHANGED <<cmds, orch, stored, keys, sent>>

\* Enter with a result.
AddFound ==
    /\ ui.screen = "search" /\ ui.found # None /\ RoomForEvent
    /\ FinishAdd(ui.found)
    /\ UNCHANGED <<lookups, internal>>

-----------------------------------------------------------------------------
(* handle_internal, whatever screen is shown.                              *)

\* NewMessage goes into the chat that is open, whoever wrote it.
ShowMessage ==
    /\ internal # <<>> /\ Head(internal).what = "show"
    /\ ui' = [ui EXCEPT !.view = @ \cup {Head(internal).arg}]
    /\ internal' = Tail(internal)
    /\ UNCHANGED <<lookups, queues, orch, disk, sent, count>>

ShowFound ==
    /\ internal # <<>> /\ Head(internal).what = "search"
    /\ ui' = [ui EXCEPT !.found = Head(internal).arg]
    /\ internal' = Tail(internal)
    /\ UNCHANGED <<lookups, queues, orch, disk, sent, count>>

InviteAccepted ==
    /\ internal # <<>> /\ Head(internal).what = "invite" /\ RoomForEvent
    /\ FinishAdd(Head(internal).arg)
    /\ internal' = Tail(internal)
    /\ UNCHANGED lookups

-----------------------------------------------------------------------------
(* The orchestrator.  A handler that awaits nothing still touches the      *)
(* database and the UI's queue one call at a time: work lists its calls.   *)

\* A message of a listed contact reaches the command queue, or an older
\* orchestrator, whose stream goes on.
Arrive(c) ==
    /\ c \in ToSet(ui.list)
    /\ count.inbound < MaxInbound /\ RoomForInput /\ Count("inbound")
    /\ LET m == [kind |-> "received", id |-> count.inbound + 1, peer |-> c]
           queued == Append(cmds, [what |-> "inbound", arg |-> m])
       IN
       \/ cmds' = queued /\ UNCHANGED orch
       \/ orch.second /\ orch' = [orch EXCEPT !.older = @ \cup {Store(m)}] /\ UNCHANGED cmds
    /\ UNCHANGED <<ui, lookups, internal, events, disk, sent>>

\* (mutant) shown, then persisted.
SurfaceEarly(m) == <<Show(m), Store(m)>>

\* MessageDecrypted: persisted, then shown.
Surface(m) == <<Store(m), Show(m)>>

\* The calls for all the messages of a queue, in order, two for each.
Surfaced(ms) ==
    [k \in 1..(2 * Len(ms)) |-> Surface(ms[(k + 1) \div 2])[2 - (k % 2)]]

\* InitSession of c and its follow-up SessionInitCompleted: the messages that
\* waited for the session are surfaced and the session is saved.
Establish(c, then) ==
    orch' = [orch EXCEPT !.fetching = <<>>,
               !.session = @ \cup {c}, !.waiting[c] = <<>>,
               !.work = Surfaced(orch.waiting[c]) \o <<Save(c)>> \o then]

Command == Idle /\ cmds # <<>> /\ cmds' = Tail(cmds)
NextEvent(what) == Idle /\ events # <<>> /\ Head(events).what = what
                     /\ events' = Tail(events)

\* ForgetContact: the core's state and the stored session; what waits in the
\* event queue is left alone.
ForgetContact ==
    /\ Command /\ Head(cmds).what = "forget"
    /\ LET c == Head(cmds).arg IN
       /\ orch' = [orch EXCEPT !.session = @ \ {c}, !.waiting[c] = <<>>]
       /\ Attempt(keys', keys \ {c}, keys)
    /\ UNCHANGED <<ui, lookups, internal, events, contacts, stored, sent>>

\* StreamMessage: decrypted if there is a session, kept otherwise, while a
\* task fetches the peer's bundle.
StreamMessage ==
    /\ Command /\ Head(cmds).what = "inbound"
    /\ LET m == Head(cmds).arg IN
       orch' = IF m.peer \in orch.session
               THEN [orch EXCEPT !.work = Surface(m) \o <<Save(m.peer)>>]
               ELSE [orch EXCEPT !.waiting[m.peer] = Append(@, m), !.bundles = @ \cup {m.peer}]
    /\ UNCHANGED <<ui, lookups, internal, events, disk, sent, count>>

\* The spawned fetch ends: with KeyBundleFetched in the event queue, or with
\* an error for the status line.
BundleTask(c) ==
    /\ c \in orch.bundles
    /\ orch' = [orch EXCEPT !.bundles = @ \ {c}]
    /\ events' \in {Append(events, Bundle(c)), events}
    /\ UNCHANGED <<ui, lookups, internal, cmds, disk, sent, count>>

\* KeyBundleFetched: InitSession, unless the session is there by now.
KeyBundleFetched ==
    /\ NextEvent("bundle")
    /\ LET c == Head(events).arg IN
       IF c \in orch.session THEN UNCHANGED orch ELSE Establish(c, <<>>)
    /\ UNCHANGED <<ui, lookups, internal, cmds, disk, sent, count>>

\* ActiveChatChanged: a session is opened first if there is none.
ActiveChatChanged ==
    /\ NextEvent("open")
    /\ orch' = IF Head(events).arg \in orch.session THEN orch
               ELSE [orch EXCEPT !.fetching = <<Head(events)>>]
    /\ UNCHANGED <<ui, lookups, internal, cmds, disk, sent, count>>

\* OutgoingMessage: likewise; the core encrypts it and the session is saved.
OutgoingMessage ==
    /\ NextEvent("text")
    /\ LET t == Head(events).arg IN
       orch' = IF t.peer \in orch.session
               THEN [orch EXCEPT !.work = <<Text(t), Save(t.peer)>>]
               ELSE [orch EXCEPT !.fetching = <<Head(events)>>]
    /\ UNCHANGED <<ui, lookups, internal, cmds, disk, sent, count>>

\* The bundle arrives while everything waits for it.
FetchSucceeds ==
    /\ orch.fetching # <<>>
    /\ LET e == Head(orch.fetching) IN
       IF e.what = "open" THEN Establish(e.arg, <<>>)
       ELSE Establish(e.arg.peer, <<e, Save(e.arg.peer)>>)
    /\ UNCHANGED <<ui, lookups, internal, queues, disk, sent, count>>

\* (mutant) the event is put back for another try.
FetchFailsRetries ==
    /\ orch.fetching # <<>>
    /\ orch' = [orch EXCEPT !.fetching = <<>>]
    /\ events' = events \o orch.fetching
    /\ UNCHANGED <<ui, lookups, internal, cmds, disk, sent, count>>

\* No bundle, or no session out of it: an error, and the text is given up.
FetchFails ==
    /\ orch.fetching # <<>>
    /\ orch' = [orch EXCEPT !.fetching = <<>>]
    /\ UNCHANGED <<ui, lookups, internal, queues, disk, sent, count>>

Step(what) == orch.work # <<>> /\ Head(orch.work).what = what
                /\ orch' = [orch EXCEPT !.work = Tail(@)]

StoreInbound ==
    /\ Step("store")
    /\ Attempt(stored', stored \cup {Head(orch.work).arg}, stored)
    /\ UNCHANGED <<ui, lookups, internal, queues, contacts, keys, sent>>

Notify ==
    /\ Step("show")
    /\ internal' = Append(internal, Head(orch.work))
    /\ UNCHANGED <<ui, lookups, queues, disk, sent, count>>

SaveSession ==
    /\ Step("save")
    /\ Attempt(keys', keys \cup {Head(orch.work).arg}, keys)
    /\ UNCHANGED <<ui, lookups, internal, queues, contacts, stored, sent>>

SendEncrypted ==
    /\ Step("text")
    /\ sent' = Append(sent, Head(orch.work).arg)
    /\ UNCHANGED <<ui, lookups, internal, queues, disk, count>>

-----------------------------------------------------------------------------
User ==
    \/ MoveSelection \/ OpenChat \/ LeaveChat \/ Send
    \/ AskDelete \/ CancelDelete \/ DeleteFails \/ ConfirmDelete
    \/ OpenSearch \/ EditSearch \/ AddFound
    \/ \E what \in {"search", "invite"}, c \in People : SubmitSearch(what, c)

Server ==
    \/ \E c \in People : Arrive(c)
    \/ \E l \in lookups : LookupAnswers(l) \/ LookupFails(l)

Internal == ShowMessage \/ ShowFound \/ InviteAccepted

Orchestrator ==
    \/ ForgetContact \/ StreamMessage
    \/ KeyBundleFetched \/ ActiveChatChanged \/ OutgoingMessage
    \/ FetchSucceeds \/ FetchFails
    \/ StoreInbound \/ Notify \/ SaveSession \/ SendEncrypted

Start == Restart \/ SecondStart \/ SecondStartFails

Next ==
    \/ User \/ Server \/ Internal \/ Orchestrator \/ Start
    \/ \E c \in People : BundleTask(c)
    \/ \E x \in orch.older : OlderStores(x.arg) \/ OlderNotifies(x.arg)

Spec == Init /\ [][Next]_vars

-----------------------------------------------------------------------------
(* Properties.                                                             *)

TypeOK ==
    /\ ui \in [screen : {"main", "search"}, focus : {"list", "chat"},
               list : Seq(People), sel : Nat, dialog : People \cup {None},
               found : People \cup {None}, shown : People \cup {None},
               view : SUBSET (Inbounds \cup Texts), opened : People \cup {None},
               read : BOOLEAN, replaced : BOOLEAN]
    /\ ui.sel = 0 <=> ui.list = <<>>
    /\ ui.sel <= Len(ui.list)
    /\ lookups \subseteq Lookups /\ internal \in Seq(Notices)
    /\ events \in Seq(Events) /\ cmds \in Seq(Commands)
    /\ orch \in [fetching : Seq(Events), work : Seq(Steps), session : SUBSET People,
                 waiting : [People -> Seq(Inbounds)], bundles : SUBSET People,
                 second : BOOLEAN, older : SUBSET Tagged({"store", "show"}, Inbounds)]
    /\ Len(orch.fetching) <= 1 /\ (orch.fetching # <<>> => orch.work = <<>>)
    /\ contacts \subseteq People /\ stored \subseteq Inbounds /\ keys \subseteq People
    /\ sent \in Seq(Texts)
    /\ count \in [texts : 0..MaxTexts, inbound : 0..MaxInbound,
                  lookups : 0..MaxLookups,
                  upsets : 0..MaxUpsets]

\* While a chat is open the user writes to the contact whose name it shows:
\* Send addresses the selected contact, which neither invites that are accepted
\* late nor deletions move.  A second start does: it selects the first contact
\* under whatever chat is open, and until a chat is opened again a text may go
\* to somebody else.
ComposeReachesShown ==
    ui.focus = "chat" /\ ui.shown # None /\ ~ui.replaced => Selected = ui.shown

\* A chat whose history was loaded misses none of its stored messages: what an
\* orchestrator persisted too late for the load is on its way as an event.
OpenChatComplete ==
    \A m \in stored : m.peer = ui.opened =>
        \/ m \in ui.view
        \/ m \in Args(ToSet(internal) \cup ToSet(orch.work), "show")
        \/ m \in {x.arg : x \in orch.older}

\* No contact is in the database without being on the list, whatever statement
\* of an addition or a deletion failed and however often the list was read
\* again, unless a start could not read the contacts at all.
StoredIsListed == ui.read => contacts \subseteq ToSet(ui.list)

\* Texts reach the core of the orchestrator the UI talks to in the order they
\* were composed, each at most once, though sessions are opened in between.
\* (Texts a second start leaves to an older one may be overtaken.)
TextsInOrder == \A i, j \in DOMAIN sent : i < j => sent[i].id < sent[j].id

\* storage.rs: "Delete a contact and all associated messages and DR session
\* keys."  With a working database, and once the orchestrator has nothing left
\* to do, who was deleted from the list has no rows.
DeletedStaysDeleted ==
    Idle /\ events = <<>> /\ cmds = <<>> /\ orch.bundles = {} /\ ~orch.second =>
        \A c \in People \ ToSet(ui.list) :
            c \notin keys /\ \A m \in stored : m.peer # c
=============================================================================
