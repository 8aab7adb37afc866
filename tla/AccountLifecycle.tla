-------------------------- MODULE AccountLifecycle --------------------------
(***************************************************************************)
(* The account of the client: what App keeps of it in memory, the session  *)
(* file, the database, the background tasks that answer through the        *)
(* internal channel, and the pipelines (orchestrator, relay and stream     *)
(* worker) a login starts.                                                 *)
(*                                                                         *)
(* An account is its number in the order of registration; a registration   *)
(* or a device link makes a new one.  A token pair is its number in the    *)
(* order the server issued it.  A session key is the number of its salt;   *)
(* 0 means none, and for the database that it is not encrypted.            *)
(*                                                                         *)
(* Sources: src/src/app.rs, src/src/auth.rs, src/src/bridge.rs,            *)
(* src/src/config/mod.rs.                                                  *)
(***************************************************************************)
EXTENDS Integers, Sequences, FiniteSets

CONSTANTS
    MaxAccounts, \* bound: accounts the server ever has
    MaxTokens,   \* bound: token pairs the server issues
    MaxKeys,     \* bound: passphrases set for new accounts
    MaxWork,     \* bound: tasks and their answers under way
    Faults       \* how writing session.enc can fail: "refused" before it is
                 \* opened, "cut" once it is truncated, "mode" once it is
                 \* written, when its permissions are set

ASSUME AccountAssumption ==
    /\ MaxAccounts \in Nat \ {0} /\ MaxTokens \in Nat \ {0}
    /\ MaxKeys \in Nat /\ MaxWork \in Nat
    /\ Faults \subseteq {"refused", "cut", "mode"}

VARIABLES
    screen,
    noEncrypt, \* the --no-encrypt flag of this start
    user,      \* user_id
    token,     \* the access token requests carry
    session,   \* current_session
    pending,   \* pending_session, waiting for a passphrase
    key,       \* session_key
    tasks,     \* authentication, refresh and invite tasks under way
    inbox,     \* their answers in the internal channel
    pipes,     \* the pipelines that run
    mine,      \* the one orch_handle and stream_tx belong to (0: none)
    file,      \* session.enc
    db,        \* the key of messages.db
    issued     \* history: the account of every token pair

memory == <<user, token, session, pending, key>>
disk == <<file, db>>
running == <<pipes, mine>>
vars == <<screen, noEncrypt, user, token, session, pending, key, tasks, inbox,
          pipes, mine, file, db, issued>>

Accounts == 1..MaxAccounts
Tokens   == 1..MaxTokens
Keys     == 1..MaxKeys
Absent   == -1

NoSession == [acct |-> 0, tok |-> 0]
RealSessions == [acct : Accounts, tok : Tokens]
Sessions == RealSessions \cup {NoSession}

\* Settings, search and the other screens behind the login count as "main".
\* "stray" is the main screen too, put up over another one by the answer to an
\* invite: the code does not tell the two apart, and neither does a guard.
Main == {"main", "stray"}
Screens == Main \cup {"startup", "connecting", "registering", "onboarding",
                      "link", "unlock", "passphrase", "error"}

Tasks == [kind : {"register", "link", "invite"}, session : {NoSession}]
           \cup [kind : {"unlock", "reauth", "refresh"}, session : RealSessions]
           \cup [kind : {"restore"}, session : Sessions]
Msgs == [kind : {"success", "refreshed"}, session : RealSessions, save : BOOLEAN]
          \cup [kind : {"failure", "rejected", "unauthorised", "invited"},
                session : {NoSession}, save : {FALSE}]

Enc(k, s) == [kind |-> "enc", key |-> k, session |-> s]
Plain(s)  == [kind |-> "plain", key |-> 0, session |-> s]
Bare(kind) == [kind |-> kind, key |-> 0, session |-> NoSession]

\* A fault or a crash can leave the file cut short by a save, or overwritten
\* and not yet removed by a logout.
Files == [kind : {"enc"}, key : Keys, session : RealSessions]
           \cup [kind : {"plain"}, key : {0}, session : RealSessions]
           \cup {Bare("none"), Bare("torn"), Bare("erased")}

TypeOK ==
    /\ screen \in Screens
    /\ noEncrypt \in BOOLEAN
    /\ user \in 0..MaxAccounts
    /\ token \in 0..MaxTokens
    /\ session \in Sessions /\ pending \in Sessions
    /\ key \in 0..MaxKeys
    /\ tasks \in Seq(Tasks)
    /\ inbox \in Seq(Msgs)
    /\ Len(tasks) + Len(inbox) <= MaxWork
    /\ pipes \subseteq [id : Tokens, acct : Accounts, stop : BOOLEAN]
    /\ mine \in 0..MaxTokens
    /\ file \in Files
    /\ db \in {Absent} \cup 0..MaxKeys
    /\ issued \in Seq(Accounts) /\ Len(issued) <= MaxTokens

\* Nothing on disk, or a plaintext session of an earlier version, whose
\* database is not encrypted.
Init ==
    /\ screen = "startup" /\ noEncrypt = FALSE
    /\ user = 0 /\ token = 0 /\ session = NoSession /\ pending = NoSession
    /\ key = 0 /\ tasks = <<>> /\ inbox = <<>> /\ pipes = {} /\ mine = 0
    /\ \/ file = Bare("none") /\ db = Absent /\ issued = <<>>
       \/ file = Plain([acct |-> 1, tok |-> 1]) /\ db = 0 /\ issued = <<1>>

-----------------------------------------------------------------------------
(* Tasks *)

Spare == Len(tasks) + Len(inbox) < MaxWork

Task(kind, s) == [kind |-> kind, session |-> s]
Msg(kind, s, save) == [kind |-> kind, session |-> s, save |-> save]

Spawn(kind, s) == tasks' = Append(tasks, Task(kind, s))

Finish(i) ==
    tasks' = SubSeq(tasks, 1, i - 1) \o SubSeq(tasks, i + 1, Len(tasks))
Send(m) == inbox' = Append(inbox, m)

\* Writing f to session.enc, in place, returns an error: fs::write or
\* set_permissions fails.
WriteFails(f) ==
    \/ "refused" \in Faults /\ UNCHANGED file
    \/ "cut" \in Faults /\ file' = Bare("torn")
    \/ "mode" \in Faults /\ file' = f

Registered == {issued[n] : n \in DOMAIN issued}
Newcomer == Cardinality(Registered) + 1

\* The server issues a token pair to the account.
Issue(acct) == Len(issued) < MaxTokens /\ issued' = Append(issued, acct)
Renewed(acct) == [acct |-> acct, tok |-> Len(issued) + 1]

\* register_new_device, link_existing_device: a new identity.
Enrolled(i) ==
    /\ tasks[i].kind \in {"register", "link"}
    /\ Newcomer \in Accounts /\ Issue(Newcomer)
    /\ Send(Msg("success", Renewed(Newcomer), TRUE))
    /\ UNCHANGED file

\* authenticate_saved_session with the signing key of the session.
Authenticated(i) ==
    LET s == tasks[i].session IN
    /\ tasks[i].kind \in {"unlock", "reauth"}
    /\ Issue(s.acct)
    /\ Send(Msg("success", Renewed(s.acct), TRUE))
    /\ UNCHANGED file

\* try_restore_session saves the plaintext session itself.
Restored(i) ==
    LET s == tasks[i].session IN
    /\ tasks[i].kind = "restore" /\ s # NoSession
    /\ Issue(s.acct)
    /\ file' = Plain(Renewed(s.acct))
    /\ Send(Msg("success", Renewed(s.acct), FALSE))

\* An error of the server or the network, an unreadable or unwritable file.
Failed(i) ==
    LET s == tasks[i].session IN
    /\ tasks[i].kind \notin {"refresh", "invite"}
    /\ Send(Msg("failure", NoSession, FALSE))
    /\ \/ UNCHANGED <<file, issued>>
       \/ /\ tasks[i].kind = "restore" /\ s # NoSession
          /\ Issue(s.acct) /\ WriteFails(Plain(Renewed(s.acct)))

\* do_refresh: new tokens, a rejected refresh token, or a transport error,
\* which changes nothing.
Refresh(i) ==
    LET s == tasks[i].session IN
    /\ tasks[i].kind = "refresh"
    /\ UNCHANGED file
    /\ \/ Issue(s.acct) /\ Send(Msg("refreshed", Renewed(s.acct), FALSE))
       \/ Send(Msg("rejected", NoSession, FALSE)) /\ UNCHANGED issued
       \/ UNCHANGED <<inbox, issued>>

\* accept_invite returns; its error is shown by the search screen alone.
Redeemed(i) ==
    /\ tasks[i].kind = "invite"
    /\ Send(Msg("invited", NoSession, FALSE)) \/ UNCHANGED inbox
    /\ UNCHANGED <<file, issued>>

Answer(i) ==
    /\ \/ Enrolled(i) \/ Authenticated(i) \/ Restored(i) \/ Failed(i)
       \/ Refresh(i) \/ Redeemed(i)
    /\ Finish(i)
    /\ UNCHANGED <<screen, noEncrypt, memory, running, db>>

\* The stream of a pipeline is refused the token.
Unauthorised ==
    /\ Spare /\ pipes # {}
    /\ Send(Msg("unauthorised", NoSession, FALSE))
    /\ UNCHANGED <<screen, noEncrypt, memory, tasks, running, disk, issued>>

\* The worker of a pipeline told to stop ends, and the rest follows.
PipeEnds ==
    \E p \in pipes :
        /\ p.stop
        /\ pipes' = pipes \ {p}
        /\ UNCHANGED <<screen, noEncrypt, memory, tasks, inbox, mine, disk,
                       issued>>

-----------------------------------------------------------------------------
(* The UI loop: answers *)

Head1 == Head(inbox)
Take(kind) == inbox # <<>> /\ Head1.kind = kind /\ inbox' = Tail(inbox)

\* save_session_encrypted or save_session.
CanSave == key # 0 \/ noEncrypt
Saved(s) == IF key # 0 THEN Enc(key, s) ELSE Plain(s)
Save(s) == file' = Saved(s)

\* persist_session_background ignores the result of the save.
SaveIfPossible(s) ==
    \/ CanSave /\ (Save(s) \/ WriteFails(Saved(s)))
    \/ ~CanSave /\ UNCHANGED file

\* start_orchestrator opens messages.db with the key, creating it if need be;
\* if it cannot, it returns and the handles stay what they were.  A pipeline
\* that already runs is not told.
StartPipeline(s, k) ==
    \/ /\ db \in {Absent, k}
       /\ db' = k
       /\ pipes' = pipes \cup {[id |-> s.tok, acct |-> s.acct, stop |-> FALSE]}
       /\ mine' = s.tok
    \/ db \notin {Absent, k} /\ UNCHANGED <<db, running>>

\* What a success sets before anything is saved.
Adopt(s) == user' = s.acct /\ token' = s.tok /\ session' = s

\* (mutant) A session that could not be saved is used all the same.
SuccessSavedMainAnyway ==
    LET s == Head1.session IN
    /\ Take("success") /\ Head1.save /\ CanSave
    /\ Adopt(s)
    /\ Spawn("refresh", s)
    /\ \/ Save(s) /\ StartPipeline(s, key)
       \/ WriteFails(Saved(s)) /\ UNCHANGED <<db, running>>
    /\ screen' = "main"
    /\ UNCHANGED <<noEncrypt, pending, key, issued>>

\* AuthMsg::Success with a key, or without encryption.
SuccessSaved ==
    LET s == Head1.session IN
    /\ Take("success") /\ Head1.save /\ CanSave
    /\ Adopt(s)
    /\ Spawn("refresh", s)
    /\ \/ Save(s) /\ StartPipeline(s, key) /\ screen' = "main"
       \/ WriteFails(Saved(s)) /\ screen' = "error" /\ UNCHANGED <<db, running>>
    /\ UNCHANGED <<noEncrypt, pending, key, issued>>

\* A new account has no passphrase yet.
SuccessUnprotected ==
    LET s == Head1.session IN
    /\ Take("success") /\ Head1.save /\ ~CanSave
    /\ Adopt(s)
    /\ Spawn("refresh", s)
    /\ pending' = s
    /\ screen' = "passphrase"
    /\ UNCHANGED <<noEncrypt, key, running, disk, issued>>

\* A restored session was saved by its task.
SuccessRestored ==
    LET s == Head1.session IN
    /\ Take("success") /\ ~Head1.save
    /\ Adopt(s)
    /\ StartPipeline(s, key)
    /\ screen' = "main"
    /\ UNCHANGED <<noEncrypt, pending, key, tasks, file, issued>>

\* (mutant) A failed registration leaves the checklist on the screen.
FailureUnnoticed ==
    /\ Take("failure")
    /\ \/ screen' = "onboarding" /\ screen = "connecting" /\ key = 0
       \/ screen' = IF screen = "registering" THEN screen ELSE "error"
    /\ UNCHANGED <<noEncrypt, memory, tasks, running, disk, issued>>

\* AuthMsg::Failure: an automatic restore, which is a connecting screen with
\* no key and an empty username, falls back to onboarding.
Failure ==
    /\ Take("failure")
    /\ \/ screen' = "onboarding" /\ screen = "connecting" /\ key = 0
       \/ screen' = "error"
    /\ UNCHANGED <<noEncrypt, memory, tasks, running, disk, issued>>

\* (mutant) build_updated_session without its early return.
RefreshedAlways ==
    LET s == [session EXCEPT !.tok = Head1.session.tok] IN
    /\ Take("refreshed")
    /\ token' = Head1.session.tok
    /\ session' = s
    /\ Spawn("refresh", s)
    /\ SaveIfPossible(s)
    /\ UNCHANGED <<screen, noEncrypt, user, pending, key, running, db, issued>>

\* TokenRefreshMsg::Refreshed: the token is installed in any case, the session
\* in memory, if there is one, updated, saved if it can be, and its next
\* refresh scheduled.
Refreshed ==
    /\ Take("refreshed")
    /\ token' = Head1.session.tok
    /\ \/ session = NoSession /\ UNCHANGED <<session, tasks, file>>
       \/ LET s == [session EXCEPT !.tok = token'] IN
          /\ session # NoSession
          /\ session' = s
          /\ Spawn("refresh", s)
          /\ SaveIfPossible(s)
    /\ UNCHANGED <<screen, noEncrypt, user, pending, key, running, db, issued>>

\* A rejected refresh token leads to a device re-authentication, a refused
\* access token to a refresh, if there is a session.
Retry(kind, task) ==
    /\ Take(kind)
    /\ \/ session # NoSession /\ Spawn(task, session)
       \/ session = NoSession /\ UNCHANGED tasks
    /\ UNCHANGED <<screen, noEncrypt, memory, running, disk, issued>>

Rejected == Retry("rejected", "reauth")
Refused  == Retry("unauthorised", "refresh")

\* finish_add_contact puts up the main screen, whatever it replaces and
\* whoever is logged in by then.
InviteAccepted ==
    /\ Take("invited")
    /\ screen' = IF screen = "main" THEN "main" ELSE "stray"
    /\ UNCHANGED <<noEncrypt, memory, tasks, running, disk, issued>>

Handle ==
    \/ SuccessSaved \/ SuccessUnprotected \/ SuccessRestored \/ Failure
    \/ Refreshed \/ Rejected \/ Refused \/ InviteAccepted

-----------------------------------------------------------------------------
(* The UI loop: the user *)

\* startup_check.  A file of random bytes is no text and counts as none; one
\* cut short counts as plaintext and fails to load.
StartUp ==
    /\ screen = "startup"
    /\ noEncrypt' \in BOOLEAN
    /\ \/ /\ file.kind = "enc"
          /\ screen' = "unlock" /\ UNCHANGED tasks
       \/ /\ file.kind \in {"plain", "torn"} /\ Spare
          /\ screen' = "connecting" /\ Spawn("restore", file.session)
       \/ /\ file.kind \in {"none", "erased"}
          /\ screen' = "onboarding" /\ UNCHANGED tasks
    /\ UNCHANGED <<memory, inbox, running, disk, issued>>

ToLink ==
    /\ \/ screen = "onboarding" /\ screen' = "link"
       \/ screen = "link" /\ screen' = "onboarding"
    /\ UNCHANGED <<noEncrypt, memory, tasks, inbox, running, disk, issued>>

Enrol ==
    /\ Spare
    /\ \/ /\ screen = "onboarding" /\ screen' = "registering"
          /\ Spawn("register", NoSession)
       \/ /\ screen = "link" /\ screen' = "connecting"
          /\ Spawn("link", NoSession)
    /\ UNCHANGED <<noEncrypt, memory, inbox, running, disk, issued>>

\* The right passphrase; any other, and the keys that edit it, change nothing.
Unlock ==
    /\ screen = "unlock" /\ file.kind = "enc" /\ Spare
    /\ key' = file.key
    /\ Spawn("unlock", file.session)
    /\ screen' = "connecting"
    /\ UNCHANGED <<noEncrypt, user, token, session, pending, inbox, running,
                   disk, issued>>

\* The keys of a new account get a salt of their own.
SetPassphrase ==
    /\ screen = "passphrase" /\ pending # NoSession
    /\ \E k \in Keys \ {key, file.key, db} :
          \/ /\ key' = k
             /\ file' = Enc(k, pending)
             /\ pending' = NoSession
             /\ StartPipeline(session, k)
             /\ screen' = "main"
          \/ /\ WriteFails(Enc(k, pending))
             /\ UNCHANGED <<screen, key, pending, db, running>>
    /\ UNCHANGED <<noEncrypt, user, token, session, tasks, inbox, issued>>

\* redeem_pasted_invite, from the search screen.
SubmitInvite ==
    /\ screen \in Main /\ Spare
    /\ Spawn("invite", NoSession)
    /\ UNCHANGED <<screen, noEncrypt, memory, inbox, running, disk, issued>>

\* Any key leaves the error screen.
DismissError ==
    /\ screen = "error"
    /\ screen' = IF key # 0 THEN "unlock" ELSE "onboarding"
    /\ UNCHANGED <<noEncrypt, memory, tasks, inbox, running, disk, issued>>

\* Shutdown is sent with try_send, so it may be lost (see OutgoingStream).
GiveUpPipeline ==
    /\ mine' = 0
    /\ pipes' \in {pipes, {[p EXCEPT !.stop = @ \/ p.id = mine] : p \in pipes}}

\* (mutant) The key survives the logout.
LogoutKeepsKey ==
    /\ screen \in Main
    /\ file' = Bare("none")
    /\ GiveUpPipeline
    /\ token' = 0 /\ user' = 0
    /\ session' = NoSession /\ pending' = NoSession
    /\ screen' = "onboarding"
    /\ UNCHANGED <<noEncrypt, key, tasks, inbox, db, issued>>

\* do_logout; tasks under way go on, and so does messages.db.
Logout ==
    /\ screen \in Main
    /\ file' = Bare("none")
    /\ GiveUpPipeline
    /\ token' = 0 /\ user' = 0 /\ key' = 0
    /\ session' = NoSession /\ pending' = NoSession
    /\ screen' = "onboarding"
    /\ UNCHANGED <<noEncrypt, tasks, inbox, db, issued>>

\* clear_session fails and the rest of do_logout is skipped.
LogoutFails ==
    /\ screen \in Main
    /\ WriteFails(file) \/ (Faults # {} /\ file' = Bare("erased"))
    /\ UNCHANGED <<screen, noEncrypt, memory, tasks, inbox, running, db, issued>>

\* The logout command of the command line, with the client not running.
CommandLogout ==
    /\ screen = "startup"
    /\ file' = Bare("none")
    /\ UNCHANGED <<screen, noEncrypt, memory, tasks, inbox, running, db, issued>>

\* Where the process may stand in the middle of writing session.enc.
SaveDue ==
    \/ inbox # <<>> /\ Head1.save /\ CanSave
    \/ inbox # <<>> /\ Head1.kind = "refreshed" /\ session # NoSession /\ CanSave
    \/ screen = "passphrase" /\ pending # NoSession
    \/ \E i \in DOMAIN tasks : tasks[i].kind = "restore"

\* The user quits, or the process dies, perhaps while it writes.
Crash ==
    /\ screen # "startup"
    /\ screen' = "startup"
    /\ user' = 0 /\ token' = 0 /\ key' = 0
    /\ session' = NoSession /\ pending' = NoSession
    /\ tasks' = <<>> /\ inbox' = <<>> /\ pipes' = {} /\ mine' = 0
    /\ \/ UNCHANGED file
       \/ SaveDue /\ file' = Bare("torn")
       \/ screen \in Main /\ file' = Bare("erased")
    /\ UNCHANGED <<noEncrypt, db, issued>>

User == StartUp \/ ToLink \/ Enrol \/ Unlock \/ SetPassphrase \/ SubmitInvite
          \/ DismissError \/ Logout \/ LogoutFails \/ CommandLogout \/ Crash

Next ==
    \/ User \/ Handle \/ Unauthorised \/ PipeEnds
    \/ \E i \in DOMAIN tasks : Answer(i)

Spec == Init /\ [][Next]_vars

\* Every call of a task returns, the oldest task's at the latest when all
\* others have, and the UI loop reads its channel.
FairSpec ==
    /\ Spec
    /\ WF_vars(Handle)
    /\ WF_vars(tasks # <<>> /\ Answer(1))

-----------------------------------------------------------------------------
(* Properties *)

Damaged == file.kind \in {"torn", "erased"}

\* The key in memory is the one the session file is encrypted under, whatever
\* saves, refreshes and late answers came in between: the passphrase last
\* typed opens the file again, unless a write was cut short.
KeyOpensFile == key # 0 => Damaged \/ (file.kind = "enc" /\ file.key = key)

\* Whoever a login brought to the main screen can be logged in again after a
\* restart: the account of the screen, of the session in memory and of the
\* file agree, whichever late answers of earlier logins were handled on the
\* way, unless a write was cut short.  The main screen an invite puts up over
\* another one is no login: there may be no session behind it, in memory or on
\* disk, and all that holds is that the two in memory agree.
MainIsRestorable ==
    /\ screen \in Main => session.acct = user
    /\ screen = "main" =>
        Damaged \/ (file.kind \in {"enc", "plain"} /\ file.session.acct = user)

\* An attempt ends: the checklist and the connecting screen, which take no
\* keys, do not stay.
AttemptEnds ==
    screen \in {"connecting", "registering"}
        ~> screen \notin {"connecting", "registering"}

\* The orchestrator handle is "set after successful auth": on the main screen
\* it belongs to a pipeline of the account shown.
MainHasPipeline ==
    screen = "main" => \E p \in pipes : p.id = mine /\ p.acct = user

\* do_logout "stops background tasks": a client nobody is logged in to gets
\* no token while it shows the onboarding form.
LogoutSticks == [][screen = "onboarding" /\ user = 0 => token' \in {0, token}]_vars
=============================================================================
