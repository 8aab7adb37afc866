----------------------- MODULE AccountLifecycle_proofs -----------------------
(* Theorems about AccountLifecycle, for every number of accounts, tokens,   *)
(* keys and tasks, and every set of faults.                                 *)
EXTENDS AccountLifecycle, SequenceTheorems, TLAPS

-----------------------------------------------------------------------------
(* The inductive invariant *)

\* Nothing has happened yet when the start-up check runs.
StartsClean ==
    screen = "startup" =>
        /\ tasks = <<>> /\ inbox = <<>> /\ pipes = {}
        /\ key = 0 /\ pending = NoSession

\* While the task of the start-up check restores a plaintext session, nothing
\* else goes on.
RestoreAlone ==
    \A i \in DOMAIN tasks : tasks[i].kind = "restore" =>
        /\ screen = "connecting" /\ Len(tasks) = 1
        /\ inbox = <<>> /\ pipes = {}
        /\ key = 0 /\ pending = NoSession

\* Nor while its answer, the session it has saved, waits.
RestoredAlone ==
    \A i \in DOMAIN inbox : inbox[i].kind = "success" /\ ~inbox[i].save =>
        /\ screen = "connecting" /\ Len(inbox) = 1
        /\ tasks = <<>> /\ pipes = {}
        /\ key = 0 /\ pending = NoSession
        /\ file = Plain(inbox[i].session)

SameAccount == session.acct = user

\* A session waits for a passphrase only as long as nothing can be saved.
PendingUnsaved ==
    pending # NoSession => ~CanSave /\ pending.acct = user

UnlockClean == screen = "unlock" => pending = NoSession

Inv ==
    /\ TypeOK /\ StartsClean /\ RestoreAlone /\ RestoredAlone /\ SameAccount
    /\ PendingUnsaved /\ UnlockClean /\ KeyOpensFile /\ MainIsRestorable

-----------------------------------------------------------------------------
(* Queues *)

LEMMA AppendOne ==
    ASSUME NEW S, NEW s \in Seq(S), NEW e \in S
    PROVE  LET r == Append(s, e) IN
           /\ r \in Seq(S) /\ Len(r) = Len(s) + 1 /\ Len(s) \in Nat
           /\ \A j \in DOMAIN r : r[j] = e \/ \E k \in DOMAIN s : r[j] = s[k]
<1> DEFINE r == Append(s, e)
<1>1. /\ r \in Seq(S) /\ Len(r) = Len(s) + 1 /\ Len(s) \in Nat
      /\ \A i \in 1..Len(s) : r[i] = s[i]
      /\ r[Len(s) + 1] = e
  BY AppendProperties, LenProperties
<1>2. DOMAIN r = 1..(Len(s) + 1) /\ DOMAIN s = 1..Len(s)
  BY <1>1, LenProperties
<1> HIDE DEF r
<1>3. ASSUME NEW j \in DOMAIN r
      PROVE  r[j] = e \/ \E k \in DOMAIN s : r[j] = s[k]
  <2>1. j \in 1..Len(s) \/ j = Len(s) + 1
    BY <1>1, <1>2, <1>3
  <2> QED
    BY <1>1, <1>2, <2>1
<1> QED
  BY <1>1, <1>3 DEF r

LEMMA TakeOne ==
    ASSUME NEW S, NEW s \in Seq(S), s # <<>>
    PROVE  LET r == Tail(s) IN
           /\ Head(s) \in S /\ 1 \in DOMAIN s /\ s[1] = Head(s)
           /\ r \in Seq(S) /\ Len(r) = Len(s) - 1 /\ Len(s) \in Nat
           /\ \A j \in DOMAIN r : \E k \in DOMAIN s : r[j] = s[k]
<1> DEFINE r == Tail(s)
<1>1. /\ Head(s) \in S /\ Head(s) = s[1]
      /\ r \in Seq(S) /\ Len(r) = Len(s) - 1
      /\ \A i \in 1..Len(r) : r[i] = s[i + 1]
  BY HeadTailProperties
<1>2. Len(s) \in Nat /\ Len(s) > 0 /\ DOMAIN s = 1..Len(s)
  BY EmptySeq, LenProperties
<1>3. DOMAIN r = 1..(Len(s) - 1)
  BY <1>1, LenProperties
<1> HIDE DEF r
<1>4. ASSUME NEW j \in DOMAIN r
      PROVE  \E k \in DOMAIN s : r[j] = s[k]
  <2>1. j + 1 \in DOMAIN s /\ r[j] = s[j + 1]
    BY <1>1, <1>2, <1>3, <1>4
  <2> QED
    BY <2>1
<1>5. 1 \in DOMAIN s
  BY <1>2
<1> QED
  BY <1>1, <1>2, <1>4, <1>5 DEF r

LEMMA RemoveOne ==
    ASSUME NEW S, NEW s \in Seq(S), NEW i \in DOMAIN s
    PROVE  LET r == SubSeq(s, 1, i - 1) \o SubSeq(s, i + 1, Len(s)) IN
           /\ r \in Seq(S) /\ Len(r) = Len(s) - 1 /\ Len(s) \in Nat
           /\ \A j \in DOMAIN r : \E k \in DOMAIN s : r[j] = s[k]
<1> DEFINE a == SubSeq(s, 1, i - 1)
           b == SubSeq(s, i + 1, Len(s))
           r == a \o b
<1>1. Len(s) \in Nat /\ DOMAIN s = 1..Len(s) /\ i \in 1..Len(s)
  BY LenProperties
<1>2. \A k \in 1..Len(s) : s[k] \in S
  BY ElementOfSeq
<1>3. /\ a \in Seq(S) /\ Len(a) = i - 1
      /\ \A j \in 1..(i - 1) : a[j] = s[j]
  BY <1>1, <1>2, SubSeqProperties
<1>4. /\ b \in Seq(S) /\ Len(b) = Len(s) - i
      /\ \A j \in 1..(Len(s) - i) : b[j] = s[i + j]
  BY <1>1, <1>2, SubSeqProperties
<1> HIDE DEF a, b
<1>5. /\ r \in Seq(S) /\ Len(r) = Len(a) + Len(b)
      /\ \A j \in 1..(Len(a) + Len(b)) :
            r[j] = IF j <= Len(a) THEN a[j] ELSE b[j - Len(a)]
  BY <1>3, <1>4, ConcatProperties
<1>6. DOMAIN r = 1..(Len(s) - 1) /\ Len(r) = Len(s) - 1
  <2>1. Len(r) = Len(s) - 1
    BY <1>1, <1>3, <1>4, <1>5
  <2> QED
    BY <1>5, <2>1, LenProperties
<1> HIDE DEF r
<1>7. ASSUME NEW j \in DOMAIN r
      PROVE  \E k \in DOMAIN s : r[j] = s[k]
  <2>1. CASE j <= i - 1
    <3>1. j \in DOMAIN s /\ r[j] = s[j]
      BY <1>1, <1>3, <1>4, <1>5, <1>6, <1>7, <2>1
    <3> QED
      BY <3>1
  <2>2. CASE j > i - 1
    <3>1. j \in 1..(Len(s) - 1) /\ j - (i - 1) \in 1..(Len(s) - i)
      BY <1>1, <1>6, <1>7, <2>2
    <3>2. r[j] = b[j - (i - 1)]
      BY <1>1, <1>3, <1>4, <1>5, <3>1, <2>2
    <3>3. r[j] = s[i + (j - (i - 1))]
      BY <1>4, <3>1, <3>2
    <3>4. i + (j - (i - 1)) \in DOMAIN s
      BY <1>1, <3>1
    <3> QED
      BY <3>3, <3>4
  <2> QED
    BY <1>1, <1>6, <1>7, <2>1, <2>2
<1> QED
  BY <1>1, <1>5, <1>6, <1>7 DEF r, a, b

-----------------------------------------------------------------------------
(* Records *)

LEMMA SessionTypes ==
    /\ NoSession \in Sessions /\ NoSession.acct = 0 /\ NoSession.tok = 0
    /\ NoSession \notin RealSessions
    /\ \A s \in RealSessions : s \in Sessions /\ s.acct \in Accounts /\ s.tok \in Tokens
    /\ \A s \in Sessions : /\ s # NoSession => s \in RealSessions
                           /\ s.acct \in Accounts => s \in RealSessions
                           /\ s.acct \in 0..MaxAccounts /\ s.tok \in 0..MaxTokens
    /\ \A s \in RealSessions, n \in Tokens : [s EXCEPT !.tok = n] \in RealSessions
    /\ \A s \in RealSessions, n \in Tokens : [s EXCEPT !.tok = n].acct = s.acct
BY AccountAssumption DEF NoSession, Sessions, RealSessions, Accounts, Tokens

LEMMA TaskTypes ==
    /\ Task("register", NoSession) \in Tasks /\ Task("link", NoSession) \in Tasks
    /\ Task("invite", NoSession) \in Tasks
    /\ \A s \in RealSessions, k \in {"unlock", "reauth", "refresh"} : Task(k, s) \in Tasks
    /\ \A s \in Sessions : Task("restore", s) \in Tasks
    /\ \A k, s : Task(k, s).kind = k /\ Task(k, s).session = s
    /\ \A t \in Tasks :
          /\ t.session \in Sessions
          /\ t.kind \in {"unlock", "reauth", "refresh"} => t.session \in RealSessions
BY SessionTypes DEF Task, Tasks

LEMMA MsgTypes ==
    /\ \A s \in RealSessions, k \in {"success", "refreshed"}, b \in BOOLEAN :
          Msg(k, s, b) \in Msgs
    /\ \A k \in {"failure", "rejected", "unauthorised", "invited"} : Msg(k, NoSession, FALSE) \in Msgs
    /\ \A k, s, b : /\ Msg(k, s, b).kind = k /\ Msg(k, s, b).session = s
                    /\ Msg(k, s, b).save = b
    /\ \A m \in Msgs : m.kind \in {"success", "refreshed"} => m.session \in RealSessions
BY DEF Msg, Msgs

LEMMA FileTypes ==
    /\ \A k \in Keys, s \in RealSessions :
          /\ Enc(k, s) \in Files /\ Enc(k, s).kind = "enc"
          /\ Enc(k, s).key = k /\ Enc(k, s).session = s
    /\ \A s \in RealSessions :
          /\ Plain(s) \in Files /\ Plain(s).kind = "plain" /\ Plain(s).session = s
    /\ \A k \in {"none", "torn", "erased"} : Bare(k) \in Files /\ Bare(k).kind = k
    /\ \A f \in Files :
          /\ f.session \in Sessions
          /\ f.kind = "enc" => f.key \in Keys /\ f.session \in RealSessions
BY SessionTypes DEF Enc, Plain, Bare, Files

\* A new token pair of a known account.
LEMMA RenewedTypes ==
    ASSUME issued \in Seq(Accounts), NEW a \in Accounts, Issue(a)
    PROVE  /\ Renewed(a) \in RealSessions /\ Renewed(a).acct = a
           /\ issued' \in Seq(Accounts) /\ Len(issued') <= MaxTokens
<1>1. issued' \in Seq(Accounts) /\ Len(issued') = Len(issued) + 1 /\ Len(issued) \in Nat
  BY AppendOne DEF Issue
<1>2. Len(issued) + 1 \in Tokens
  BY <1>1, AccountAssumption DEF Issue, Tokens
<1> QED
  BY <1>1, <1>2, AccountAssumption DEF Renewed, RealSessions, Issue

LEMMA SavedTypes ==
    ASSUME NEW s \in RealSessions, key \in 0..MaxKeys
    PROVE  /\ Saved(s) \in Files /\ Saved(s).kind \in {"enc", "plain"}
           /\ Saved(s).session = s
           /\ key # 0 => Saved(s).kind = "enc" /\ Saved(s).key = key
<1>1. CASE key # 0
  <2>1. key \in Keys
    BY <1>1, AccountAssumption DEF Keys
  <2> QED
    BY <1>1, <2>1, FileTypes DEF Saved
<1>2. CASE key = 0
  BY <1>2, FileTypes DEF Saved
<1> QED
  BY <1>1, <1>2

\* Writing a session of account s.acct either works, and then the file can be
\* opened with the key in memory, or leaves the file alone or damaged.
LEMMA SaveTypes ==
    ASSUME NEW s \in RealSessions, key \in 0..MaxKeys, CanSave, Save(s)
    PROVE  /\ file' \in Files /\ file'.kind \in {"enc", "plain"} /\ file'.session = s
           /\ key # 0 => file'.kind = "enc" /\ file'.key = key
BY SavedTypes DEF Save

LEMMA WriteFailsTypes ==
    ASSUME file \in Files, NEW f \in Files, WriteFails(f)
    PROVE  file' \in Files /\ (file' = file \/ file'.kind = "torn" \/ file' = f)
BY FileTypes DEF WriteFails

-----------------------------------------------------------------------------
(* Steps of the queues *)

NoRestore  == \A i \in DOMAIN tasks : tasks[i].kind # "restore"
NoRestored ==
    \A i \in DOMAIN inbox : ~(inbox[i].kind = "success" /\ ~inbox[i].save)

\* Once neither the restore task nor its answer is there, they do not matter.
LEMMA QuietEnough ==
    ASSUME NoRestore, NoRestored, screen # "startup"
    PROVE  StartsClean /\ RestoreAlone /\ RestoredAlone
BY DEF NoRestore, NoRestored, StartsClean, RestoreAlone, RestoredAlone

LEMMA Quiet ==
    ASSUME Inv,
           \/ screen # "connecting"
           \/ pipes # {}
           \/ inbox # <<>> /\ ~(Head1.kind = "success" /\ ~Head1.save)
    PROVE  NoRestore /\ NoRestored
<1>1. inbox \in Seq(Msgs)
  BY DEF Inv, TypeOK
<1>2. NoRestore
  BY DEF Inv, RestoreAlone, NoRestore
<1>3. ASSUME NEW i \in DOMAIN inbox, inbox[i].kind = "success", ~inbox[i].save
      PROVE  FALSE
  <2>1. screen = "connecting" /\ Len(inbox) = 1 /\ pipes = {}
    BY <1>3 DEF Inv, RestoredAlone
  <2>2. i = 1
    BY <1>1, <1>3, <2>1, LenProperties
  <2>3. inbox # <<>>
    BY <2>1
  <2>4. Head1 = inbox[1]
    BY <1>1, <2>3, TakeOne DEF Head1
  <2> QED
    BY <1>3, <2>1, <2>2, <2>3, <2>4
<1> QED
  BY <1>2, <1>3 DEF NoRestored

LEMMA Spawned ==
    ASSUME tasks \in Seq(Tasks), NEW k, NEW s, Task(k, s) \in Tasks, Spawn(k, s)
    PROVE  /\ tasks' \in Seq(Tasks) /\ Len(tasks') = Len(tasks) + 1 /\ Len(tasks) \in Nat
           /\ NoRestore /\ k # "restore" => NoRestore'
<1>1. /\ tasks' \in Seq(Tasks) /\ Len(tasks') = Len(tasks) + 1 /\ Len(tasks) \in Nat
      /\ \A j \in DOMAIN tasks' : tasks'[j] = Task(k, s)
                                  \/ \E i \in DOMAIN tasks : tasks'[j] = tasks[i]
  BY AppendOne DEF Spawn
<1> QED
  BY <1>1, TaskTypes DEF NoRestore

LEMMA Sent ==
    ASSUME inbox \in Seq(Msgs), NEW m \in Msgs, Send(m)
    PROVE  /\ inbox' \in Seq(Msgs) /\ Len(inbox') = Len(inbox) + 1 /\ Len(inbox) \in Nat
           /\ NoRestored /\ ~(m.kind = "success" /\ ~m.save) => NoRestored'
<1>1. /\ inbox' \in Seq(Msgs) /\ Len(inbox') = Len(inbox) + 1 /\ Len(inbox) \in Nat
      /\ \A j \in DOMAIN inbox' : inbox'[j] = m
                                  \/ \E i \in DOMAIN inbox : inbox'[j] = inbox[i]
  BY AppendOne DEF Send
<1> QED
  BY <1>1 DEF NoRestored

LEMMA Taken ==
    ASSUME inbox \in Seq(Msgs), NEW k, Take(k)
    PROVE  /\ inbox # <<>> /\ Head1 \in Msgs /\ Head1.kind = k
           /\ 1 \in DOMAIN inbox /\ inbox[1] = Head1
           /\ inbox' \in Seq(Msgs) /\ Len(inbox') = Len(inbox) - 1 /\ Len(inbox) \in Nat
           /\ NoRestored => NoRestored'
<1>1. /\ inbox # <<>> /\ Head1.kind = k /\ inbox' = Tail(inbox)
      /\ Head1 \in Msgs /\ inbox[1] = Head1 /\ 1 \in DOMAIN inbox
      /\ inbox' \in Seq(Msgs) /\ Len(inbox') = Len(inbox) - 1 /\ Len(inbox) \in Nat
      /\ \A j \in DOMAIN inbox' : \E i \in DOMAIN inbox : inbox'[j] = inbox[i]
  BY TakeOne DEF Take, Head1
<1> QED
  BY <1>1 DEF NoRestored

LEMMA Finished ==
    ASSUME tasks \in Seq(Tasks), NEW i \in DOMAIN tasks, Finish(i)
    PROVE  /\ tasks' \in Seq(Tasks) /\ Len(tasks') = Len(tasks) - 1 /\ Len(tasks) \in Nat
           /\ tasks[i] \in Tasks
           /\ NoRestore => NoRestore'
           /\ Len(tasks) = 1 => tasks' = <<>>
<1>1. /\ tasks' \in Seq(Tasks) /\ Len(tasks') = Len(tasks) - 1 /\ Len(tasks) \in Nat
      /\ \A j \in DOMAIN tasks' : \E k \in DOMAIN tasks : tasks'[j] = tasks[k]
  BY RemoveOne DEF Finish
<1>2. NoRestore => NoRestore'
  BY <1>1 DEF NoRestore
<1>3. tasks[i] \in Tasks
  BY ElementOfSeq, LenProperties
<1>4. Len(tasks) = 1 => tasks' = <<>>
  <2>1. Len(tasks) = 1 => Len(tasks') = 0
    BY <1>1
  <2> QED
    BY <1>1, <2>1, EmptySeq
<1> QED
  BY <1>1, <1>2, <1>3, <1>4

-----------------------------------------------------------------------------
(* Steps of the user *)

LEMMA InitInv == Init => Inv
<1> SUFFICES ASSUME Init PROVE Inv
  OBVIOUS
<1>1. TypeOK
  <2>1. 1 \in Accounts /\ 1 \in Tokens /\ MaxTokens >= 1
    BY AccountAssumption DEF Accounts, Tokens
  <2>2. [acct |-> 1, tok |-> 1] \in RealSessions
    BY <2>1 DEF RealSessions
  <2>3. file \in Files
    <3>1. CASE file = Bare("none")
      BY <3>1, FileTypes
    <3>2. CASE file = Plain([acct |-> 1, tok |-> 1])
      BY <2>2, <3>2, FileTypes
    <3> QED
      BY <3>1, <3>2 DEF Init
  <2>4. issued \in Seq(Accounts) /\ Len(issued) <= MaxTokens
    <3>1. CASE issued = <<>>
      BY <2>1, <3>1, AccountAssumption, EmptySeq
    <3>2. CASE issued = <<1>>
      <4>1. <<1>> \in Seq(Accounts) /\ Len(<<1>>) = 1
        BY <2>1
      <4> QED
        BY <2>1, <3>2, <4>1
    <3> QED
      BY <3>1, <3>2 DEF Init
  <2>5. /\ tasks \in Seq(Tasks) /\ inbox \in Seq(Msgs)
        /\ Len(tasks) + Len(inbox) <= MaxWork
    BY AccountAssumption, EmptySeq DEF Init
  <2>6. /\ user \in 0..MaxAccounts /\ token \in 0..MaxTokens
        /\ key \in 0..MaxKeys /\ mine \in 0..MaxTokens
        /\ db \in {Absent} \cup 0..MaxKeys
    BY AccountAssumption DEF Init, Absent
  <2>7. /\ session \in Sessions /\ pending \in Sessions
        /\ screen \in Screens /\ noEncrypt \in BOOLEAN
        /\ pipes \subseteq [id : Tokens, acct : Accounts, stop : BOOLEAN]
    BY SessionTypes DEF Init, Screens
  <2> QED
    BY <2>3, <2>4, <2>5, <2>6, <2>7 DEF TypeOK
<1>2. NoRestore /\ NoRestored
  BY DEF Init, NoRestore, NoRestored
<1> QED
  BY <1>1, <1>2 DEF Inv, Init, StartsClean, RestoreAlone, RestoredAlone,
    NoRestore, NoRestored, SameAccount, PendingUnsaved, UnlockClean,
    KeyOpensFile, MainIsRestorable, Main, NoSession

\* What the start-up check and the screens of the login decide about tasks.
LEMMA StartUpInv == Inv /\ StartUp => Inv'
<1> SUFFICES ASSUME Inv, StartUp PROVE Inv'
  OBVIOUS
<1> USE DEF StartUp, memory, running, disk
<1>1. /\ TypeOK /\ tasks = <<>> /\ inbox = <<>> /\ pipes = {}
      /\ key = 0 /\ pending = NoSession
  BY DEF Inv, StartsClean
<1>2. /\ tasks' = <<>> \/ /\ file.kind \in {"plain", "torn"} /\ Spare
                          /\ screen' = "connecting"
                          /\ Spawn("restore", file.session)
  BY <1>1
<1>3. /\ tasks' \in Seq(Tasks) /\ Len(tasks') <= 1
      /\ Len(tasks') + Len(inbox') <= MaxWork
      /\ tasks' # <<>> => Len(tasks') = 1 /\ screen' = "connecting"
  <2>1. CASE tasks' = <<>>
    BY <1>1, <2>1, AccountAssumption, EmptySeq
  <2>2. CASE Spare /\ screen' = "connecting" /\ Spawn("restore", file.session)
    <3>1. file.session \in Sessions
      BY <1>1, FileTypes DEF TypeOK
    <3>2. tasks' \in Seq(Tasks) /\ Len(tasks') = Len(tasks) + 1
      BY <1>1, <2>2, <3>1, Spawned, TaskTypes DEF TypeOK
    <3>3. Len(tasks) = 0 /\ Len(inbox') = 0
      BY <1>1
    <3> QED
      BY <1>1, <2>2, <3>2, <3>3, AccountAssumption DEF Spare
  <2> QED
    BY <1>2, <2>1, <2>2
<1>4. TypeOK'
  BY <1>1, <1>3 DEF TypeOK, Screens
<1>5. StartsClean' /\ RestoreAlone' /\ RestoredAlone'
  <2>1. screen' # "startup" /\ inbox' = <<>>
    BY <1>1
  <2>2. ASSUME NEW i \in DOMAIN tasks'
        PROVE  Len(tasks') = 1 /\ screen' = "connecting"
    <3>1. tasks' # <<>>
      BY <2>2
    <3> QED
      BY <1>3, <3>1
  <2> QED
    BY <1>1, <2>1, <2>2 DEF StartsClean, RestoreAlone, RestoredAlone
<1> QED
  BY <1>1, <1>4, <1>5 DEF Inv, SameAccount, PendingUnsaved, CanSave, UnlockClean,
    KeyOpensFile, MainIsRestorable, Main, Damaged

LEMMA ToLinkInv == Inv /\ ToLink => Inv'
<1> SUFFICES ASSUME Inv, ToLink PROVE Inv'
  OBVIOUS
<1> USE DEF ToLink, memory, running, disk
<1>1. NoRestore /\ NoRestored
  BY Quiet
<1>2. NoRestore' /\ NoRestored'
  BY <1>1 DEF NoRestore, NoRestored
<1>3. StartsClean' /\ RestoreAlone' /\ RestoredAlone'
  BY <1>2 DEF NoRestore, NoRestored, StartsClean, RestoreAlone, RestoredAlone
<1> QED
  BY <1>3 DEF Inv, TypeOK, Screens, Main, SameAccount, PendingUnsaved, CanSave,
    UnlockClean, KeyOpensFile, MainIsRestorable, Main, Damaged

LEMMA EnrolInv == Inv /\ Enrol => Inv'
<1> SUFFICES ASSUME Inv, Enrol PROVE Inv'
  OBVIOUS
<1> USE DEF Enrol, memory, running, disk
<1>1. NoRestore /\ NoRestored /\ tasks \in Seq(Tasks) /\ Len(inbox) \in Nat
  BY Quiet, LenProperties DEF Inv, TypeOK
<1>2. /\ tasks' \in Seq(Tasks) /\ Len(tasks') = Len(tasks) + 1
      /\ Len(tasks) \in Nat /\ NoRestore'
  BY <1>1, Spawned, TaskTypes
<1>3. NoRestored'
  BY <1>1 DEF NoRestored
<1>4. StartsClean' /\ RestoreAlone' /\ RestoredAlone'
  BY <1>2, <1>3 DEF NoRestore, NoRestored, StartsClean, RestoreAlone, RestoredAlone
<1>5. Len(tasks') + Len(inbox') <= MaxWork
  BY <1>1, <1>2, AccountAssumption DEF Spare
<1> QED
  BY <1>2, <1>4, <1>5 DEF Inv, TypeOK, Screens, Main, SameAccount, PendingUnsaved, CanSave,
    UnlockClean, KeyOpensFile, MainIsRestorable, Main, Damaged

LEMMA UnlockInv == Inv /\ Unlock => Inv'
<1> SUFFICES ASSUME Inv, Unlock PROVE Inv'
  OBVIOUS
<1> USE DEF Unlock, running, disk
<1>1. /\ NoRestore /\ NoRestored /\ tasks \in Seq(Tasks) /\ Len(inbox) \in Nat
      /\ file \in Files /\ file.kind = "enc" /\ pending = NoSession
  BY Quiet, LenProperties DEF Inv, TypeOK, UnlockClean
<1>2. /\ tasks' \in Seq(Tasks) /\ Len(tasks') = Len(tasks) + 1
      /\ Len(tasks) \in Nat /\ NoRestore'
  <2>1. Task("unlock", file.session) \in Tasks
    BY <1>1, FileTypes, TaskTypes
  <2> QED
    BY <1>1, <2>1, Spawned
<1>3. NoRestored'
  BY <1>1 DEF NoRestored
<1>4. StartsClean' /\ RestoreAlone' /\ RestoredAlone'
  BY <1>2, <1>3 DEF NoRestore, NoRestored, StartsClean, RestoreAlone, RestoredAlone
<1>5. Len(tasks') + Len(inbox') <= MaxWork
  BY <1>1, <1>2, AccountAssumption DEF Spare
<1>6. key' \in 0..MaxKeys
  BY <1>1, FileTypes, AccountAssumption DEF Keys
<1> QED
  BY <1>1, <1>2, <1>4, <1>5, <1>6 DEF Inv, TypeOK, Screens, Main, SameAccount,
    PendingUnsaved, UnlockClean, KeyOpensFile, MainIsRestorable, Main, Damaged

LEMMA SubmitInviteInv == Inv /\ SubmitInvite => Inv'
<1> SUFFICES ASSUME Inv, SubmitInvite PROVE Inv'
  OBVIOUS
<1> USE DEF SubmitInvite, memory, running, disk
<1>1. /\ NoRestore /\ NoRestored /\ tasks \in Seq(Tasks) /\ Len(inbox) \in Nat
      /\ screen # "startup"
  BY Quiet, LenProperties DEF Inv, TypeOK, Main
<1>2. /\ tasks' \in Seq(Tasks) /\ Len(tasks') = Len(tasks) + 1
      /\ Len(tasks) \in Nat /\ NoRestore'
  BY <1>1, Spawned, TaskTypes
<1>3. NoRestored'
  BY <1>1 DEF NoRestored
<1>4. StartsClean' /\ RestoreAlone' /\ RestoredAlone'
  BY <1>1, <1>2, <1>3 DEF NoRestore, NoRestored, StartsClean, RestoreAlone, RestoredAlone
<1>5. Len(tasks') + Len(inbox') <= MaxWork
  BY <1>1, <1>2, AccountAssumption DEF Spare
<1> QED
  BY <1>2, <1>4, <1>5 DEF Inv, TypeOK, SameAccount, PendingUnsaved, CanSave,
    UnlockClean, KeyOpensFile, MainIsRestorable, Main, Damaged

LEMMA DismissErrorInv == Inv /\ DismissError => Inv'
<1> SUFFICES ASSUME Inv, DismissError PROVE Inv'
  OBVIOUS
<1> USE DEF DismissError, memory, running, disk
<1>1. NoRestore /\ NoRestored
  BY Quiet
<1>2. NoRestore' /\ NoRestored'
  BY <1>1 DEF NoRestore, NoRestored
<1>3. StartsClean' /\ RestoreAlone' /\ RestoredAlone'
  BY <1>2 DEF NoRestore, NoRestored, StartsClean, RestoreAlone, RestoredAlone
<1> QED
  BY <1>3 DEF Inv, TypeOK, Screens, Main, SameAccount, PendingUnsaved, CanSave,
    UnlockClean, KeyOpensFile, MainIsRestorable, Main, Damaged

\* start_orchestrator changes nothing but the database, the pipelines and the
\* handles.
LEMMA PipelineTypes ==
    ASSUME TypeOK, NEW s \in RealSessions, NEW k \in 0..MaxKeys, StartPipeline(s, k)
    PROVE  /\ db' \in {Absent} \cup 0..MaxKeys
           /\ pipes' \subseteq [id : Tokens, acct : Accounts, stop : BOOLEAN]
           /\ mine' \in 0..MaxTokens
<1>1. s.tok \in Tokens /\ s.acct \in Accounts /\ s.tok \in 0..MaxTokens
  BY SessionTypes, AccountAssumption DEF Tokens
<1>2. CASE UNCHANGED <<db, running>>
  BY <1>2 DEF TypeOK, running
<1>3. CASE /\ db' = k /\ mine' = s.tok
           /\ pipes' = pipes \cup {[id |-> s.tok, acct |-> s.acct, stop |-> FALSE]}
  <2>1. [id |-> s.tok, acct |-> s.acct, stop |-> FALSE]
          \in [id : Tokens, acct : Accounts, stop : BOOLEAN]
    BY <1>1
  <2> QED
    BY <1>1, <1>3, <2>1 DEF TypeOK
<1> QED
  BY <1>2, <1>3 DEF StartPipeline

LEMMA SetPassphraseInv == Inv /\ SetPassphrase => Inv'
<1> SUFFICES ASSUME Inv, SetPassphrase PROVE Inv'
  OBVIOUS
<1>1. NoRestore /\ NoRestored
  BY Quiet DEF SetPassphrase
<1>2. NoRestore' /\ NoRestored' /\ screen' # "startup"
  BY <1>1 DEF NoRestore, NoRestored, SetPassphrase
<1>3. StartsClean' /\ RestoreAlone' /\ RestoredAlone'
  BY <1>2 DEF NoRestore, NoRestored, StartsClean, RestoreAlone, RestoredAlone
<1>4. /\ pending \in RealSessions /\ pending.acct = user /\ session.acct = user
      /\ session \in RealSessions
  BY SessionTypes DEF Inv, TypeOK, SetPassphrase, PendingUnsaved, SameAccount
<1> PICK q \in Keys :
        \/ /\ key' = q /\ file' = Enc(q, pending) /\ pending' = NoSession
           /\ StartPipeline(session, q) /\ screen' = "main"
        \/ /\ WriteFails(Enc(q, pending))
           /\ UNCHANGED <<screen, key, pending, db, running>>
  BY DEF SetPassphrase
<1>5. CASE \E k \in Keys :
               /\ key' = k /\ file' = Enc(k, pending) /\ pending' = NoSession
               /\ StartPipeline(session, k) /\ screen' = "main"
  <2>1. PICK k \in Keys :
               /\ key' = k /\ file' = Enc(k, pending) /\ pending' = NoSession
               /\ StartPipeline(session, k) /\ screen' = "main"
    BY <1>5
  <2>2. k \in 0..MaxKeys
    BY AccountAssumption DEF Keys
  <2>3. /\ db' \in {Absent} \cup 0..MaxKeys
        /\ pipes' \subseteq [id : Tokens, acct : Accounts, stop : BOOLEAN]
        /\ mine' \in 0..MaxTokens
    BY <1>4, <2>1, <2>2, PipelineTypes DEF Inv
  <2>4. /\ file' \in Files /\ file'.kind = "enc" /\ file'.key = k
        /\ file'.session = pending
    BY <1>4, <2>1, FileTypes
  <2>5. TypeOK'
    <3>1. /\ UNCHANGED <<noEncrypt, user, token, session, tasks, inbox, issued>>
          /\ screen' \in Screens
      BY <2>1 DEF SetPassphrase, Screens, Main
    <3> QED
      BY <2>1, <2>2, <2>3, <2>4, <3>1, SessionTypes DEF Inv, TypeOK
  <2> QED
    BY <1>3, <1>4, <2>1, <2>4, <2>5 DEF Inv, SetPassphrase, SameAccount,
      PendingUnsaved, UnlockClean, KeyOpensFile, MainIsRestorable, Main, Damaged
<1>6. CASE /\ WriteFails(Enc(q, pending))
           /\ UNCHANGED <<screen, key, pending, db, running>>
  <2>1. Enc(q, pending) \in Files
    BY <1>4, FileTypes
  <2>2. file' \in Files
    BY <1>6, <2>1, WriteFailsTypes DEF Inv, TypeOK
  <2>3. key = 0
    BY DEF Inv, PendingUnsaved, SetPassphrase, CanSave
  <2> QED
    BY <1>3, <1>6, <2>2, <2>3 DEF Inv, TypeOK, SetPassphrase, running, SameAccount,
      PendingUnsaved, CanSave, UnlockClean, KeyOpensFile, MainIsRestorable, Main, Damaged
<1> QED
  BY <1>5, <1>6

LEMMA GiveUpTypes ==
    ASSUME TypeOK, GiveUpPipeline
    PROVE  /\ mine' \in 0..MaxTokens
           /\ pipes' \subseteq [id : Tokens, acct : Accounts, stop : BOOLEAN]
<1>1. mine' \in 0..MaxTokens
  BY AccountAssumption DEF GiveUpPipeline
<1>2. ASSUME NEW p \in pipes
      PROVE  [p EXCEPT !.stop = @ \/ p.id = mine]
               \in [id : Tokens, acct : Accounts, stop : BOOLEAN]
  BY <1>2 DEF TypeOK
<1> QED
  BY <1>1, <1>2 DEF GiveUpPipeline, TypeOK

LEMMA LogoutInv == Inv /\ Logout => Inv'
<1> SUFFICES ASSUME Inv, Logout PROVE Inv'
  OBVIOUS
<1>1. NoRestore /\ NoRestored
  BY Quiet DEF Logout, Main
<1>2. NoRestore' /\ NoRestored' /\ screen' # "startup"
  BY <1>1 DEF NoRestore, NoRestored, Logout
<1>3. StartsClean' /\ RestoreAlone' /\ RestoredAlone'
  BY <1>2 DEF NoRestore, NoRestored, StartsClean, RestoreAlone, RestoredAlone
<1>4. /\ mine' \in 0..MaxTokens
      /\ pipes' \subseteq [id : Tokens, acct : Accounts, stop : BOOLEAN]
  BY GiveUpTypes DEF Inv, Logout
<1>5. TypeOK'
  BY <1>4, FileTypes, SessionTypes, AccountAssumption DEF Inv, TypeOK, Logout, Screens, Main
<1> QED
  BY <1>3, <1>5, SessionTypes DEF Inv, Logout, SameAccount, PendingUnsaved,
    UnlockClean, KeyOpensFile, MainIsRestorable, Main

LEMMA LogoutFailsInv == Inv /\ LogoutFails => Inv'
<1> SUFFICES ASSUME Inv, LogoutFails PROVE Inv'
  OBVIOUS
<1> USE DEF LogoutFails, Main, memory, running
<1>1. NoRestore /\ NoRestored
  BY Quiet
<1>2. NoRestore' /\ NoRestored'
  BY <1>1 DEF NoRestore, NoRestored
<1>3. StartsClean' /\ RestoreAlone' /\ RestoredAlone'
  BY <1>2 DEF NoRestore, NoRestored, StartsClean, RestoreAlone, RestoredAlone
<1>4. file' \in Files /\ (file' = file \/ file'.kind \in {"torn", "erased"})
  <2>1. file \in Files
    BY DEF Inv, TypeOK
  <2> QED
    BY <2>1, WriteFailsTypes, FileTypes
<1> QED
  BY <1>3, <1>4 DEF Inv, TypeOK, SameAccount, PendingUnsaved, CanSave,
    UnlockClean, KeyOpensFile, MainIsRestorable, Main, Damaged

LEMMA CommandLogoutInv == Inv /\ CommandLogout => Inv'
<1> SUFFICES ASSUME Inv, CommandLogout PROVE Inv'
  OBVIOUS
<1> USE DEF CommandLogout, memory, running
<1>1. tasks = <<>> /\ inbox = <<>> /\ key = 0
  BY DEF Inv, StartsClean
<1>2. StartsClean' /\ RestoreAlone' /\ RestoredAlone'
  BY <1>1 DEF Inv, StartsClean, RestoreAlone, RestoredAlone
<1> QED
  BY <1>1, <1>2, FileTypes DEF Inv, TypeOK, SameAccount, PendingUnsaved, CanSave,
    UnlockClean, KeyOpensFile, MainIsRestorable, Main

LEMMA CrashInv == Inv /\ Crash => Inv'
<1> SUFFICES ASSUME Inv, Crash PROVE Inv'
  OBVIOUS
<1>1. file' \in Files
  BY FileTypes DEF Inv, TypeOK, Crash
<1>2. /\ tasks' \in Seq(Tasks) /\ inbox' \in Seq(Msgs)
      /\ Len(tasks') + Len(inbox') <= MaxWork
  BY AccountAssumption, EmptySeq DEF Crash
<1>3. TypeOK'
  <2>1. UNCHANGED <<noEncrypt, db, issued>> /\ screen' \in Screens
    BY DEF Crash, Screens
  <2>2. /\ user' \in 0..MaxAccounts /\ token' \in 0..MaxTokens
        /\ key' \in 0..MaxKeys /\ mine' \in 0..MaxTokens
        /\ session' \in Sessions /\ pending' \in Sessions /\ pipes' = {}
    BY SessionTypes, AccountAssumption DEF Crash
  <2> QED
    BY <1>1, <1>2, <2>1, <2>2 DEF Inv, TypeOK
<1>4. StartsClean' /\ RestoreAlone' /\ RestoredAlone'
  BY DEF Crash, StartsClean, RestoreAlone, RestoredAlone
<1> QED
  BY <1>3, <1>4, SessionTypes DEF Inv, Crash, SameAccount, PendingUnsaved,
    UnlockClean, KeyOpensFile, MainIsRestorable, Main

-----------------------------------------------------------------------------
(* Steps of the pipelines *)

LEMMA UnauthorisedInv == Inv /\ Unauthorised => Inv'
<1> SUFFICES ASSUME Inv, Unauthorised PROVE Inv'
  OBVIOUS
<1> USE DEF Unauthorised, memory, running, disk
<1>1. NoRestore /\ NoRestored /\ inbox \in Seq(Msgs) /\ Len(tasks) \in Nat
  BY Quiet, LenProperties DEF Inv, TypeOK
<1>2. /\ inbox' \in Seq(Msgs) /\ Len(inbox') = Len(inbox) + 1
      /\ Len(inbox) \in Nat /\ NoRestored'
  <2> DEFINE m == Msg("unauthorised", NoSession, FALSE)
  <2>1. m \in Msgs /\ m.kind = "unauthorised" /\ Send(m)
    BY MsgTypes
  <2> HIDE DEF m
  <2> QED
    BY <1>1, <2>1, Sent
<1>3. NoRestore' /\ screen # "startup"
  BY <1>1 DEF NoRestore, Inv, StartsClean
<1>4. StartsClean' /\ RestoreAlone' /\ RestoredAlone'
  BY <1>2, <1>3 DEF NoRestore, NoRestored, StartsClean, RestoreAlone, RestoredAlone
<1>5. Len(tasks') + Len(inbox') <= MaxWork
  BY <1>1, <1>2, AccountAssumption DEF Spare
<1> QED
  BY <1>2, <1>4, <1>5 DEF Inv, TypeOK, SameAccount, PendingUnsaved, CanSave,
    UnlockClean, KeyOpensFile, MainIsRestorable, Main, Damaged

LEMMA PipeEndsInv == Inv /\ PipeEnds => Inv'
BY DEF PipeEnds, memory, disk, Inv, TypeOK, StartsClean, RestoreAlone, RestoredAlone,
   SameAccount, PendingUnsaved, CanSave, UnlockClean, KeyOpensFile, MainIsRestorable, Main,
   Damaged

-----------------------------------------------------------------------------
(* Steps of the UI loop that take an answer *)

\* What a success brings: an account, and one more refresh to come.
LEMMA SuccessTaken ==
    ASSUME Inv, Take("success"), Head1.save, Adopt(Head1.session),
           Spawn("refresh", Head1.session), screen' # "startup"
    PROVE  /\ Head1.session \in RealSessions
           /\ user' \in 0..MaxAccounts /\ token' \in 0..MaxTokens
           /\ session' \in Sessions /\ session'.acct = user'
           /\ tasks' \in Seq(Tasks) /\ inbox' \in Seq(Msgs)
           /\ Len(tasks') + Len(inbox') <= MaxWork
           /\ StartsClean' /\ RestoreAlone' /\ RestoredAlone'
<1>1. inbox \in Seq(Msgs) /\ tasks \in Seq(Tasks) /\ Len(tasks) + Len(inbox) <= MaxWork
  BY DEF Inv, TypeOK
<1>2. /\ inbox # <<>> /\ Head1 \in Msgs /\ Head1.kind = "success"
      /\ inbox' \in Seq(Msgs) /\ Len(inbox') = Len(inbox) - 1 /\ Len(inbox) \in Nat
      /\ NoRestored => NoRestored'
  BY <1>1, Taken
<1>3. NoRestore /\ NoRestored
  BY <1>2, Quiet
<1>4. Head1.session \in RealSessions
  BY <1>2, MsgTypes
<1>5. /\ tasks' \in Seq(Tasks) /\ Len(tasks') = Len(tasks) + 1 /\ Len(tasks) \in Nat
      /\ NoRestore'
  <2>1. Task("refresh", Head1.session) \in Tasks
    BY <1>4, TaskTypes
  <2> QED
    BY <1>1, <1>3, <2>1, Spawned
<1>6. StartsClean' /\ RestoreAlone' /\ RestoredAlone'
  BY <1>2, <1>3, <1>5 DEF NoRestore, NoRestored, StartsClean, RestoreAlone, RestoredAlone
<1>7. Len(tasks') + Len(inbox') <= MaxWork
  BY <1>1, <1>2, <1>5, AccountAssumption
<1>8. /\ user' \in 0..MaxAccounts /\ token' \in 0..MaxTokens
      /\ session' \in Sessions /\ session'.acct = user'
  BY <1>4, SessionTypes DEF Adopt
<1> QED
  BY <1>2, <1>4, <1>5, <1>6, <1>7, <1>8

LEMMA SuccessSavedInv == Inv /\ SuccessSaved => Inv'
<1> SUFFICES ASSUME Inv, SuccessSaved PROVE Inv'
  OBVIOUS
<1> DEFINE s == Head1.session
<1>1. /\ Take("success") /\ Head1.save /\ CanSave /\ Adopt(s) /\ Spawn("refresh", s)
      /\ UNCHANGED <<noEncrypt, pending, key, issued>>
      /\ \/ Save(s) /\ StartPipeline(s, key) /\ screen' = "main"
         \/ WriteFails(Saved(s)) /\ screen' = "error" /\ UNCHANGED <<db, running>>
  BY DEF SuccessSaved
<1>2. /\ s \in RealSessions
      /\ user' \in 0..MaxAccounts /\ token' \in 0..MaxTokens
      /\ session' \in Sessions /\ session'.acct = user'
      /\ tasks' \in Seq(Tasks) /\ inbox' \in Seq(Msgs)
      /\ Len(tasks') + Len(inbox') <= MaxWork
      /\ StartsClean' /\ RestoreAlone' /\ RestoredAlone'
  BY <1>1, SuccessTaken
<1>3. s.acct = user'
  BY <1>1 DEF Adopt
<1>4. key \in 0..MaxKeys /\ file \in Files /\ pending = NoSession
  BY <1>1 DEF Inv, TypeOK, PendingUnsaved
<1> HIDE DEF s
<1>5. CASE Save(s) /\ StartPipeline(s, key) /\ screen' = "main"
  <2>1. /\ file' \in Files /\ file'.kind \in {"enc", "plain"} /\ file'.session = s
        /\ key # 0 => file'.kind = "enc" /\ file'.key = key
    BY <1>1, <1>2, <1>4, <1>5, SaveTypes
  <2>2. /\ db' \in {Absent} \cup 0..MaxKeys
        /\ pipes' \subseteq [id : Tokens, acct : Accounts, stop : BOOLEAN]
        /\ mine' \in 0..MaxTokens
    BY <1>2, <1>4, <1>5, PipelineTypes DEF Inv
  <2>3. TypeOK'
    BY <1>1, <1>2, <1>5, <2>1, <2>2 DEF Inv, TypeOK, Screens, Main
  <2> QED
    BY <1>1, <1>2, <1>3, <1>4, <1>5, <2>1, <2>3 DEF Inv, SameAccount, PendingUnsaved,
      UnlockClean, KeyOpensFile, MainIsRestorable, Main, Damaged
<1>6. CASE WriteFails(Saved(s)) /\ screen' = "error" /\ UNCHANGED <<db, running>>
  <2>1. /\ file' \in Files
        /\ \/ file' = file
           \/ file'.kind = "torn"
           \/ key # 0 => file'.kind = "enc" /\ file'.key = key
    BY <1>2, <1>4, <1>6, SavedTypes, WriteFailsTypes
  <2>2. TypeOK'
    BY <1>1, <1>2, <1>6, <2>1 DEF Inv, TypeOK, Screens, Main, running
  <2> QED
    BY <1>1, <1>2, <1>4, <1>6, <2>1, <2>2 DEF Inv, SameAccount, PendingUnsaved,
      UnlockClean, KeyOpensFile, MainIsRestorable, Main, Damaged
<1> QED
  BY <1>1, <1>5, <1>6

LEMMA SuccessUnprotectedInv == Inv /\ SuccessUnprotected => Inv'
<1> SUFFICES ASSUME Inv, SuccessUnprotected PROVE Inv'
  OBVIOUS
<1> DEFINE s == Head1.session
<1>1. /\ Take("success") /\ Head1.save /\ ~CanSave /\ Adopt(s) /\ Spawn("refresh", s)
      /\ pending' = s /\ screen' = "passphrase"
      /\ UNCHANGED <<noEncrypt, key, running, disk, issued>>
  BY DEF SuccessUnprotected
<1>2. /\ s \in RealSessions
      /\ user' \in 0..MaxAccounts /\ token' \in 0..MaxTokens
      /\ session' \in Sessions /\ session'.acct = user'
      /\ tasks' \in Seq(Tasks) /\ inbox' \in Seq(Msgs)
      /\ Len(tasks') + Len(inbox') <= MaxWork
      /\ StartsClean' /\ RestoreAlone' /\ RestoredAlone'
  BY <1>1, SuccessTaken
<1>3. s.acct = user' /\ s \in Sessions
  BY <1>1, <1>2, SessionTypes DEF Adopt
<1> HIDE DEF s
<1>4. TypeOK'
  BY <1>1, <1>2, <1>3 DEF Inv, TypeOK, Screens, Main, running, disk
<1> QED
  BY <1>1, <1>2, <1>3, <1>4 DEF Inv, disk, SameAccount, PendingUnsaved, CanSave,
    UnlockClean, KeyOpensFile, MainIsRestorable, Main, Damaged

LEMMA SuccessRestoredInv == Inv /\ SuccessRestored => Inv'
<1> SUFFICES ASSUME Inv, SuccessRestored PROVE Inv'
  OBVIOUS
<1> DEFINE s == Head1.session
<1>1. /\ Take("success") /\ ~Head1.save /\ Adopt(s)
      /\ StartPipeline(s, key) /\ screen' = "main"
      /\ UNCHANGED <<noEncrypt, pending, key, tasks, file, issued>>
  BY DEF SuccessRestored
<1>2. inbox \in Seq(Msgs) /\ tasks \in Seq(Tasks) /\ Len(tasks) + Len(inbox) <= MaxWork
  BY DEF Inv, TypeOK
<1>3. /\ Head1 \in Msgs /\ Head1.kind = "success"
      /\ 1 \in DOMAIN inbox /\ inbox[1] = Head1
      /\ inbox' \in Seq(Msgs) /\ Len(inbox') = Len(inbox) - 1 /\ Len(inbox) \in Nat
  BY <1>1, <1>2, Taken
<1>4. /\ Len(inbox) = 1 /\ tasks = <<>> /\ key = 0 /\ pending = NoSession
      /\ file = Plain(s)
  BY <1>1, <1>3 DEF Inv, RestoredAlone
<1>5. s \in RealSessions /\ s \in Sessions
  BY <1>3, MsgTypes, SessionTypes
<1>6. inbox' = <<>> /\ tasks' = <<>>
  BY <1>1, <1>3, <1>4, EmptySeq
<1>7. /\ user' \in 0..MaxAccounts /\ token' \in 0..MaxTokens
      /\ session' \in Sessions /\ session'.acct = user' /\ s.acct = user'
  BY <1>1, <1>5, SessionTypes DEF Adopt
<1> HIDE DEF s
<1>8. /\ db' \in {Absent} \cup 0..MaxKeys
      /\ pipes' \subseteq [id : Tokens, acct : Accounts, stop : BOOLEAN]
      /\ mine' \in 0..MaxTokens
  <2>1. key \in 0..MaxKeys
    BY DEF Inv, TypeOK
  <2> QED
    BY <1>1, <1>5, <2>1, PipelineTypes DEF Inv
<1>9. Len(tasks') + Len(inbox') <= MaxWork
  BY <1>6, AccountAssumption
<1>10. TypeOK'
  BY <1>1, <1>2, <1>3, <1>7, <1>8, <1>9 DEF Inv, TypeOK, Screens, Main
<1>11. StartsClean' /\ RestoreAlone' /\ RestoredAlone'
  BY <1>1, <1>6 DEF StartsClean, RestoreAlone, RestoredAlone
<1>12. file'.kind = "plain" /\ file'.session = s
  BY <1>1, <1>4, <1>5, FileTypes
<1> QED
  BY <1>1, <1>4, <1>7, <1>10, <1>11, <1>12 DEF Inv, SameAccount, PendingUnsaved,
    UnlockClean, KeyOpensFile, MainIsRestorable, Main, Damaged

\* Every other answer finds no restore under way.
LEMMA OtherTaken ==
    ASSUME Inv, NEW kind, Take(kind), kind # "success"
    PROVE  /\ NoRestore /\ NoRestored' /\ screen # "startup"
           /\ Head1 \in Msgs /\ Head1.kind = kind
           /\ inbox' \in Seq(Msgs) /\ Len(inbox') = Len(inbox) - 1
           /\ Len(inbox) \in Nat /\ Len(tasks) \in Nat
           /\ tasks \in Seq(Tasks) /\ Len(tasks) + Len(inbox) <= MaxWork
<1>1. inbox \in Seq(Msgs) /\ tasks \in Seq(Tasks) /\ Len(tasks) + Len(inbox) <= MaxWork
  BY DEF Inv, TypeOK
<1>2. /\ inbox # <<>> /\ Head1 \in Msgs /\ Head1.kind = kind
      /\ inbox' \in Seq(Msgs) /\ Len(inbox') = Len(inbox) - 1 /\ Len(inbox) \in Nat
      /\ NoRestored => NoRestored'
  BY <1>1, Taken
<1>3. NoRestore /\ NoRestored
  BY <1>2, Quiet
<1>4. screen # "startup"
  BY <1>2 DEF Inv, StartsClean
<1> QED
  BY <1>1, <1>2, <1>3, <1>4, LenProperties

LEMMA FailureInv == Inv /\ Failure => Inv'
<1> SUFFICES ASSUME Inv, Failure PROVE Inv'
  OBVIOUS
<1> USE DEF Failure, memory, running, disk
<1>1. /\ NoRestore /\ NoRestored' /\ inbox' \in Seq(Msgs)
      /\ Len(inbox') = Len(inbox) - 1 /\ Len(inbox) \in Nat /\ Len(tasks) \in Nat
      /\ Len(tasks) + Len(inbox) <= MaxWork
  BY OtherTaken
<1>2. NoRestore'
  BY <1>1 DEF NoRestore
<1>3. StartsClean' /\ RestoreAlone' /\ RestoredAlone'
  BY <1>1, <1>2 DEF NoRestore, NoRestored, StartsClean, RestoreAlone, RestoredAlone
<1>4. Len(tasks') + Len(inbox') <= MaxWork
  BY <1>1, AccountAssumption
<1> QED
  BY <1>1, <1>3, <1>4 DEF Inv, TypeOK, Screens, Main, SameAccount, PendingUnsaved, CanSave,
    UnlockClean, KeyOpensFile, MainIsRestorable, Main, Damaged

LEMMA InviteAcceptedInv == Inv /\ InviteAccepted => Inv'
<1> SUFFICES ASSUME Inv, InviteAccepted PROVE Inv'
  OBVIOUS
<1> USE DEF InviteAccepted, memory, running, disk
<1>1. /\ NoRestore /\ NoRestored' /\ inbox' \in Seq(Msgs)
      /\ Len(inbox') = Len(inbox) - 1 /\ Len(inbox) \in Nat /\ Len(tasks) \in Nat
      /\ Len(tasks) + Len(inbox) <= MaxWork
  BY OtherTaken
<1>2. NoRestore'
  BY <1>1 DEF NoRestore
<1>3. StartsClean' /\ RestoreAlone' /\ RestoredAlone'
  BY <1>1, <1>2 DEF NoRestore, NoRestored, StartsClean, RestoreAlone, RestoredAlone
<1>4. Len(tasks') + Len(inbox') <= MaxWork
  BY <1>1, AccountAssumption
<1> QED
  BY <1>1, <1>3, <1>4 DEF Inv, TypeOK, Screens, Main, SameAccount, PendingUnsaved, CanSave,
    UnlockClean, KeyOpensFile, MainIsRestorable, Main, Damaged

LEMMA RefreshedInv == Inv /\ Refreshed => Inv'
<1> SUFFICES ASSUME Inv, Refreshed PROVE Inv'
  OBVIOUS
<1>1. /\ NoRestore /\ NoRestored' /\ screen # "startup" /\ inbox' \in Seq(Msgs)
      /\ Head1 \in Msgs /\ Head1.kind = "refreshed"
      /\ Len(inbox') = Len(inbox) - 1 /\ Len(inbox) \in Nat /\ Len(tasks) \in Nat
      /\ tasks \in Seq(Tasks) /\ Len(tasks) + Len(inbox) <= MaxWork
  BY OtherTaken DEF Refreshed
<1>2. token' \in Tokens /\ token' \in 0..MaxTokens
  <2>1. Head1.session \in RealSessions
    BY <1>1, MsgTypes
  <2> QED
    BY <2>1, SessionTypes DEF Refreshed
<1>3. CASE session = NoSession /\ UNCHANGED <<session, tasks, file>>
  <2>1. NoRestore'
    BY <1>1, <1>3 DEF NoRestore
  <2>2. StartsClean' /\ RestoreAlone' /\ RestoredAlone'
    BY <1>1, <2>1 DEF Refreshed, NoRestore, NoRestored, StartsClean, RestoreAlone,
      RestoredAlone
  <2>3. Len(tasks') + Len(inbox') <= MaxWork
    BY <1>1, <1>3, AccountAssumption
  <2> QED
    BY <1>1, <1>2, <1>3, <2>2, <2>3 DEF Refreshed, running, Inv, TypeOK, SameAccount,
      PendingUnsaved, CanSave, UnlockClean, KeyOpensFile, MainIsRestorable, Main, Damaged
<1>4. CASE session # NoSession
  <2> DEFINE s == [session EXCEPT !.tok = token']
  <2>1. session' = s /\ Spawn("refresh", s) /\ SaveIfPossible(s)
    BY <1>4 DEF Refreshed
  <2>2. s \in RealSessions /\ s \in Sessions /\ s.acct = user
    <3>1. session \in RealSessions /\ session.acct = user
      BY <1>4, SessionTypes DEF Inv, TypeOK, SameAccount
    <3>2. s \in RealSessions /\ s.acct = session.acct
      BY <1>2, <3>1, SessionTypes
    <3> QED
      BY <3>1, <3>2, SessionTypes
  <2> HIDE DEF s
  <2>3. /\ tasks' \in Seq(Tasks) /\ Len(tasks') = Len(tasks) + 1 /\ NoRestore'
    <3>1. Task("refresh", s) \in Tasks
      BY <2>2, TaskTypes
    <3> QED
      BY <1>1, <2>1, <3>1, Spawned
  <2>4. StartsClean' /\ RestoreAlone' /\ RestoredAlone'
    BY <1>1, <2>3 DEF Refreshed, NoRestore, NoRestored, StartsClean, RestoreAlone,
      RestoredAlone
  <2>5. Len(tasks') + Len(inbox') <= MaxWork
    BY <1>1, <2>3, AccountAssumption
  <2>6. /\ file' \in Files
        /\ \/ file' = file
           \/ file'.kind = "torn"
           \/ /\ file'.kind \in {"enc", "plain"} /\ file'.session = s
              /\ key # 0 => file'.kind = "enc" /\ file'.key = key
    <3>1. key \in 0..MaxKeys /\ file \in Files
      BY DEF Inv, TypeOK
    <3> QED
      BY <2>1, <2>2, <3>1, SaveTypes, SavedTypes, WriteFailsTypes DEF SaveIfPossible
  <2>7. TypeOK'
    BY <1>1, <1>2, <2>1, <2>2, <2>3, <2>5, <2>6 DEF Refreshed, running, Inv, TypeOK
  <2> QED
    BY <2>1, <2>2, <2>4, <2>6, <2>7 DEF Refreshed, Inv, SameAccount, PendingUnsaved,
      CanSave, UnlockClean, KeyOpensFile, MainIsRestorable, Main, Damaged
<1> QED
  BY <1>3, <1>4 DEF Refreshed

LEMMA RetryInv ==
    ASSUME Inv, NEW kind, kind # "success", NEW task \in {"reauth", "refresh"},
           Retry(kind, task)
    PROVE  Inv'
<1> USE DEF Retry, memory, running, disk
<1>1. /\ NoRestore /\ NoRestored' /\ screen # "startup" /\ inbox' \in Seq(Msgs)
      /\ Len(inbox') = Len(inbox) - 1 /\ Len(inbox) \in Nat /\ Len(tasks) \in Nat
      /\ tasks \in Seq(Tasks) /\ Len(tasks) + Len(inbox) <= MaxWork
  BY OtherTaken
<1>2. /\ tasks' \in Seq(Tasks) /\ NoRestore'
      /\ Len(tasks') = Len(tasks) \/ Len(tasks') = Len(tasks) + 1
  <2>1. CASE session # NoSession /\ Spawn(task, session)
    <3>1. Task(task, session) \in Tasks
      BY <2>1, SessionTypes, TaskTypes DEF Inv, TypeOK
    <3> QED
      BY <1>1, <2>1, <3>1, Spawned
  <2>2. CASE UNCHANGED tasks
    BY <1>1, <2>2 DEF NoRestore
  <2> QED
    BY <2>1, <2>2
<1>3. StartsClean' /\ RestoreAlone' /\ RestoredAlone'
  BY <1>1, <1>2 DEF NoRestore, NoRestored, StartsClean, RestoreAlone, RestoredAlone
<1>4. Len(tasks') + Len(inbox') <= MaxWork
  BY <1>1, <1>2, AccountAssumption
<1> QED
  BY <1>1, <1>2, <1>3, <1>4 DEF Inv, TypeOK, SameAccount, PendingUnsaved, CanSave,
    UnlockClean, KeyOpensFile, MainIsRestorable, Main, Damaged

LEMMA HandleInv == Inv /\ Handle => Inv'
<1> SUFFICES ASSUME Inv, Handle PROVE Inv'
  OBVIOUS
<1>1. CASE SuccessSaved \/ SuccessUnprotected \/ SuccessRestored
  BY <1>1, SuccessSavedInv, SuccessUnprotectedInv, SuccessRestoredInv
<1>2. CASE Failure \/ Refreshed \/ InviteAccepted
  BY <1>2, FailureInv, RefreshedInv, InviteAcceptedInv
<1>3. CASE Rejected
  BY <1>3, RetryInv DEF Rejected
<1>4. CASE Refused
  BY <1>4, RetryInv DEF Refused
<1> QED
  BY <1>1, <1>2, <1>3, <1>4 DEF Handle

-----------------------------------------------------------------------------
(* Steps of the tasks *)

\* Any task but the restore sends at most one answer, and no restored session.
LEMMA OrdinaryAnswer ==
    ASSUME Inv, NEW i \in DOMAIN tasks, tasks[i].kind # "restore",
           Finish(i),
           \/ UNCHANGED inbox
           \/ \E m \in Msgs : Send(m) /\ ~(m.kind = "success" /\ ~m.save),
           issued' \in Seq(Accounts) /\ Len(issued') <= MaxTokens,
           UNCHANGED <<screen, noEncrypt, memory, running, disk>>
    PROVE  Inv'
<1>1. /\ tasks \in Seq(Tasks) /\ inbox \in Seq(Msgs)
      /\ Len(tasks) + Len(inbox) <= MaxWork /\ Len(inbox) \in Nat
  BY LenProperties DEF Inv, TypeOK
<1>2. tasks # <<>>
  OBVIOUS
<1>3. NoRestore /\ NoRestored /\ screen # "startup"
  <2>1. ASSUME NEW k \in DOMAIN tasks, tasks[k].kind = "restore" PROVE FALSE
    <3>1. Len(tasks) = 1
      BY <2>1 DEF Inv, RestoreAlone
    <3>2. k = i
      BY <1>1, <2>1, <3>1, LenProperties
    <3> QED
      BY <2>1, <3>2
  <2> QED
    BY <1>2, <2>1 DEF Inv, RestoredAlone, StartsClean, NoRestore, NoRestored
<1>4. /\ tasks' \in Seq(Tasks) /\ Len(tasks') = Len(tasks) - 1
      /\ Len(tasks) \in Nat /\ NoRestore'
  BY <1>1, <1>3, Finished
<1>5. /\ inbox' \in Seq(Msgs) /\ NoRestored'
      /\ Len(inbox') = Len(inbox) \/ Len(inbox') = Len(inbox) + 1
  <2>1. CASE UNCHANGED inbox
    BY <1>1, <1>3, <2>1 DEF NoRestored
  <2>2. CASE \E m \in Msgs : Send(m) /\ ~(m.kind = "success" /\ ~m.save)
    BY <1>1, <1>3, <2>2, Sent
  <2> QED
    BY <2>1, <2>2
<1>6. StartsClean' /\ RestoreAlone' /\ RestoredAlone'
  BY <1>3, <1>4, <1>5 DEF NoRestore, NoRestored, StartsClean, RestoreAlone, RestoredAlone
<1>7. Len(tasks') + Len(inbox') <= MaxWork
  BY <1>1, <1>4, <1>5, AccountAssumption
<1> QED
  BY <1>4, <1>5, <1>6, <1>7 DEF memory, running, disk, Inv, TypeOK, SameAccount,
    PendingUnsaved, CanSave, UnlockClean, KeyOpensFile, MainIsRestorable, Main, Damaged

\* The restore task, alone, saves the file and answers, or fails.
LEMMA RestoreAnswer ==
    ASSUME Inv, NEW i \in DOMAIN tasks, tasks[i].kind = "restore",
           Restored(i) \/ Failed(i), Finish(i),
           issued' \in Seq(Accounts) /\ Len(issued') <= MaxTokens,
           UNCHANGED <<screen, noEncrypt, memory, running, db>>
    PROVE  Inv'
<1> DEFINE s == tasks[i].session
<1>1. /\ screen = "connecting" /\ Len(tasks) = 1 /\ inbox = <<>> /\ pipes = {}
      /\ key = 0 /\ pending = NoSession
      /\ tasks \in Seq(Tasks) /\ file \in Files /\ issued \in Seq(Accounts)
  BY DEF Inv, RestoreAlone, TypeOK
<1>2. tasks' = <<>> /\ tasks[i] \in Tasks
  BY <1>1, Finished
<1>3. s \in Sessions
  BY <1>2, TaskTypes
<1>4. MaxWork >= 1
  <2>1. Len(tasks) + Len(inbox) <= MaxWork /\ Len(inbox) = 0
    BY <1>1 DEF Inv, TypeOK
  <2> QED
    BY <1>1, <2>1, AccountAssumption
<1>5. \E m \in Msgs :
          /\ Send(m) /\ file' \in Files
          /\ m.kind = "success" => file' = Plain(m.session)
  <2>1. CASE Restored(i)
    <3> DEFINE n == Renewed(s.acct)
    <3>1. s # NoSession /\ Issue(s.acct) /\ file' = Plain(n)
          /\ Send(Msg("success", n, FALSE))
      BY <2>1 DEF Restored
    <3>2. s.acct \in Accounts
      BY <1>3, <3>1, SessionTypes
    <3>3. n \in RealSessions
      BY <1>1, <3>1, <3>2, RenewedTypes
    <3> HIDE DEF n
    <3>4. Msg("success", n, FALSE) \in Msgs
      <4>1. FALSE \in BOOLEAN /\ "success" \in {"success", "refreshed"}
        OBVIOUS
      <4> QED
        BY <3>3, <4>1, MsgTypes, Zenon
    <3>5. Msg("success", n, FALSE).session = n
      BY DEF Msg
    <3> QED
      BY <3>1, <3>3, <3>4, <3>5, FileTypes
  <2>2. CASE Failed(i)
    <3> DEFINE m == Msg("failure", NoSession, FALSE)
    <3>1. /\ Send(m)
          /\ \/ file' = file
             \/ s # NoSession /\ Issue(s.acct) /\ WriteFails(Plain(Renewed(s.acct)))
      BY <2>2 DEF Failed
    <3>2. m \in Msgs /\ m.kind = "failure"
      BY MsgTypes
    <3> HIDE DEF m
    <3>3. ASSUME s # NoSession, Issue(s.acct), WriteFails(Plain(Renewed(s.acct)))
          PROVE  file' \in Files
      <4> DEFINE n == Renewed(s.acct)
      <4>1. s.acct \in Accounts
        BY <1>3, <3>3, SessionTypes
      <4>2. n \in RealSessions
        BY <1>1, <3>3, <4>1, RenewedTypes
      <4> HIDE DEF n
      <4>3. Plain(n) \in Files
        BY <4>2, FileTypes
      <4>4. WriteFails(Plain(n))
        BY <3>3 DEF n
      <4> QED
        BY <1>1, <4>3, <4>4, WriteFailsTypes
    <3> QED
      BY <1>1, <3>1, <3>2, <3>3
  <2> QED
    BY <2>1, <2>2
<1>6. PICK m \in Msgs :
          /\ Send(m) /\ file' \in Files
          /\ m.kind = "success" => file' = Plain(m.session)
  BY <1>5
<1>7. /\ inbox' \in Seq(Msgs) /\ Len(inbox') = 1
      /\ \A j \in DOMAIN inbox' : inbox'[j] = m
  <2>1. inbox \in Seq(Msgs) /\ Len(inbox) = 0
    BY <1>1, EmptySeq
  <2>2. /\ inbox' \in Seq(Msgs) /\ Len(inbox') = 1
        /\ \A j \in DOMAIN inbox' : inbox'[j] = m \/ \E k \in DOMAIN inbox : inbox'[j] = inbox[k]
    BY <1>6, <2>1, AppendOne DEF Send
  <2> QED
    BY <1>1, <2>2
<1>8. Len(tasks') + Len(inbox') <= MaxWork /\ tasks' \in Seq(Tasks)
  <2>1. Len(tasks') = 0
    BY <1>2
  <2> QED
    BY <1>2, <1>4, <1>7, <2>1, AccountAssumption
<1>9. StartsClean' /\ RestoreAlone' /\ RestoredAlone'
  BY <1>1, <1>2, <1>6, <1>7 DEF memory, running, StartsClean, RestoreAlone, RestoredAlone
<1>10. TypeOK'
  BY <1>6, <1>7, <1>8 DEF memory, running, Inv, TypeOK
<1> QED
  BY <1>1, <1>9, <1>10 DEF memory, Inv, SameAccount, PendingUnsaved, UnlockClean,
    KeyOpensFile, MainIsRestorable, Main

LEMMA AnswerInv == ASSUME Inv, NEW i \in DOMAIN tasks, Answer(i) PROVE Inv'
<1>1. /\ \/ Enrolled(i) \/ Authenticated(i) \/ Restored(i) \/ Failed(i) \/ Refresh(i)
         \/ Redeemed(i)
      /\ Finish(i)
      /\ UNCHANGED <<screen, noEncrypt, memory, running, db>>
  BY DEF Answer
<1>2. /\ tasks \in Seq(Tasks) /\ issued \in Seq(Accounts) /\ Len(issued) <= MaxTokens
  BY DEF Inv, TypeOK
<1> DEFINE s == tasks[i].session
<1>3. tasks[i] \in Tasks
  BY <1>1, <1>2, Finished
<1>4. s \in Sessions /\ (tasks[i].kind \in {"unlock", "reauth", "refresh"} => s \in RealSessions)
  BY <1>3, TaskTypes
<1>5. CASE Enrolled(i)
  <2> DEFINE n == Renewed(Newcomer)
  <2>1. /\ tasks[i].kind # "restore" /\ Newcomer \in Accounts /\ Issue(Newcomer)
        /\ Send(Msg("success", n, TRUE)) /\ UNCHANGED file
    BY <1>5 DEF Enrolled
  <2>2. n \in RealSessions /\ issued' \in Seq(Accounts) /\ Len(issued') <= MaxTokens
    BY <1>2, <2>1, RenewedTypes
  <2> HIDE DEF n
  <2>3. Msg("success", n, TRUE) \in Msgs /\ Msg("success", n, TRUE).save = TRUE
    BY <2>2, MsgTypes
  <2> QED
    BY <1>1, <2>1, <2>2, <2>3, OrdinaryAnswer DEF disk
<1>6. CASE Authenticated(i)
  <2> DEFINE n == Renewed(s.acct)
  <2>1. /\ tasks[i].kind \in {"unlock", "reauth"} /\ Issue(s.acct)
        /\ Send(Msg("success", n, TRUE)) /\ UNCHANGED file
    BY <1>6 DEF Authenticated
  <2>2. s.acct \in Accounts
    BY <1>4, <2>1, SessionTypes
  <2>3. n \in RealSessions /\ issued' \in Seq(Accounts) /\ Len(issued') <= MaxTokens
    BY <1>2, <2>1, <2>2, RenewedTypes
  <2> HIDE DEF n
  <2>4. Msg("success", n, TRUE) \in Msgs /\ Msg("success", n, TRUE).save = TRUE
    BY <2>3, MsgTypes
  <2> QED
    BY <1>1, <2>1, <2>3, <2>4, OrdinaryAnswer DEF disk
<1>7. CASE Restored(i)
  <2>1. s # NoSession /\ Issue(s.acct) /\ tasks[i].kind = "restore"
    BY <1>7 DEF Restored
  <2>2. s.acct \in Accounts
    BY <1>4, <2>1, SessionTypes
  <2>3. issued' \in Seq(Accounts) /\ Len(issued') <= MaxTokens
    BY <1>2, <2>1, <2>2, RenewedTypes
  <2> QED
    BY <1>1, <1>7, <2>1, <2>3, RestoreAnswer
<1>8. CASE Failed(i)
  <2>1. issued' \in Seq(Accounts) /\ Len(issued') <= MaxTokens
    <3>1. UNCHANGED issued \/ (s # NoSession /\ Issue(s.acct))
      BY <1>8 DEF Failed
    <3>2. s # NoSession => s.acct \in Accounts
      BY <1>4, SessionTypes
    <3> QED
      BY <1>2, <3>1, <3>2, RenewedTypes
  <2>2. CASE tasks[i].kind = "restore"
    BY <1>1, <1>8, <2>1, <2>2, RestoreAnswer
  <2>3. CASE tasks[i].kind # "restore"
    <3> DEFINE m == Msg("failure", NoSession, FALSE)
    <3>1. m \in Msgs /\ m.kind = "failure" /\ Send(m) /\ UNCHANGED file
      BY <1>8, <2>3, MsgTypes DEF Failed
    <3> HIDE DEF m
    <3> QED
      BY <1>1, <2>1, <2>3, <3>1, OrdinaryAnswer DEF disk
  <2> QED
    BY <2>2, <2>3
<1>9. CASE Refresh(i)
  <2>1. tasks[i].kind = "refresh" /\ UNCHANGED file
    BY <1>9 DEF Refresh
  <2>2. s.acct \in Accounts
    BY <1>4, <2>1, SessionTypes
  <2>3. CASE Issue(s.acct) /\ Send(Msg("refreshed", Renewed(s.acct), FALSE))
    <3> DEFINE m == Msg("refreshed", Renewed(s.acct), FALSE)
    <3>1. /\ Renewed(s.acct) \in RealSessions
          /\ issued' \in Seq(Accounts) /\ Len(issued') <= MaxTokens
      BY <1>2, <2>2, <2>3, RenewedTypes
    <3>2. m \in Msgs /\ m.kind = "refreshed" /\ Send(m)
      BY <2>3, <3>1, MsgTypes
    <3> HIDE DEF m
    <3> QED
      BY <1>1, <2>1, <3>1, <3>2, OrdinaryAnswer DEF disk
  <2>4. CASE Send(Msg("rejected", NoSession, FALSE)) /\ UNCHANGED issued
    <3> DEFINE m == Msg("rejected", NoSession, FALSE)
    <3>1. m \in Msgs /\ m.kind = "rejected" /\ Send(m)
      BY <2>4, MsgTypes
    <3> HIDE DEF m
    <3> QED
      BY <1>1, <1>2, <2>1, <2>4, <3>1, OrdinaryAnswer DEF disk
  <2>5. CASE UNCHANGED <<inbox, issued>>
    BY <1>1, <1>2, <2>1, <2>5, OrdinaryAnswer DEF disk
  <2> QED
    BY <1>9, <2>3, <2>4, <2>5 DEF Refresh
<1>10. CASE Redeemed(i)
  <2> DEFINE m == Msg("invited", NoSession, FALSE)
  <2>1. /\ tasks[i].kind = "invite" /\ UNCHANGED <<file, issued>>
        /\ Send(m) \/ UNCHANGED inbox
    BY <1>10 DEF Redeemed
  <2>2. m \in Msgs /\ m.kind = "invited"
    BY MsgTypes
  <2> HIDE DEF m
  <2> QED
    BY <1>1, <1>2, <2>1, <2>2, OrdinaryAnswer DEF disk
<1> QED
  BY <1>1, <1>5, <1>6, <1>7, <1>8, <1>9, <1>10

-----------------------------------------------------------------------------
(* Theorems *)

LEMMA InvStep == Inv /\ [Next]_vars => Inv'
<1> SUFFICES ASSUME Inv, [Next]_vars PROVE Inv'
  OBVIOUS
<1>1. CASE User
  BY <1>1, StartUpInv, ToLinkInv, EnrolInv, UnlockInv, SetPassphraseInv,
    SubmitInviteInv, DismissErrorInv, LogoutInv, LogoutFailsInv, CommandLogoutInv, CrashInv
  DEF User
<1>2. CASE Handle
  BY <1>2, HandleInv
<1>3. CASE Unauthorised \/ PipeEnds
  BY <1>3, UnauthorisedInv, PipeEndsInv
<1>4. CASE \E i \in DOMAIN tasks : Answer(i)
  BY <1>4, AnswerInv
<1>5. CASE UNCHANGED vars
  BY <1>5 DEF vars, Inv, TypeOK, StartsClean, RestoreAlone, RestoredAlone, SameAccount,
    PendingUnsaved, CanSave, UnlockClean, KeyOpensFile, MainIsRestorable, Main, Damaged
<1> QED
  BY <1>1, <1>2, <1>3, <1>4, <1>5 DEF Next

\* The inductive invariant: besides what follows from it below, that the
\* restore of a plaintext session runs alone, and that a session waits for a
\* passphrase only while there is no key (app.rs, startup_check,
\* handle_auth_msg, handle_set_passphrase).
THEOREM AccountInvariant == Spec => []Inv
<1> QED
  BY InitInv, InvStep, PTL DEF Spec

\* Types, the bound on the tasks, and that every session, token and key the
\* client holds is one the server or a passphrase gave it.
THEOREM AccountTypeCorrect == Spec => []TypeOK
<1>1. Inv => TypeOK
  BY DEF Inv
<1> QED
  BY <1>1, AccountInvariant, PTL

\* The key in memory (session_key) opens session.enc, unless a write was cut
\* short: neither a late answer nor a refresh saves under another key.
THEOREM AccountKeyOpensFile == Spec => []KeyOpensFile
<1>1. Inv => KeyOpensFile
  BY DEF Inv
<1> QED
  BY <1>1, AccountInvariant, PTL

\* The main screen a login leads to shows the account in session.enc, unless
\* a write was cut short, whichever answers handle_auth_msg took on the way;
\* and no main screen, one put up by the answer to an invite included
\* (finish_add_contact), shows another account than the session in memory.
THEOREM AccountMainIsRestorable == Spec => []MainIsRestorable
<1>1. Inv => MainIsRestorable
  BY DEF Inv
<1> QED
  BY <1>1, AccountInvariant, PTL
=============================================================================
