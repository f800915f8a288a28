----------------------------- MODULE OfflineSync -----------------------------
(***************************************************************************)
(* A field device working offline: its persisted outbox, the drain loop,   *)
(* the bounded automatic retries and the human decisions on conflicts      *)
(* (src/frontend/hooks/use-mjengo.ts, src/frontend/lib/outbox.ts), over    *)
(* the server of SyncServer.                                               *)
(*                                                                         *)
(* JavaScript runs a handler up to its fetch without interruption: what a  *)
(* handler does before the fetch and what it does with the answer are one  *)
(* action each.  The answer may never come, and the page may be reloaded   *)
(* while a request is out.                                                 *)
(***************************************************************************)
EXTENDS SyncServer

CONSTANT MaxAttempts  \* AUTO_RETRY_MAX_ATTEMPTS

ASSUME DeviceAssumption == MaxAttempts \in Nat

VARIABLES
  online,             \* the store's flag
  syncing,            \* the store's flag: a drain or a forced re-apply is out
  armed,              \* the single auto-retry timer is set
  outbox,             \* the live queue, oldest first
  item,               \* per action: what the device knows of it
  booting             \* the app waits for a session before drainAfterAuth

deviceVars == <<online, syncing, armed, outbox, item, booting>>
vars == <<serverVars, deviceVars>>

Live     == {"pending", "syncing", "failed", "conflict"}
Statuses == Live \cup {"new", "calling", "closed", "synced"}

NewItem == [status |-> "new",       \* OutboxItem.syncStatus, or not queued
            auth   |-> FALSE,       \* authBlocked
            tries  |-> 0,           \* autoAttempts
            retry  |-> "none",      \* nextAttemptAt: unset, ahead or passed
            kept   |-> {}]          \* the resolutions recorded in the history

Init ==
  /\ ServerInit
  /\ online \in BOOLEAN
  /\ syncing = FALSE
  /\ armed = FALSE
  /\ outbox = <<>>
  /\ item = [a \in Actions |-> NewItem]
  /\ booting = FALSE

TypeOK ==
  /\ ServerTypeOK
  /\ {online, syncing, armed, booting} \subseteq BOOLEAN
  /\ outbox \in Seq(Actions)
  /\ item \in [Actions -> [status : Statuses, auth : BOOLEAN,
                           tries : 0..MaxAttempts,
                           retry : {"none", "waiting", "due"},
                           kept : SUBSET {"server", "mine"}]]
  /\ \A a \in Actions :
       item[a].status \in Live <=> \E i \in DOMAIN outbox : outbox[i] = a

-----------------------------------------------------------------------------
(* Helpers *)

Idle == {c \in Calls : call[c].via = "idle"}

\* Every item of it with one status gets another.
WithStatus(it, from, to) ==
  [a \in Actions |-> IF it[a].status = from THEN [it[a] EXCEPT !.status = to] ELSE it[a]]

\* The items of a queue that are in a set, in their order.
KeptOf(queue, keep) ==
  LET kept[n \in 0..Len(queue)] ==
        IF n = 0 THEN <<>>
        ELSE IF queue[n] \in keep THEN Append(kept[n - 1], queue[n]) ELSE kept[n - 1]
  IN  kept[Len(queue)]

WithoutItem(queue, a) == KeptOf(queue, Actions \ {a})
Pending(it, queue) == KeptOf(queue, {a \in Actions : it[a].status = "pending"})

\* arm(): the timer is set when a failed item has a schedule.
Scheduled(i) == i.status = "failed" /\ ~i.auth /\ i.retry # "none"
Arm(it) == \E a \in Actions : Scheduled(it[a])

\* requeueDue(): failed items whose time has come are pending again.
Due(i) == Scheduled(i) /\ i.retry = "due"
Requeued(i) == [i EXCEPT !.status = "pending", !.retry = "none"]
RequeueDue(it) == [a \in Actions |-> IF Due(it[a]) THEN Requeued(it[a]) ELSE it[a]]

\* Fault: automatic attempts are not counted.
RescheduledForever(i) == [i EXCEPT !.status = "failed", !.tries = @ + 1, !.retry = "waiting"]

\* withAutoRetrySchedule
Rescheduled(i) ==
  IF i.tries < MaxAttempts
  THEN [i EXCEPT !.status = "failed", !.tries = @ + 1, !.retry = "waiting"]
  ELSE [i EXCEPT !.status = "failed"]

\* Fault: a drain starts next to the one that is out.
SyncNowUnlocked(it) ==
  LET batch == Pending(it, outbox) IN
  IF batch = <<>>
  THEN item' = it /\ UNCHANGED <<call, syncing>>
  ELSE \E c \in Idle :
         /\ call' = [call EXCEPT ![c] = Request("sync", batch)]
         /\ item' = WithStatus(it, "pending", "syncing")
         /\ syncing' = TRUE

\* syncNow up to its fetch, on the outbox a caller has just rewritten to it.
SyncNow(it) ==
  LET batch == Pending(it, outbox) IN
  IF syncing \/ batch = <<>>
  THEN item' = it /\ UNCHANGED <<call, syncing>>
  ELSE \E c \in Idle :
         /\ call' = [call EXCEPT ![c] = Request("sync", batch)]
         /\ item' = WithStatus(it, "pending", "syncing")
         /\ syncing' = TRUE

\* The device hears nothing more of a request.
Unheard(c) == call' = [call EXCEPT ![c] = Unlistened(@)]
Close(c)   == call' = [call EXCEPT ![c] = NoCall]

Answered(c, via) ==
  /\ call[c].via = via
  /\ call[c].heard
  /\ call[c].at \in {"answer", "unauthorized", "refused"}

-----------------------------------------------------------------------------
(* dispatch *)

\* Queue an action under a fresh id, on top of what the device last loaded:
\* any version the task has had.
Enqueue(a) ==
  /\ item' = [item EXCEPT ![a].status = "pending"]
  /\ outbox' = Append(outbox, a)
  /\ \E v \in 1..task.version :
       base' = [base EXCEPT ![a] = IF Kind[a] = "field" THEN v ELSE 0]

DispatchOffline(a) ==
  /\ item[a].status = "new"
  /\ ~online
  /\ Enqueue(a)
  /\ UNCHANGED <<serverRows, session, call, online, syncing, armed, booting, breaks>>

DispatchOnline(a) ==
  /\ item[a].status = "new"
  /\ online
  /\ \E c \in Idle : call' = [call EXCEPT ![c] = Request("actions", <<a>>)]
  /\ item' = [item EXCEPT ![a].status = "calling"]
  /\ UNCHANGED <<serverRows, base, session, online, syncing, armed, outbox, booting, breaks>>

\* The server answered: applied or refused, the user was told.
DispatchAnswered(c) ==
  /\ Answered(c, "actions")
  /\ item' = [item EXCEPT ![Head(call[c].batch)].status = "closed"]
  /\ Close(c)
  /\ UNCHANGED <<serverRows, base, session, online, syncing, armed, outbox, booting, breaks>>

\* The fetch failed, before or after the server did its work: queue it.
DispatchFailed(c) ==
  /\ call[c].via = "actions"
  /\ call[c].heard
  /\ Enqueue(Head(call[c].batch))
  /\ Unheard(c)
  /\ UNCHANGED <<serverRows, session, online, syncing, armed, booting, breaks>>

-----------------------------------------------------------------------------
(* syncNow after its fetch *)

\* Fault: an item the server refused leaves the queue like one it applied.
AfterDrainDropping(c, a) ==
  IF call[c].at = "answer" /\ item[a].status \in Live
       /\ call[c].result[a] \in {"ok", "failed"}
  THEN [item[a] EXCEPT !.status = "synced"]
  ELSE item[a]

\* What one item of the drain becomes.
AfterDrain(c, a) ==
  LET i == item[a]
      r == call[c].result[a] IN
  CASE call[c].at = "unauthorized" /\ i.status = "syncing" ->
         [i EXCEPT !.status = "failed", !.auth = TRUE]
    [] call[c].at = "refused" /\ i.status = "syncing" -> Rescheduled(i)
    [] call[c].at = "answer" /\ i.status \in Live /\ r = "ok" ->
         [i EXCEPT !.status = "synced"]
    [] call[c].at = "answer" /\ i.status \in Live /\ r = "conflict" ->
         [i EXCEPT !.status = "conflict"]
    [] call[c].at = "answer" /\ i.status \in Live /\ r = "failed" -> Rescheduled(i)
    [] OTHER -> i

\* Fault: a batch refused as a whole leaves the flag up.
DrainAnsweredLocking(c) ==
  /\ Answered(c, "sync")
  /\ item' = [a \in Actions |-> AfterDrain(c, a)]
  /\ outbox' = KeptOf(outbox, {a \in Actions : item'[a].status # "synced"})
  /\ syncing' = (call[c].at = "refused")
  /\ armed' = Arm(item')
  /\ Close(c)
  /\ UNCHANGED <<serverRows, base, session, online, booting, breaks>>

DrainAnswered(c) ==
  /\ Answered(c, "sync")
  /\ item' = [a \in Actions |-> AfterDrain(c, a)]
  /\ outbox' = KeptOf(outbox, {a \in Actions : item'[a].status # "synced"})
  /\ syncing' = FALSE
  /\ armed' = Arm(item')
  /\ Close(c)
  /\ UNCHANGED <<serverRows, base, session, online, booting, breaks>>

\* The network failed: every item that is "syncing" is queued again.
DrainFailed(c) ==
  /\ call[c].via = "sync"
  /\ call[c].heard
  /\ item' = WithStatus(item, "syncing", "pending")
  /\ syncing' = FALSE
  /\ armed' = Arm(item')
  /\ Unheard(c)
  /\ UNCHANGED <<serverRows, base, session, online, outbox, booting, breaks>>

\* The Sync button of the outbox panel.
SyncButton ==
  /\ ~syncing
  /\ Pending(item, outbox) # <<>>
  /\ SyncNow(item)
  /\ UNCHANGED <<serverRows, base, session, online, armed, outbox, booting, breaks>>

-----------------------------------------------------------------------------
(* Connectivity and automatic retries *)

\* setOnline(false) parks the timer.
GoOffline ==
  /\ online
  /\ online' = FALSE
  /\ armed' = FALSE
  /\ UNCHANGED <<serverVars, syncing, outbox, item, booting, breaks>>

\* Fault: the timer parked while offline is not set again.
GoOnlineUnarmed ==
  /\ ~online
  /\ online' = TRUE
  /\ SyncNow(RequeueDue(item))
  /\ UNCHANGED <<serverRows, base, session, armed, outbox, booting, breaks>>

\* setOnline(true): re-queue what is due, drain, set the timer for the rest.
GoOnline ==
  /\ ~online
  /\ online' = TRUE
  /\ SyncNow(RequeueDue(item))
  /\ armed' = Arm(item')
  /\ UNCHANGED <<serverRows, base, session, outbox, booting, breaks>>

\* The backoff of a scheduled item elapses.
Elapse(a) ==
  /\ item[a].retry = "waiting"
  /\ item' = [item EXCEPT ![a].retry = "due"]
  /\ UNCHANGED <<serverVars, online, syncing, armed, outbox, booting, breaks>>

\* run(), when the timer fires.  While a drain is out it only sets itself
\* again, which changes nothing.
TimerParks ==
  /\ armed
  /\ ~online
  /\ armed' = FALSE
  /\ UNCHANGED <<serverVars, online, syncing, outbox, item, booting, breaks>>

TimerRetries ==
  /\ armed
  /\ online
  /\ ~syncing
  /\ \E a \in Actions : Due(item[a])
  /\ SyncNow(RequeueDue(item))
  /\ armed' = Arm(item')
  /\ UNCHANGED <<serverRows, base, session, online, outbox, booting, breaks>>

\* retryAll: every failed item is queued again, the schedule dropped; an
\* item that waits for a sign-in keeps its mark.
RetryAll ==
  /\ \E a \in Actions : item[a].status = "failed"
  /\ SyncNow([a \in Actions |->
       IF item[a].status = "failed" THEN Requeued(item[a]) ELSE item[a]])
  /\ UNCHANGED <<serverRows, base, session, online, armed, outbox, booting, breaks>>

-----------------------------------------------------------------------------
(* Session and page *)

SessionExpires ==
  /\ Break
  /\ session = "valid"
  /\ session' = "expired"
  /\ booting' = TRUE
  /\ UNCHANGED <<serverRows, base, call, online, syncing, armed, outbox, item>>

\* drainAfterAuth, once a session authenticates while online.
AuthBlocked(i) == i.status = "failed" /\ i.auth
SignedIn(i) == [i EXCEPT !.status = "pending", !.auth = FALSE, !.retry = "none"]

DrainAfterAuth ==
  LET it == [a \in Actions |-> IF AuthBlocked(item[a]) THEN SignedIn(item[a]) ELSE item[a]]
  IN
  /\ booting
  /\ online
  /\ session' = "valid"
  /\ booting' = FALSE
  /\ SyncNow(it)
  /\ armed' = Arm(it)
  /\ UNCHANGED <<serverRows, base, online, outbox, breaks>>

\* The page is reloaded: the store comes back from localStorage, where every
\* set() had put it, without the flag and the fetches of a drain in flight.
Reload ==
  /\ Break
  /\ call' = [c \in Calls |-> Unlistened(call[c])]
  /\ item' = WithStatus(item, "calling", "closed")
  /\ syncing' = FALSE
  /\ armed' = Arm(item')
  /\ booting' = TRUE
  /\ UNCHANGED <<serverRows, base, session, online, outbox>>

-----------------------------------------------------------------------------
(* resolveConflict *)

Resolved(i, choice) == [i EXCEPT !.status = "synced", !.kept = @ \cup {choice}]

\* The server's version stands; the item goes to the history.
KeepServer(a) ==
  /\ item[a].status = "conflict"
  /\ item' = [item EXCEPT ![a] = Resolved(@, "server")]
  /\ outbox' = WithoutItem(outbox, a)
  /\ UNCHANGED <<serverVars, online, syncing, armed, booting, breaks>>

\* One forced re-apply; the item is still a conflict while it is out.
KeepMine(a) ==
  /\ item[a].status = "conflict"
  /\ ~syncing
  /\ syncing' = TRUE
  /\ \E c \in Idle : call' = [call EXCEPT ![c] = Request("force", <<a>>)]
  /\ UNCHANGED <<serverRows, base, session, online, armed, outbox, item, booting, breaks>>

ForceAnswered(c) ==
  LET a == Head(call[c].batch) IN
  /\ Answered(c, "force")
  /\ IF call[c].at = "answer" /\ call[c].result[a] = "ok"
     THEN /\ item' = [item EXCEPT ![a] = Resolved(@, "mine")]
          /\ outbox' = WithoutItem(outbox, a)
     ELSE UNCHANGED <<item, outbox>>
  /\ syncing' = FALSE
  /\ Close(c)
  /\ UNCHANGED <<serverRows, base, session, online, armed, booting, breaks>>

ForceFailed(c) ==
  /\ call[c].via = "force"
  /\ call[c].heard
  /\ syncing' = FALSE
  /\ Unheard(c)
  /\ UNCHANGED <<serverRows, base, session, online, armed, outbox, item, booting, breaks>>

-----------------------------------------------------------------------------
(* Specification *)

Device ==
  \/ \E a \in Actions : DispatchOffline(a) \/ DispatchOnline(a) \/ KeepServer(a)
                          \/ KeepMine(a) \/ Elapse(a)
  \/ \E c \in Calls : \/ DispatchAnswered(c) \/ DispatchFailed(c)
                      \/ DrainAnswered(c) \/ DrainFailed(c)
                      \/ ForceAnswered(c) \/ ForceFailed(c)
  \/ SyncButton \/ GoOffline \/ GoOnline \/ TimerParks \/ TimerRetries \/ RetryAll
  \/ SessionExpires \/ DrainAfterAuth \/ Reload

Server ==
  \/ \E c \in Calls : ServerStep(c) \/ Die(c)
  \/ OtherEdit

Next == Device \/ (Server /\ UNCHANGED deviceVars)

Spec == Init /\ [][Next]_vars

\* The server works on what it received, answers reach a device that listens,
\* and time passes.  The timer polls every second while a drain is out, so it
\* does not miss every gap between two drains: strong fairness.
FairSpec ==
  /\ Spec
  /\ \A c \in Calls : /\ WF_vars(ServerStep(c) /\ UNCHANGED deviceVars)
                      /\ WF_vars(DispatchAnswered(c))
                      /\ WF_vars(DrainAnswered(c))
                      /\ WF_vars(ForceAnswered(c))
  /\ \A a \in Actions : WF_vars(Elapse(a))
  /\ SF_vars(TimerRetries)

-----------------------------------------------------------------------------
(* Properties *)

\* However often a payment is sent - directly, queued, forced, retried, by two
\* requests at once, with answers lost and servers restarted - it is made once
\* (payment.pay behind /api/actions and /api/sync).
PaidOnce ==
  \A a, b \in Money :
    /\ landed[a] <= 1
    /\ landed[a] = 1 /\ landed[b] = 1 /\ Payment[a] = Payment[b] => a = b

\* What stands for an action on the server: it took effect, or an action with
\* the same payload did, which the route takes for a replay.
OnServer(a) ==
  \/ landed[a] > 0
  \/ Kind[a] = "money" /\ paidBy[Payment[a]] = Method[a]
  \/ Kind[a] = "field" /\ \E b \in Field : landed[b] > 0 /\ base[b] = base[a]

\* An item moves to the history as synced only when its action is on the
\* server, or when a human gave it up: no order of apply, marker, crash and
\* re-flush lets the device drop work the server never did.
SyncedIsOnServer ==
  \A a \in Actions :
    item[a].status = "synced" /\ item[a].kept # {"server"} => OnServer(a)

\* A marker is never ahead of the effect it stands for: otherwise a crash in
\* between would make the next flush skip an action that was never applied.
MarkedIsApplied ==
  /\ \A a \in marks : landed[a] > 0
  /\ \A a \in Actions : Fingerprinted(a) /\ Fingerprint(a) \in prints => OnServer(a)

\* The syncing flag is up exactly while one drain or forced re-apply is
\* listened to: two loops over one outbox would send an item twice.
OneDrainAtATime ==
  LET loops == {c \in Calls : call[c].via \in {"sync", "force"} /\ call[c].heard}
  IN  Cardinality(loops) = (IF syncing THEN 1 ELSE 0)

\* A failed item with a schedule is retried, unless the device goes offline:
\* nothing between two drains loses the schedule or the timer.
ScheduledIsRetried ==
  \A a \in Actions :
    (online /\ Scheduled(item[a])) ~> (~online \/ ~Scheduled(item[a]))

\* Once an answer or a failure is bound to come, the device does not stay
\* "syncing": the flag that locks every drain is put down again.
SyncingEnds == syncing ~> ~syncing

-----------------------------------------------------------------------------
(* What the repository says and the code does not do *)

\* "offline sync dedupes by outbox id (a lost response can't double-post)"
\* (README.md:85): nothing takes effect twice.
NothingLandsTwice == \A a \in Actions : landed[a] <= 1

\* "on reconnect they sync" (README.md:94): whatever is queued when the device
\* comes back online is in the batch of a drain the device listens to.
ReconnectSyncs ==
  [][~online /\ online' =>
       \A a \in Actions : item'[a].status \in {"pending", "syncing"} =>
         \E c \in Calls : /\ call'[c].via = "sync"
                           /\ call'[c].heard
                           /\ \E i \in DOMAIN call'[c].batch : call'[c].batch[i] = a]_vars
=============================================================================
