------------------------------ MODULE FsVolume ------------------------------
(***************************************************************************)
(* A filesystem driver shared by tasks: Volume, its handles and the queue  *)
(* of calls that dropped handles owe (hadris-fs api/volume.rs and          *)
(* api/handle.rs).  Every call takes the lock, first makes the owed calls, *)
(* then its own; between two polls the future of an async call may be      *)
(* dropped, and the driver may panic.  The blocking volume ("sync") is the *)
(* same code with a mutex that a panic poisons; its guard makes the owed   *)
(* calls when it is dropped, too, and a handle is released by the thread   *)
(* that drops it if the lock is free.                                      *)
(*                                                                         *)
(* A pin of the driver is followed from the call that acquires it to the   *)
(* call that forgets it.  Names, positions and data are left out.          *)
(***************************************************************************)
EXTENDS Integers, Sequences, FiniteSets, SequencesExt

CONSTANTS
    Tasks,     \* tasks or threads that make calls
    Nodes,     \* nodes of the driver
    Pins,      \* bound: pins that exist at a time
    MaxDirs,   \* bound: directories create_dir_all and remove_dir_all visit
    Modes,     \* a subset of {"sync", "async"}
    Windows    \* the early steps taken: a subset of EarlySteps

NoTask == "none"
NoPin == "none"
NoNode == "none"
\* cut_close: a close is dropped inside the driver; panic_drain: a panic in an
\* owed call gives the lock back before the volume is failed; no_std: so does
\* every panic of a build without std.
EarlySteps == {"cut_close", "panic_drain", "no_std"}

ASSUME VolumeAssumption ==
    /\ Modes \subseteq {"sync", "async"} /\ Windows \subseteq EarlySteps
    /\ MaxDirs \in Nat \ {0}
    /\ NoTask \notin Tasks /\ NoPin \notin Pins /\ NoNode \notin Nodes
    /\ IsFiniteSet(Pins)

VARIABLES
    mode,     \* which of the two volumes this is
    lock,     \* Shared::fs: the task that has the driver
    failed,   \* Shared::failed, or the mutex is poisoned
    broken,   \* ghost: a panic left the driver in the middle of a call
    queue,    \* Shared::pending
    task,     \* per task its call and how far it has come
    pin,      \* per pin its node, where it is, and whether it holds an open
    pins,     \* the driver's pins of each node
    opens     \* the driver's opens of each node

driver == <<pins, opens>>
vars == <<mode, lock, failed, broken, queue, task, pin, driver>>

Idle == [op |-> "none", at |-> "idle", held |-> <<>>, uses |-> NoPin,
         todo |-> 0]
Unused == [node |-> NoNode, at |-> "free", open |-> FALSE]

\* Calls by what they hold.  path: metadata, read_link, set_attr, create_dir,
\* remove_file, remove_dir; list: read_dir, walk; lock: the user's guard.
\* create: open with create; dirs: create_dir_all; tree: remove_dir_all.
PathCalls == {"path", "rename", "list", "open", "create", "dirs", "tree", "lock"}
\* Which path call it is shows only once it has the lock: until then "call".
Calls == {"call", "use", "close"}

-----------------------------------------------------------------------------
\* The driver (external; as table.rs does it): forget and close saturate.

Less(n) == IF n = 0 THEN 0 ELSE n - 1

DriverForget(hs) ==
    pins' = [n \in Nodes |->
        LET k == Cardinality({h \in hs : pin[h].node = n})
        IN  IF pins[n] < k THEN 0 ELSE pins[n] - k]

DriverClose(h) == opens' = [opens EXCEPT ![pin[h].node] = Less(@)]

-----------------------------------------------------------------------------
\* The queue of owed calls.

\* What a dropped Held or a dropped handle queues.
Owed(h, open) ==
    (IF open THEN <<[call |-> "close", pin |-> h]>> ELSE <<>>)
      \o <<[call |-> "forget", pin |-> h]>>

\* The guards of a call dropped in the reverse order of their creation; a
\* release has none.  Only the guard made last can hold an open.
OwedByHeld(t) ==
    LET hs == IF task[t].op = "release" THEN <<>> ELSE task[t].held
        open == hs # <<>> /\ (pin[Last(hs)].open \/ task[t].at = "closing")
    IN  (IF open THEN <<[call |-> "close", pin |-> Last(hs)]>> ELSE <<>>)
          \o [i \in 1 .. Len(hs) |-> [call |-> "forget", pin |-> hs[Len(hs) + 1 - i]]]

InUse(h) == \E t \in Tasks : task[t].uses = h
IsHandle(h) == pin[h].at \in {"file", "dir"}
Queued(h) == \E i \in 1 .. Len(queue) : queue[i].pin = h
HeldBy(t) == ToSet(task[t].held)

\* Pins that leave for good.
Released(hs) == [h \in Pins |-> IF h \in hs THEN Unused ELSE pin[h]]
Moved(hs, where) ==
    [h \in Pins |-> IF h \in hs THEN [pin[h] EXCEPT !.at = where] ELSE pin[h]]

Step(t, at) == task' = [task EXCEPT ![t].at = at]

-----------------------------------------------------------------------------
\* MUTANT of Leave: the last unlock of a call is forgotten on one path.
LeaveLocked(t) ==
    IF mode = "sync" /\ task[t].op # "release"
    THEN task' = [task EXCEPT ![t] = [Idle EXCEPT !.at = "leaving"]] /\ UNCHANGED lock
    ELSE task' = [task EXCEPT ![t] = Idle]
         /\ lock' = IF task[t].op = "rename" THEN lock ELSE NoTask

\* The guard is dropped.  The blocking guard makes the owed calls first; the
\* bare guard of a release does not.
Leave(t) ==
    IF mode = "sync" /\ task[t].op # "release"
    THEN task' = [task EXCEPT ![t] = [Idle EXCEPT !.at = "leaving"]] /\ UNCHANGED lock
    ELSE task' = [task EXCEPT ![t] = Idle] /\ lock' = NoTask

\* The call forgets the pins it holds and is over.
ForgetAndLeave(t) ==
    /\ DriverForget(HeldBy(t)) /\ pin' = Released(HeldBy(t))
    /\ Leave(t)

-----------------------------------------------------------------------------
\* A call begins with enter: on a failed volume it returns at once.
Begin(t, op) ==
    /\ task[t].at = "idle" /\ ~failed
    /\ \/ op = "call"
          /\ task' = [task EXCEPT ![t] = [Idle EXCEPT !.op = op, !.at = "entering"]]
       \/ \E h \in Pins :
            /\ IF op = "close" THEN pin[h].at = "file" ELSE op = "use" /\ IsHandle(h)
            /\ ~InUse(h)
            /\ task' = [task EXCEPT ![t] =
                 [Idle EXCEPT !.op = op, !.at = "entering", !.uses = h]]
    /\ UNCHANGED <<mode, lock, failed, broken, queue, pin, driver>>

\* MUTANT of Acquire: failed is not looked at again under the lock.
AcquireUnchecked(t) ==
    /\ task[t].at = "entering" /\ lock = NoTask
    /\ lock' = t /\ Step(t, "draining") /\ UNCHANGED pin
    /\ UNCHANGED <<mode, failed, broken, queue, driver>>

\* The lock is free: the task takes it, unless the volume has failed in the
\* meantime.  Then a file that was to be closed is dropped by its call.
Acquire(t) ==
    /\ task[t].at = "entering" /\ lock = NoTask
    /\ IF failed
       THEN /\ task' = [task EXCEPT ![t] = Idle] /\ UNCHANGED lock
            /\ pin' = Moved(IF task[t].op = "close" THEN {task[t].uses} ELSE {}, "lost")
       ELSE lock' = t /\ Step(t, "draining") /\ UNCHANGED pin
    /\ UNCHANGED <<mode, failed, broken, queue, driver>>

Draining(t) == task[t].at \in {"draining", "leaving"}

\* run_pending: a call leaves the queue as it starts.
RunForget(t) ==
    /\ Draining(t) /\ queue # <<>> /\ Head(queue).call = "forget"
    /\ queue' = Tail(queue)
    /\ DriverForget({Head(queue).pin}) /\ pin' = Released({Head(queue).pin})
    /\ UNCHANGED <<mode, lock, failed, broken, task, opens>>

RunClose(t) ==
    /\ Draining(t) /\ queue # <<>> /\ Head(queue).call = "close"
    /\ queue' = Tail(queue)
    /\ DriverClose(Head(queue).pin) /\ pin' = [pin EXCEPT ![Head(queue).pin].open = FALSE]
    /\ Step(t, IF task[t].at = "draining" THEN "close_owed" ELSE "close_leaving")
    /\ UNCHANGED <<mode, lock, failed, broken, pins>>

\* The driver has published the closed node, or failed to: errors are ignored.
OwedClosed(t) ==
    /\ \/ task[t].at = "close_owed" /\ Step(t, "draining")
       \/ task[t].at = "close_leaving" /\ Step(t, "leaving")
    /\ UNCHANGED <<mode, lock, failed, broken, queue, pin, driver>>

\* Where a call's own part starts, and how many pins it has to acquire.
First(op) == CASE op = "use" -> "work" [] op = "lock" -> "guard" [] OTHER -> "resolve"
Todo(op) ==
    CASE op \in {"path", "list", "open"} -> {1}
      [] op \in {"rename", "create"} -> {2}
      [] op \in {"dirs", "tree"} -> 1 .. MaxDirs
      [] OTHER -> {0}

\* MUTANT of Start: a call goes ahead of what is owed.
StartAhead(t) ==
    /\ task[t].at = "draining" /\ task[t].op \in {"call", "use"}
    /\ \E op \in IF task[t].op = "use" THEN {"use"} ELSE PathCalls : \E k \in Todo(op) :
         task' = [task EXCEPT ![t].op = op, ![t].at = First(op), ![t].todo = k]
    /\ UNCHANGED <<mode, lock, failed, broken, queue, pin, driver>>

\* Nothing is owed: the call's own part starts.
Start(t) ==
    /\ task[t].at = "draining" /\ queue = <<>> /\ task[t].op \in {"call", "use"}
    /\ \E op \in IF task[t].op = "use" THEN {"use"} ELSE PathCalls : \E k \in Todo(op) :
         task' = [task EXCEPT ![t].op = op, ![t].at = First(op), ![t].todo = k]
    /\ UNCHANGED <<mode, lock, failed, broken, queue, pin, driver>>

\* File::close: the pin and the open go to a guard of the call, the driver
\* ends the open before its first await.
StartClose(t) ==
    LET h == task[t].uses
    IN  /\ task[t].at = "draining" /\ queue = <<>>
        /\ task[t].op \in {"close", "release"} /\ pin[h].open
        /\ DriverClose(h) /\ pin' = [pin EXCEPT ![h].open = FALSE, ![h].at = "held"]
        /\ task' = [task EXCEPT ![t].at = "closing", ![t].held = <<h>>]
        /\ UNCHANGED <<mode, lock, failed, broken, queue, pins>>

\* A directory listing released by the blocking drop.
StartForget(t) ==
    /\ task[t].at = "draining" /\ queue = <<>>
    /\ task[t].op = "release" /\ ~pin[task[t].uses].open
    /\ DriverForget({task[t].uses}) /\ pin' = Released({task[t].uses})
    /\ Leave(t)
    /\ UNCHANGED <<mode, failed, broken, queue, opens>>

\* into_inner has made the owed calls; the filesystem is shared again.
HandBack(t) ==
    /\ task[t].at = "draining" /\ queue = <<>> /\ task[t].op = "into_inner"
    /\ task' = [task EXCEPT ![t] = Idle] /\ lock' = NoTask
    /\ UNCHANGED <<mode, failed, broken, queue, pin, driver>>

\* The blocking guard has nothing more to run.
Unlock(t) ==
    /\ task[t].at = "leaving" /\ queue = <<>>
    /\ task' = [task EXCEPT ![t] = Idle] /\ lock' = NoTask
    /\ UNCHANGED <<mode, failed, broken, queue, pin, driver>>

\* The user's VolumeGuard is dropped.
DropGuard(t) ==
    /\ task[t].at = "guard" /\ Leave(t)
    /\ UNCHANGED <<mode, failed, broken, queue, pin, driver>>

-----------------------------------------------------------------------------
\* A call's own part, await by await.

\* resolve, resolve_parent, lookup or create pins a node.  rename resolves two
\* parents; create and create_dir_all forget the parent with the same poll that
\* pins the child, remove_dir_all keeps a stack.
Resolve(t) ==
    /\ task[t].at = "resolve" /\ task[t].todo > 0
    /\ \E g \in Pins : pin[g].at = "free"
    /\ \E n \in Nodes :
         LET h == CHOOSE g \in Pins : pin[g].at = "free"
             done == IF task[t].op \in {"create", "dirs"} THEN HeldBy(t) ELSE {}
             more == task[t].op = "tree" \/ task[t].todo > 1
         IN  /\ pin' = [Released(done) EXCEPT ![h] =
                          [node |-> n, at |-> "held", open |-> FALSE]]
             /\ pins' = [i \in Nodes |-> pins[i] + (IF i = n THEN 1 ELSE 0)
                           - Cardinality({g \in done : pin[g].node = i})]
             /\ task' = [task EXCEPT
                  ![t].held = IF done = {} THEN Append(@, h) ELSE <<h>>,
                  ![t].todo = @ - 1,
                  ![t].at = IF more THEN "resolve" ELSE "work"]
    /\ UNCHANGED <<mode, lock, failed, broken, queue, opens>>

\* A call that fails, or one that is done, forgets what it holds.
ResolveFails(t) ==
    /\ task[t].at = "resolve"
    /\ ForgetAndLeave(t) /\ UNCHANGED <<mode, failed, broken, queue, opens>>

WorkEnds(t) ==
    /\ task[t].at = "work"
    /\ ForgetAndLeave(t) /\ UNCHANGED <<mode, failed, broken, queue, opens>>

\* open with create found a symlink: it is resolved anew.
FollowLink(t) ==
    /\ task[t].at = "work" /\ task[t].op = "create"
    /\ DriverForget(HeldBy(t)) /\ pin' = Released(HeldBy(t))
    /\ task' = [task EXCEPT ![t].op = "open", ![t].held = <<>>,
                            ![t].at = "resolve", ![t].todo = 1]
    /\ UNCHANGED <<mode, lock, failed, broken, queue, opens>>

\* empty_dir leaves a directory it has emptied; below the last one the
\* parent of the whole is resolved.
EmptiedDir(t) ==
    LET hs == task[t].held
    IN  /\ task[t].at = "resolve" /\ task[t].op = "tree" /\ hs # <<>>
        /\ DriverForget({Last(hs)}) /\ pin' = Released({Last(hs)})
        /\ task' = [task EXCEPT ![t].held = Front(hs),
                                ![t].op = IF Len(hs) = 1 THEN "path" ELSE "tree",
                                ![t].todo = IF Len(hs) = 1 THEN 1 ELSE @]
        /\ UNCHANGED <<mode, lock, failed, broken, queue, opens>>

\* read_dir and walk keep the pin in the handle they return.
Listed(t) ==
    /\ task[t].at = "work" /\ task[t].op = "list"
    /\ pin' = Moved(HeldBy(t), "dir") /\ Leave(t)
    /\ UNCHANGED <<mode, failed, broken, queue, driver>>

\* open_held: the driver opens the node; it may be emptied next.
Opened(t) ==
    LET h == task[t].held[1]
    IN  /\ task[t].at = "work" /\ task[t].op \in {"open", "create"}
        /\ opens' = [opens EXCEPT ![pin[h].node] = @ + 1]
        /\ \/ /\ pin' = [pin EXCEPT ![h].open = TRUE] /\ Step(t, "truncate")
              /\ UNCHANGED lock
           \/ /\ pin' = [pin EXCEPT ![h].open = TRUE, ![h].at = "file"] /\ Leave(t)
        /\ UNCHANGED <<mode, failed, broken, queue, pins>>

Truncated(t) ==
    /\ task[t].at = "truncate"
    /\ pin' = Moved(HeldBy(t), "file") /\ Leave(t)
    /\ UNCHANGED <<mode, failed, broken, queue, driver>>

TruncateFails(t) ==
    LET h == task[t].held[1]
    IN  /\ task[t].at = "truncate"
        /\ DriverClose(h) /\ pin' = [pin EXCEPT ![h].open = FALSE] /\ Step(t, "closing")
        /\ UNCHANGED <<mode, lock, failed, broken, queue, pins>>

\* MUTANT of Closed: close hands its pin to nobody.
ClosedUnforgotten(t) ==
    /\ task[t].at = "closing"
    /\ Leave(t) /\ pin' = Released(HeldBy(t))
    /\ UNCHANGED <<mode, failed, broken, queue, driver>>

\* The driver's close has returned: Held::closed, then forget.
Closed(t) ==
    /\ task[t].at = "closing"
    /\ ForgetAndLeave(t) /\ UNCHANGED <<mode, failed, broken, queue, opens>>

-----------------------------------------------------------------------------
\* A file whose close had not begun is dropped with the call; a failed volume
\* owes nothing.
Dropped(t) ==
    IF task[t].op = "close" /\ task[t].held = <<>> THEN {task[t].uses} ELSE {}

\* The handle that a close or a release was called with.
Given(t) == IF task[t].op \in {"close", "release"} THEN {task[t].uses} ELSE {}

Suspended == {"entering", "close_owed", "resolve", "work", "truncate", "closing"}

\* The future of a call is dropped where it waits: its guards queue what they
\* hold.  The driver has ended an open before the first await of its close.
Cut(t) ==
    /\ mode = "async" /\ task[t].at \in Suspended
    /\ task[t].at = "closing" => "cut_close" \in Windows
    /\ task[t].op # "into_inner"
    /\ LET hs == Dropped(t)
           owed == OwedByHeld(t) \o
                   (IF hs # {} /\ ~failed THEN Owed(task[t].uses, TRUE) ELSE <<>>)
       IN  /\ queue' = queue \o owed
           /\ pin' = [h \in Pins |->
                CASE h \in hs /\ failed -> [pin[h] EXCEPT !.at = "lost"]
                  [] h \in HeldBy(t) \cup hs -> [pin[h] EXCEPT !.at = "owed"]
                  [] OTHER -> pin[h]]
    /\ lock' = IF lock = t THEN NoTask ELSE lock
    /\ task' = [task EXCEPT ![t] = Idle]
    /\ UNCHANGED <<mode, failed, broken, driver>>

\* A poll that has the driver panics: guards queue, the lock is given back and
\* the volume is failed.  Under the guard of run_pending, which is a bare one,
\* and without std under any, the flag is set only once the unwinding has
\* left the poll, and the early step is to give the lock back before.  Without
\* std a panic of the user's code with the guard ends like DropGuard.
Panic(t) ==
    /\ lock = t /\ ~broken /\ task[t].op # "into_inner"
    /\ task[t].at \in {"close_owed", "close_leaving", "resolve", "work", "truncate",
                       "closing", "guard"}
    /\ task[t].at = "guard" => "no_std" \notin Windows
    /\ broken' = TRUE
    /\ queue' = queue \o OwedByHeld(t)
    /\ pin' = [h \in Pins |->
         CASE h \in HeldBy(t) /\ task[t].op # "release" -> [pin[h] EXCEPT !.at = "owed"]
           [] h \in HeldBy(t) \cup Given(t) -> [pin[h] EXCEPT !.at = "lost"]
           [] OTHER -> pin[h]]
    /\ IF mode = "async" /\ (task[t].at = "close_owed" \/ "no_std" \in Windows)
       THEN /\ task' = [task EXCEPT ![t] = [Idle EXCEPT !.at = "unwinding"]] /\ UNCHANGED failed
            /\ lock' = IF Windows \cap {"panic_drain", "no_std"} # {} THEN NoTask ELSE lock
       ELSE task' = [task EXCEPT ![t] = Idle] /\ failed' = TRUE /\ lock' = NoTask
    /\ UNCHANGED <<mode, driver>>

Unwound(t) ==
    /\ task[t].at = "unwinding"
    /\ failed' = TRUE /\ task' = [task EXCEPT ![t] = Idle]
    /\ lock' = IF lock = t THEN NoTask ELSE lock
    /\ UNCHANGED <<mode, broken, queue, pin, driver>>

-----------------------------------------------------------------------------
\* Volume::release begins: a handle is dropped, and the volume has not failed
\* so far.  A blocking thread drops one between its calls or with the guard.
DropHandle(h) ==
    /\ IsHandle(h) /\ ~InUse(h)
    /\ mode = "sync" => \E t \in Tasks : task[t].at \in {"idle", "guard"}
    /\ pin' = Moved({h}, IF failed THEN "lost" ELSE "releasing")
    /\ UNCHANGED <<mode, lock, failed, broken, queue, task, driver>>

\* The call is queued.  The lock that try_lock found taken may be free again.
ReleaseLater(h) ==
    /\ pin[h].at = "releasing" /\ ~InUse(h)
    /\ queue' = queue \o Owed(h, pin[h].open)
    /\ pin' = Moved({h}, "owed")
    /\ UNCHANGED <<mode, lock, failed, broken, task, driver>>

\* A listing of the async volume is forgotten at once if the lock is free and
\* nothing is queued.  Whether the volume has failed is not looked at again.
ReleaseNow(h) ==
    /\ mode = "async" /\ pin[h].at = "releasing" /\ ~pin[h].open
    /\ lock = NoTask /\ queue = <<>>
    /\ DriverForget({h}) /\ pin' = Released({h})
    /\ UNCHANGED <<mode, lock, failed, broken, queue, opens, task>>

\* The blocking release with the lock free and not poisoned: the dropping
\* thread makes the owed calls and its own.
ReleaseLocked(t, h) ==
    /\ mode = "sync" /\ lock = NoTask /\ ~failed /\ task[t].at = "idle"
    /\ pin[h].at = "releasing" /\ ~InUse(h)
    /\ lock' = t
    /\ task' = [task EXCEPT ![t] = [Idle EXCEPT !.op = "release", !.at = "draining", !.uses = h]]
    /\ UNCHANGED <<mode, failed, broken, queue, pin, driver>>

\* into_inner: no clone and no handle is left.
Sole == /\ \A t \in Tasks : task[t].at = "idle"
        /\ \A h \in Pins : pin[h].at \notin {"file", "dir", "held", "releasing"}

IntoInner(t) ==
    /\ Sole /\ ~failed /\ lock = NoTask
    /\ queue # <<>>      \* otherwise nothing changes
    /\ lock' = t
    /\ task' = [task EXCEPT ![t] = [Idle EXCEPT !.op = "into_inner", !.at = "draining"]]
    /\ UNCHANGED <<mode, failed, broken, queue, pin, driver>>

\* A failed volume is taken apart without its owed calls and its filesystem
\* discarded; another is mounted.
Replace ==
    /\ Sole /\ failed
    /\ failed' = FALSE /\ broken' = FALSE /\ queue' = <<>>
    /\ pin' = [h \in Pins |-> Unused]
    /\ pins' = [n \in Nodes |-> 0] /\ opens' = [n \in Nodes |-> 0]
    /\ UNCHANGED <<mode, lock, task>>

-----------------------------------------------------------------------------
Init ==
    /\ mode \in Modes /\ lock = NoTask /\ failed = FALSE /\ broken = FALSE
    /\ queue = <<>> /\ task = [t \in Tasks |-> Idle]
    /\ pin = [h \in Pins |-> Unused]
    /\ pins = [n \in Nodes |-> 0] /\ opens = [n \in Nodes |-> 0]

\* What a task that has been polled, or a thread that runs, does next.
Progress(t) ==
    \/ Acquire(t) \/ RunForget(t) \/ RunClose(t) \/ OwedClosed(t)
    \/ Start(t) \/ StartClose(t) \/ StartForget(t) \/ HandBack(t)
    \/ Unlock(t) \/ DropGuard(t)
    \/ Resolve(t) \/ ResolveFails(t) \/ WorkEnds(t) \/ FollowLink(t)
    \/ EmptiedDir(t)
    \/ Listed(t) \/ Opened(t) \/ Truncated(t) \/ TruncateFails(t) \/ Closed(t)
    \/ Unwound(t)

Next ==
    \/ \E t \in Tasks : Progress(t) \/ Cut(t) \/ Panic(t) \/ IntoInner(t)
    \/ \E t \in Tasks, op \in Calls : Begin(t, op)
    \/ \E h \in Pins : DropHandle(h) \/ ReleaseLater(h) \/ ReleaseNow(h)
    \/ \E t \in Tasks, h \in Pins : ReleaseLocked(t, h)
    \/ Replace

\* A task that can go on does: its executor polls it, the device answers and
\* the user drops the guard.  Nothing makes a task begin a call.
Spec == Init /\ [][Next]_vars /\ \A t \in Tasks : WF_vars(Progress(t))

-----------------------------------------------------------------------------
\* The driver's pins and opens are exactly those that a call, a handle or the
\* queue still accounts for: no call, cut or dropped handle leaks one or gives
\* one back twice (volume.rs:46, handle.rs:13).  And an open node is pinned,
\* also once a panic broke the driver: a close never runs after the forget
\* that belongs to it, whoever makes the two calls (filesystem.rs:119).
PinsAccounted ==
    \A n \in Nodes :
        /\ opens[n] <= pins[n]
        /\ ~broken => pins[n] = Cardinality({h \in Pins : pin[h].node = n})
        /\ ~broken => opens[n] = Cardinality({h \in Pins : pin[h].node = n /\ pin[h].open})

\* The file is open while its handle lives (handle.rs:13): the driver counts
\* at least as many opens as there are files.
OpenWhileHandleLives ==
    ~failed => \A n \in Nodes :
        Cardinality({h \in Pins : pin[h].node = n /\ pin[h].at = "file" /\ ~InUse(h)})
          <= opens[n]

\* A release forgets a listing that was dropped before the volume failed.
LateRelease ==
    \E h \in Pins :
        pin[h].at = "releasing" /\ ~pin[h].open /\ DriverForget({h}) /\ opens' = opens

\* Nothing reaches a driver that a panic has left in the middle of a change,
\* neither a new call nor an owed one (volume.rs:113), but the forget of a
\* release that had found the volume whole.
FailedIsQuiet ==
    [][broken /\ broken' => UNCHANGED driver \/ LateRelease]_vars

\* As long as calls come that get the lock, what a dropped handle owes is
\* run, however many of the calls are dropped in turn (handle.rs:18).
OwedCallsRun ==
    []<>(\E t \in Tasks : task[t].at = "draining")
      => \A h \in Pins : Queued(h) ~> (~Queued(h) \/ failed)

\* No call keeps the driver: the lock is given back, although handles may be
\* dropped and queued while their queue is being run.
LockComesFree ==
    \A t \in Tasks : lock = t ~> lock # t
=============================================================================
