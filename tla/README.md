# VirtKick in TLA+

TLA+ models of VirtKick, TLC configurations that check them on small instances,
and proofs of their main theorems for every instance, checked by TLAPS.
Paths below are relative to the root of the repository (`src/` in
`PROJECT.json`).

Contents: [1 The system](#1-the-system) ·
[2 Components and their hazards](#2-components-and-their-hazards) ·
[3 The modules](#3-the-modules) · [4 What is checked](#4-what-is-checked) ·
[5 What is proved](#5-what-is-proved) · [6 What the work has shown](#6-what-the-work-has-shown) ·
[7 What is not modelled](#7-what-is-not-modelled) · [8 Plan](#8-plan) ·
[9 Running it](#9-running-it)

## 1 The system

VirtKick manages virtual machines. `starter.js` prepares the program,
starts three kinds of processes and stops them together:

    browser ── HTTP ──> webapp (Rails) ── rows ──> delayed_job workers (2)
                             │                          │
                             └────── HTTP, JSON ────────┤
                                                        v
                                          backend (Django, threads)
                                                        │ libvirt
                                                        v
                                           domains, pools, networks

    browser ── WebSocket ──> proxy (webvirtmgr-novnc) ── TCP ──> VNC server of a domain

* The **webapp** (`webapp/app`) keeps rows: `NewMachine` (a form and how far its
  machine is), `MetaMachine` (a machine a user owns: only its hostname and
  owner), `Progress` (what the browser polls), and delayed_job's queue. Whatever
  changes a machine is a job: a worker performs it, in any order and next to
  other workers.
* The **backend** (`backend`, a fork of WebVirtMgr) turns one HTTP request into
  several libvirt calls. It is threaded; all its threads share one connection
  object per host. Its own `Instance` rows remember a uuid for each name.
* The **browser** runs the machine's page: its power tab polls the jobs, its
  console tab keeps a VNC client connected through the proxy. The backend has a
  console page of its own with an older copy of that client.
* **libvirt** is external. Its domains are found *by name*, so nothing ties a
  row to a domain but the hostname both were given.

Four facts shape every model.

1. *Nothing is a transaction across two systems.* Rows, domains and volumes are
   changed one call at a time, and other jobs and requests run in between.
2. *A failed backend call may look like a success.* `Wvm::Base.call` raises only
   if the answer has `errors`. An exception other than `libvirtError` makes
   Django answer with a page that has none (`DEBUG` is off), and the job goes on.
   The models call the two kinds **loud** and **silent** failures. An object that
   is not found silently is an empty machine with no hostname and no uuid.
3. *A worker may die and its job is run again*, from its beginning, when its lock
   has expired; a crash is not an attempt, not even for a job that is run once.
4. *A request may be sent twice*: `try_twice` repeats it on `EPIPE`/`ECONNRESET`.

## 2 Components and their hazards

Every component is listed in `PROJECT.json`, every hazard at its line. The table
is the summary; "correct" is what the properties were made from.

| component | state | operations | hard about it | correct if |
|---|---|---|---|---|
| read-write lock, `vrtManager/rwlock.py` | writer, readers and depths, upgrade slot, FIFO of writers, condition | acquireRead, acquireWrite, release, timeouts | upgrades, lost wake-ups, writer preference | it is a re-entrant shared/exclusive lock with atomic upgrade; nobody sleeps for nothing; writers are granted |
| connection manager, `vrtManager/connection.py` | table of connections, a handle and a lock each | get_connection, connect, close callback | double-checked creation, callbacks of the event loop, unlocked reads | one object per credentials, one live link each, no lock left behind, every call ends |
| background jobs, `webapp/app/jobs`, `handleProgress.js` | job rows, locks, attempts, Progress, polls | enqueue, reserve, perform, hooks, retry, expiry, poll | crashes between two rows, deleted Progress rows, answers out of order | the browser is told, and told the truth |
| creation and deletion of machines | NewMachine, MetaMachine, domains, volumes | form, create job, delete job | names checked long before they are used, failures half way, repetition, machines that are started or suspended while they are deleted | a listed machine is whole; a deleted one is gone; nobody's machine is deleted for another's |
| disks and ISO images | devices in the XML, volumes, cdrom | create, delete, mount jobs | read-edit-define of the XML, names derived from devices, attempts repeated | the XML names volumes that exist, nothing is left over, the right disk is deleted |
| power operations, page of all machines | domain states, rows of the backend | seven buttons, GET and POST of the page | the page lists *all* machines before and after the operation | what is reported is what was done, once |
| accounts and their cleanup | users, their rows, the transaction of the cleanup | guest, sign-out at 30 min, destruction at 45 | jobs still running, rollback after domains are gone | a destroyed guest leaves no machine |
| start script, `starter.js` | tasks, services, downloads, `.isos-done` | stages, exits, downloads, stop and start | a child ended by a signal has no exit code | what is marked as done was done |
| console page of the backend, `console.html`, `novnc/` | receive queue, protocol state, render queue, keys, buttons | handshake, messages, encodings, input events | frames cut anywhere, images loaded late, input that ends elsewhere | nothing is misread, the screen is the newest, no key stays down |
| machine page in the browser, `machine.js`, `_console.html.slim` | shown state, jobs polled; RFB objects, timers, sockets | clicks, answers, retries | shared retry flag, replaced objects, late close events, a client that gives up or waits for a password, answers out of order | a left tab is quiet but for what a click replaced, a watched one comes back, the shown state is real |
| backend forms, pools, networks, interfaces, secrets, hosts | domains, volumes, libvirt objects, Compute rows | one form each | several calls, cleanup of failures | not modelled (section 7) |

How they interact: **jobs** run the operations of **machines**, **disks** and
**power**; these call the **backend**, every request of which obtains its libvirt
handle through the **connection manager**, whose table is guarded by the
**lock**. The browser learns of all of it through **Progress** rows only. The
**starter** stops the workers of the jobs over whatever they do, and the
**accounts** are cleaned up by a task that deletes machines as the jobs do.

## 3 The modules

| module | models | built on |
|---|---|---|
| `SharedExclusiveLock` | what `ReadWriteLock` promises: who holds which lock how often | |
| `RWLock` | `ReadWriteLock`, every method and every way out of its loops | implements `SharedExclusiveLock` |
| `Connections` | `ConnectionManager.get_connection`, `wvmConnection.connect`, close callbacks | uses `SharedExclusiveLock` as its table lock |
| `Jobs` | `TrackableJob`, `BaseJob`, delayed_job, polling | |
| `Starter` | `starter.js`: tasks, services, downloads | |
| `Program` | the jobs on the services the starter runs | extends `Jobs` and `Starter` |
| `Machines` | `NewMachine`, `MachineCreateJob`, `MachineDeleteJob` and the backend calls they make | crashes and retries as in `Jobs` |
| `Accounts` | guests, `authenticate_user!`, `alpha:cleanup` | extends `Machines` |
| `Disks` | `DiskCreateJob`, `DiskDeleteJob`, `MachineMountIsoJob` on one machine | crashes and retries as in `Jobs` |
| `Power` | `MachineActionJob`, the backend's page of all machines | crashes as in `Jobs` |
| `RFBStream` | `rfb.js`, `websock.js`, `display.js` of the backend's console page against a VNC server | |
| `RFBInput` | `input.js` and the input handlers of `rfb.js` | |
| `Console` | the page: connection, input, polling for updates | extends both |
| `ConsoleTab` | the console tab: `_console.html.slim` over the states of the webapp's `rfb.js` | |
| `PowerTab` | the power and ISO forms: `machine.js`, `handleProgress.js` | |
| `MachinePage` | the page with either tab | extends both |
| `RWLockProofs`, `ConnectionsProofs`, `JobsProofs`, `PowerProofs`, `ConsoleProofs`, `MachinePageProofs`, `AccountsProofs`, `DisksProofs` | the theorems of section 5 | |
| `MCJobs`, `MCMachines`, `MCAccounts`, `MCDisks`, `MCPower`, `MCConsole` | instances for TLC | |

The composition is by contract. `Connections` does not contain the 200 lines of
the lock but the lock's specification, and `RWLock` is proved to implement that
specification. `Machines`, `Disks` and `Power` take from `Jobs` that a queued job
is performed, that one whose worker died is performed again, and that attempts
are bounded, instead of carrying its queue along. Where what interacts is the
steps themselves the composition is by extension: the starter's kills are
crashes of `Jobs` (`Program`), the cleanup's hook is the one of `Machines`
(`Accounts`), key and update messages leave by one socket (`Console`).

Conventions. Names are those of the source where TLA+ allows it. One action is
the stretch of code between two points at which somebody else can act: two
libvirt calls, two HTTP requests, two acquisitions of a mutex. An operator
`Op_Word` is a mutation of `Op` that no action uses: it is there to show that
the properties notice such a mistake (`mutants` in `PROJECT.json`). Variables
called *history* in a comment are not in the program; they record what the
properties are about.

### `RWLock`

The methods hold the condition's mutex from their first line to their return or
to `wait()`, so each such stretch is one action: `AcquireRead`, `AcquireWrite`,
`AcquireUpgrade` (entering), `RetryRead`, `RetryWrite`, `RetryUpgrade` (once more
through the loop), `TimeoutRead`, ... (the exception), `Nest` (the writer again),
`ReleaseRead`, `ReleaseWrite`. `asleep` is the condition's wait set, so that
lost wake-ups show. Calls that raise `ValueError` change nothing and are left
out. `readers[t] = 0` stands for a missing key of `__readers`.

### `Connections`

`pc` names where a thread is in `get_connection`; `connect()` runs under
`connection_state_lock`; `connected` is a property that reads the attribute
twice, so `TestNotNone` and `TestAlive` are two actions. The event loop is one
more thread: `LinkDown` is the hypervisor's doing, `CloseCallback` what the loop
runs later. `wvmConnection.close` is left out as nothing calls it.

### `Jobs`

The Progress row and the job row are two rows: `SuccessHook` and `Destroy` are
two steps, and `Crash` may come between them. delayed_job is a library, modelled
from its use; max_run_time counts as a `perform` that raises. The browser's timer
(`Poll`) does not wait for answers, and `inflight` is a set, so that answers come
in any order and the later ones repeat. `progress = "error"` is a row that is
finished with an error, which the success of a later run does not clear. A crash
takes a *set* of workers, because the starter kills all at once.

### `Starter` and `Program`

`starter.js` runs the stages of `serialTasks` one after the other, the tasks of a
stage next to each other and the commands of a task in series; then the services
and the downloads. `ServiceDies` is the end of one service, `ServiceExits` the
event on which the starter sends SIGKILL to the others. A child that was killed
exits with the code `null`, which `bindOutput` hands to the callback as "no
error": `TaskCut` and `IsoKilled`. When `eachLimit` has called back with an error
it starts no more downloads, and the place of the failed one stays occupied
(`Spend`). The starter survives its services, since its proxy keeps the event
loop alive; the user stops it and starts it again (`Restart`). In `Program` jobs
are taken and run only by a worker that is up, polled only while rails is up, and
what dies takes its job along (`Dying`).

### `Machines`

The actions follow a create job (`Begin`, `List`, `Define`, `Find`, `AddVolume`,
`AssignVolume`, `SaveRow`, `SetFinished`, `JobEnds`) and a delete job (`FindRow`,
`ForceStop`, `FindMachine`, `Lookup`, `Kill`, `Undefine`, `DestroyRow`,
`DeleteEnds`). A domain's uuid is new in every run of a create job: `Id(r)`.
Before the first stands the request: `Validate`, `Save` and `Enqueue` are three
steps, and in `WebDies` the process dies between the last two. Two forms may be
validated before either is saved; `rivals` remembers those of one hostname that
were. `Rescue` is the rescue of `step`, whose own update of the row may be refused.
Users start, suspend and resume what is listed (`Start`, `Pause`, `Resume`) at any
time, also between the steps of a deletion. `ForceStop` stops whatever is active,
`Kill` (`views.py:513`, status 1) what is active and not suspended, and an active
domain that is undefined becomes transient. `spared` remembers the domains that
were active when a deletion was about to undefine them.

Failures are actions of their own (`CreateFault`, `CreateSilent`, `CreateCrash`,
and the same for deletion), with a budget each, so that a property can say which
kinds it stands (`Never`). The deletion of volumes that `instance/views.py:515`
offers has no action: the job's `delete_disk` is empty (section 6).

### `Accounts`

One guest and another user. The cleanup is a deletion of `Machines` whose hook
(`ForceStop` to `Undefine`) is the job's own, but whose rows go in one
transaction: `Begins` loads them, `RowDone` destroys one, `Commit` makes it all
true, together with the `NewMachine` rows (`newm = "destroyed"`), and `RollBack`
brings the rows back, not the domains. Until then nobody else writes a row, as
SQLite has one writer: of the steps of the others those that only read go on
(`Reads`), the others wait (`Writes`) or are refused after the five seconds of
`config/database.yml`. A refused form is answered by an error (`FormRefused`), a
refused job ends up in its rescue, whose update may be refused as well
(`CreateRefused`, or the `DeleteFault` of its last step); a form that is saved and
whose job is refused is `WebDies`. The destroyed form frees the hostname: the
budget `early` counts the guests who are destroyed before that is right
(`TooEarly`), and the properties that need the hostname to be taken say so.

### `Disks`

One machine, as jobs of different machines touch different volumes. A volume is
named after the machine and the device it was made for, so the device names it.
`ReadXML` and `DefineXML` are two actions: what another job defines in between is
lost, which `past` records as "lost". Running domains are changed in place
(`Attach`, `Detach`, `MountLive`), others by their XML.

### `Power`

`ListActive`, `LookUp`, `Describe`, `AddListed` are the page; `Operate`, `Refuse`
and `Ignore` what was asked for; a request that did something is redirected to
the page once more, and *that* page's errors are what the job sees. Each request
of a job may be sent a second time, the two of a hard reset one by one. Rows of the
backend are counted, because nothing makes them unique. The libvirt operations
are as external as libvirt: which of them are possible in which state, and what
they do.

### `RFBStream`, `RFBInput`, `Console`

A token is the bytes that one `rQwait` waits for, so a frame that ends inside a
token is one that ends before it: cutting the stream into frames anywhere is
cutting it between tokens. `rQ` is the queue from `rQi` on, `NormalMsg` one call
of `normal_msg`, `FramebufferUpdate` and `Scan` its loop and that of the render
queue, as recursive functions; what the code does with a token it did not expect depends on bytes,
and the model stops there (`confused`), which `NothingMisread` says happens only
where `rfb.js` waits with `FBU.bytes` still 0 or after a second submission of
the password form. The server is every server the
handshake distinguishes: version, security type, password scheme, right and wrong
passwords. The input half follows `keyDownList`, the mouse mask and the capture
flag, with what the server believes of keys and buttons beside them.

### `ConsoleTab`, `PowerTab`, `MachinePage`

Each click on *Console* makes one more RFB object; `connectLoop` and the retry
are shared by all of them, and the handlers of a socket belong to its object. The
object a click replaces is not disconnected by anyone (`abandoned`). The
states are those of `updateState`; timers are actions that are enabled while they
are due. The messages of the handshake are one step, with the three ends they
have: the client is connected (`BecomeNormal`), gives up (`RefuseServer`: a
version, a security type, a refusal) or waits for a password the page never gives
(`AskPassword`). A connected client gives up over a message or an encoding it does
not know (`RefuseMessage`). Either way its socket is left closing, and the close
event may come after the retry. `hasty` marks a visit that began, or in which a
retry connected, while something of an earlier connection was under way. The power tab has the clicks with their made-up states, the job of each,
the answers in any order (`requests`), and one more success handler for each
change of the ISO (`handlers`). The two tabs share nothing but the machine, so
that `MachinePage` follows one of them in each behaviour.

## 4 What is checked

Twelve runs, three of which show a violation. Sizes are distinct states. `disks`
and `power` use symmetry, sound there because they check no liveness property and
the permuted values are interchangeable in every definition.

| run | question | properties | states |
|---|---|---|---|
| `rwlock` | is the lock what it promises to be, and is it live? | `QueueIsBlockedWriters`, `WritersSleepForAReason`, `ImplementsLock`, `OnlyTimeoutsLoseWakeups`, `WriterGranted` | 31 273 |
| `rwlock_lost_wakeup` | does a writer that gives up need to signal anyone? | `ReadersSleepForAReason` (violated) | |
| `connections` | do threads share one link, and does every call end? | `UniqueObject`, `NoLockLeftHeld`, `ReconnectOnce`, `CallReturns` | 67 140 |
| `connections_returns_none` | is what is returned a connection? | `ReturnsConnection` (violated) | |
| `connections_live_dropped` | is a live connection kept? | `LiveConnectionKept` (violated) | |
| `jobs` | is the browser told the truth, and is what the starter marks as done done, while services are killed and started again? | `ToldTheTruth`, `AttemptsBounded`, `NothingSkipped`, `EventuallyTold` | 147 701 |
| `machines` | what holds between rows, domains and volumes, under which failures, while machines are started, suspended and deleted; what does a destroyed guest leave, and whose machine does a deletion hit? | `RowIsWhole`, `DeletedIsGone`, `NoOrphan`, `GuestLeavesNothing`, `DeletesOwnMachine` | 3 176 698 |
| `machines_live` | is every form reported, even if two were validated at once? | `FailedHasNoMachine`, `EventuallyReported` | 300 163 |
| `disks` | which volumes and devices remain, and is the right disk deleted? | `DiskHasVolume`, `NoLeftover`, `RightDisk` | 2 333 648 |
| `power` | what does a reported success, or failure, tell? | `SuccessIsCarriedOut`, `FailureIsNotCarriedOut`, `AtMostOnce`, `HardResetEndsOn` | 2 334 534 |
| `console` | is the stream read, painted and answered rightly, however it is cut? | `NothingMisread`, `PaintedInOrder`, `ClosedIsSaid`, `NoKeyStuck`, `ButtonsMatch`, `EventuallyShown`, `HandshakeEnds` | 118 103 |
| `machine_page` | does the console come back, and only while it is watched; is the shown state real? | `AwayIsQuiet`, `NeverStuck`, `ShownSinceJob`, `SpinnerTellsMount`, `KeptAlive`, `BackOn` | 518 865 |

**Bounds, and why they suffice.**

* `RWLock`: four threads are a writer in front, one behind it, a reader and an
  upgrader, the most roles a rule of the lock mentions at once; depth 2 is the
  first nesting. The theorems hold without either bound.
* `Connections`: two threads are the race on the table and on an object, the
  event loop is the third party. Two objects allow a duplicate, three handles a
  link that breaks, is reopened and breaks again (`Create` and `Open` stop at the
  bounds). One of the two credentials is of an unsupported type, for the
  exception. The findings need one of each.
* `Jobs` with `Starter`: two workers and two jobs, one with a retry and tracked,
  one run once and untracked; rails and the backend; two stages, one of them with
  two tasks side by side; two images of which one is fetched at a time, so that
  one waits. One thing goes wrong of itself (`MaxFaults`): a task, a download, a
  service or the user's stop; what follows from it is not bounded. Jobs are
  requested only while no image is being fetched (`Requests`), since the two
  share nothing but the kill that ends both.
* `Machines` with `Accounts`: two forms for the *same* hostname, one of them the
  guest's, which may be validated at one time, a delete job and the cleanup, which
  may be for the same row; forms for different hostnames share nothing in these
  actions. One failure of each kind per behaviour (`MaxCrashes`,
  `MaxDeleteCrashes`, `MaxFaults`, `MaxSilent`, `MaxEarly`), two starts or
  suspensions (`MaxStarts`), and two of all these together
  (`MaxTogether`): a machine that ran and a delete job that fails or dies over it,
  a machine started and suspended, two different failures. The theorems have no
  such bound. `MaxAttempts` is 2 for the code's 10: a first attempt and a last one.
  `machines_live` has neither guest nor cleanup.
* `Disks`: two create, two delete and one mount job on two workers, which is what
  `WORKER_COUNT` gives, and one mishap; seven device names (`MaxDevices`), which
  are enough for every attempt, so that the bound cuts nothing off. `MCDisks`
  cuts off what follows a lost update of the XML or a silent failure, because no
  property claims anything after those (each says so in its premise).
* `Console`: updates of one to four rectangles that contain every encoding, alone
  or after another that matters to it; the scenarios (`MCScenarios`) give the
  events either to the user (three, without drawing) or to the server, because
  input and drawing meet only in the socket; one letter, Shift and two buttons,
  which are what the lists and the mask tell apart; `keyDownList` of three.
* `MachinePage`: two visits (an old object and a new one, the most that
  `connectLoop` can confuse), two leaves, one dropped connection, one message the
  client gives up over, one close event that takes longer than a retry; a password
  that is right, wrong or missing throughout (a wrong one is refused as often as
  it is tried); two clicks, one late answer and one that is
  lost.
* `Power`: two machines, as a job is disturbed by machines that are not its own;
  two jobs with any buttons; all initial states; one event (a crash, a request sent
  again, a machine that goes or stops) in addition to what the two jobs do to each
  other. That both requests of a hard reset are sent again is beyond it; the
  theorems cover that.

**Deadlock** is checked for the lock and the connection manager, which never
rest. The other runs turn it off: when all jobs are through, the connection is
closed or the clicks are used up, nothing is left to do.

**Fairness.** `RWLock`: a thread that can go on does (the mutex is held for
moments), and holders release in the end, strongly fair because a holder may nest
again first; `connection.py` releases in `finally` blocks. `Connections`: threads
and event loop run, opening a link returns; strong fairness on the table's write
lock is what `WriterGranted` of `RWLock` provides, on `connection_state_lock` that
a `threading.Lock` does not starve one thread for ever. `Program`: workers that
are up poll every half second (`sleep_delay`), locks of dead workers expire, the
browser's timer ticks until it is cleared and its answers arrive (strongly fair,
because rails may be down now and then); exits are seen, tasks end, and *the user
starts again what has stopped*: `virtkick-start` ends with the starter, and nobody
else would. `Machines`: a request that has saved its form goes on to queue the job, queued
jobs are performed (`Jobs`), and a job that runs goes on. `Console`: frames arrive, timers fire, images load, the server answers
the handshake; neither the user nor the end of the connection is fair.
`MachinePage`: timers fire, sockets open or close, a handshake comes to one of its
ends, jobs run and answers that are not lost arrive; what a client gives up over
is bounded, so that it does not do so for ever. Failures, crashes, clicks and dropped links are never fair.

## 5 What is proved

Every invariant and every action property of a passing run is a theorem; so is
each step from a composed specification to the ones it is composed of. Liveness
is not, nor can it be with these provers.

Assumptions are those the modules name (`RWLockAssumption`,
`ConnectionsAssumption`, `EventsAssumption`, `JobsAssumption`,
`StarterAssumption`, `StreamAssumption`, `InputAssumption`, `TabAssumption`,
`MachinesAssumption`, `DisksAssumption` and the like): `None` is no thread, no
job, no machine and no device, the kinds of jobs have no job in common, the
stages of the starter are a sequence of sets of tasks, each task has commands,
images are finitely many and at least one is fetched at a time, rails and the
workers are among its services, bounds are natural numbers, Shift is a special
key. `UpdatesAssumption` is about the VNC server: an
update is a sequence of known encodings, and `last_rect` comes last. There is no
other.

| theorem | says | |
|---|---|---|
| `RWLockProofs!TypeCorrect` | types; no release takes a depth below zero | any set of threads, any depth |
| `RWLockProofs!MutuallyExclusive` | a writer excludes readers and upgraders | |
| `RWLockProofs!UpgradesAlone` | one upgrader, whose depth is kept | |
| `RWLockProofs!QueueCorrect` | the queue is exactly the blocked writers | checked by `rwlock` |
| `RWLockProofs!Refinement` | `Spec => ImplementsLock` | checked by `rwlock` |
| `RWLockProofs!WritersAreWoken` | a writer that could be served is not left asleep | checked by `rwlock` |
| `RWLockProofs!ReadersAreWoken` | only a writer's timeout leaves such a reader asleep | checked by `rwlock` |
| `ConnectionsProofs!OneObject` | one object per credentials | checked by `connections` |
| `ConnectionsProofs!LockGivenBack` | a finished call holds nothing | checked by `connections` |
| `ConnectionsProofs!LiveNotReplaced` | `Spec => ReconnectOnce`: a link that is up is not opened over | checked by `connections` |
| `JobsProofs!ProgramRunsJobs` | `ProgramSpec => Spec` of `Jobs`: kills and restarts are crashes of workers | any services, tasks, images |
| `JobsProofs!TruthTold` | the browser is told the truth | checked by `jobs` |
| `JobsProofs!StartsBounded` | only a lost run adds to the starts | checked by `jobs` |
| `JobsProofs!ProgramRunsStarter` | `ProgramSpec => StarterSpec` | any jobs and workers |
| `JobsProofs!StarterSkipsNothing` | what is marked as done was done | checked by `jobs` |
| `PowerProofs!TypeCorrect` | types; an operation is always left for a job that runs | |
| `PowerProofs!SuccessTold` | a success was carried out | checked by `power` |
| `PowerProofs!FailureTold` | a failure was not | checked by `power` |
| `PowerProofs!OnceTold` | one click, one operation | checked by `power` |
| `PowerProofs!HardResetDone` | a hard reset leaves its machine on | checked by `power` |
| `ConsoleProofs!KeysListed` | a key the server holds is in the list | of the input by itself |
| `ConsoleProofs!ButtonsMatched` | the mask is what is held | of the input by itself |
| `ConsoleProofs!PageRunsInput` | `Spec => InputSpec`: the page's input is that of `RFBInput` | any server and stream |
| `ConsoleProofs!NoPageKeyStuck`, `PageButtonsMatch` | both, on the page | checked by `console` |
| `ConsoleProofs!GoneIsSaid` | a closed connection is shown as one | checked by `console` |
| `ConsoleProofs!PaintsInOrder` | no rectangle is painted over a later one | checked by `console` |
| `ConsoleProofs!NothingIsMisread` | no bytes are taken for something else | checked by `console` |
| `MachinePageProofs!LeftIsQuiet` | of *all* objects only the watched one, and those a click replaced while they were watched, have a connection | checked by `machine_page` |
| `MachinePageProofs!WatchedIsTried` | a watched console is connected, waits for a password or has a retry before it | checked by `machine_page` |
| `MachinePageProofs!LiveIsKept` | in a visit that is not hasty only the user, the machine, the network or a message the client gives up over end a live console | checked by `machine_page` |
| `MachinePageProofs!PageRunsTabs` | `Spec => TabSpec /\ PowerSpec`: each tab does what it does by itself | |
| `MachinePageProofs!StateIsCurrent` | the shown state is one since the job ended | checked by `machine_page` |
| `MachinePageProofs!SpinnerIsRight` | the spinner turns until the mount is told | checked by `machine_page` |
| `AccountsProofs!OwnDeleted` | a domain is removed only for a machine of its own form (`rivals` and early destruction excepted) | checked by `machines` |
| `AccountsProofs!ListedIsWhole` | what is listed has its domain and its disk (`rivals` and early destruction excepted) | checked by `machines` |
| `AccountsProofs!DeletedStaysGone` | what was deleted is gone, also if it ran (`spared` excepted) | checked by `machines` |
| `AccountsProofs!NothingOfGuest` | nor does a destroyed guest leave anything, with the same exceptions | checked by `machines` |
| `AccountsProofs!NothingOrphaned` | nothing is left over when nothing fails or dies (`rivals` and `spared` excepted) | checked by `machines` |
| `AccountsProofs!FailedMadeNothing` | a form that is reported as failed has no machine (`Spec` of `Machines`) | checked by `machines_live` |
| `DisksProofs!DisksHaveVolumes` | a machine's disks have volumes | checked by `disks` |
| `DisksProofs!NothingLeftOver` | no volume is left when nothing fails | checked by `disks` |
| `DisksProofs!DeletesRightDisk` | the disk that goes is the one the user saw | checked by `disks` |

*The lock.* The inductive invariant is `TypeOK`, `MutualExclusion`,
`SingleUpgrade` and `QueueIsBlockedWriters` strengthened by two facts: the
writer's depth is positive exactly while there is a writer (`WriterDepth`), and a
thread that is blocked holds neither the write lock nor a read lock, its own
depth being kept in the upgrade slot (`BlockedHoldNothing`). Without the second
an upgrade that is granted could overwrite a depth. Three lemmas about queues
(append, tail, removal from the middle) carry the FIFO. The refinement maps every
step to one of the abstract lock or to a stutter: waiting, waking and timing out
do not change who holds what, since `Holding` counts the upgrader as a reader.
The wake-ups need nothing more: `WritersSleepForAReason` is inductive relative to
this invariant, because whatever makes the lock free also wakes everybody
(`ReleaseWakes`) and whatever else a thread does leaves a holder, or the head of
the queue awake. For readers the same holds of every step but `TimeoutWrite` and
`TimeoutUpgrade`, which is what `OnlyTimeoutsLoseWakeups` says.

*The connection manager.* `UniqueObject` is not inductive: it depends on the
second search still being right when the object is inserted. `Inv` says what a
thread may hold at each point (`LockDiscipline`), that a writer is alone
(`Exclusive`), and that a thread between the second search and the insertion has
*still* no object of its credentials in the table (`SearchCounts`), which is kept
because nobody else can insert one without the write lock. For `ReconnectOnce`
`LinkInv` adds that one thread at a time is inside `connect()` of an object, and
that a link it found down stays down until that thread opens one.

*Power.* `IInv` relates how many operations were carried out to how many were
answered: at least as many unless a machine was deleted (`AtLeast`), at most as
many unless the job was run or sent again (`AtMost`). What makes it inductive is
`ListHolds`: the machines on a list that is being made are there, and active,
unless one was deleted, or stopped, since; so a page fails only for a reason that
`met` has recorded. `InOrder` says that what is asked for comes before the
redirect. For `HardResetEndsOn` `ResetInv` adds `StartedAgain`: between the
redirect of `start` and the end of the job the machine is on, unless the job has
met with a stop, or with another job's touch, of that machine.

*Jobs.* What is told must be traced through three stores. The invariant says at
each point of a worker what its job's row, lock, attempts and starts are
(a performed job is behind every finished row, a last attempt behind every row
with an error), that only one worker has a job, and that an answer on its way, or
told, was once true of a row and stays so. The count of starts is the attempts,
plus one for a run in progress, plus the runs that were lost with a worker. It is
proved of `Jobs`, whose crashes take any set of workers, and carried to `Program`
by `ProgramRunsJobs`. `NothingSkipped` is proved of the starter in the same way.
Its invariant adds that the tasks of all stages before the present one are
through (`StagesDone`), that services are up only under a starter that is
(`ServicesFollow`), and that a download that is over is on the disk unless a
signal has ended one (`OverIsFetched`).

*The console.* `KeysListed` needs that a keydown without a keysym yet is the last
of the list; `ButtonsMatched` that the capture flag is set exactly while a button
is held, which is where the premise about two buttons comes from. `ConnInv` ties
the states of the page to those of its socket, one closed exactly in a state of no
connection, and says what else goes with each. With it `GrabInv` follows the
handlers: they are installed once, at the end of the handshake, and go for good.
So a step of the page is a step of its input (`PageRunsInput`).

What is painted and what is read follow the bytes from the server to the screen,
for any server that keeps to the protocol, any updates, and any frames. Both
proofs look at the queue and the wire as one stream, `rQ \o wire`, of which a
frame moves the border and nothing else.

`PaintInv` says that the reader of that stream is in `PaintSafe`: its rectangles
come in the order of their numbers (`InOrder`), those that are drawn at once come
after no image that waits or may have to (`Clean`, which is what `mixed` denies),
and the display's queue continues the order of the canvas (`Ordered`). Each turn
of the loop over rectangles, and each of the render queue's, keeps that.

`ReadInv` says what the rest of the stream means to who reads it. The grammar of
the protocol is an automaton (`Spots`, `Onto`) and `Read` the spot it comes to.
In the handshake page and server agree on how many tokens are still to come and
on what the page has said that is not answered (`Agreed`). From then on the
stream leads the reader from where its `FBU` says it is to the end of a message
(`Read(Where(FBU), Stream) = Message`), so the next token is never one it does
not expect, as long as it remembers where it is. It forgets that only at the end
of a frame, hence `Firm` (what was received does not end in front of the first
part of a COPYRECT or RRE rectangle, or inside a colour map's five bytes) and
`Remembered`. `Challenged` adds what a page that knows a password waits for: a
challenge, as long as the form is submitted once. Submitted again, the page may
take the reason of a refusal for a second challenge, and `ReadInv` says of
confused pages that this is what happened (`confused => again`), unless a frame
ended badly (`torn`).

*The console tab.* `TabInv` is about every object alike: one that is not in a state
of a connection has no live socket (`Closed`), and one that is in such a state is
the watched one or was replaced while it was watched (`Known`); with them
`NeverStuck` is inductive. `LiveIsKept` is an action property: the steps that
end a live connection are split by what they were caused by. Its invariant
`KeptInv` adds `Calm`, for visits that are not hasty: all earlier objects are down
and have no timer (`Before`), a left one is down or on its way (`Left`), and of the
watched one the timers and sockets go with its state (`Watched`), so that neither a
retry nor a late close event is there to end it.

*The power tab.* Without haste, and with no click lost, only the last click counts
(`EarlierOver`); as long as its job is queued nobody has been told of it
(`LastAsked`), so a state is asked for only when the job has ended (`AskedSince`).
`ShownOrComing` then says that what is shown is a state since the end, or is still
going to be replaced by one, and `SpinnerRight` for which clicks the spinner
turns. `PageRunsTabs` carries both tabs to the page.

*Machines and accounts.* Every property but `EventuallyReported` is proved, for
any number of forms, hosts and deletions and any bounds. The core is `Owned`: of
two forms that are valid or saved and ask for one hostname, both are `rivals` or
none has been saved (`OneForm`), and whatever is there under a hostname (a domain,
a row, a job, a deletion at work) belongs to a form that is saved, and so, rivals
apart, to that one. It is kept because a form that is validated alone finds the
hostname taken by any that is saved, and because a guest who is not destroyed too
early has nothing under way: that is what `TooEarly` is about, and the step
`Commit` is where it is used. `StopInv` says that between the stop and the
undefine a deletion's domain is not active unless it is `spared`; so undefining it
removes it. `GoneInv` then needs no `Owned`: a run of a create job defines its
domain before it saves its row, so what has had a row is never defined again
(`Past`), and a deletion that is past the hook has seen its domain go (`Gone`),
unless a call failed silently or the domain is `spared`. TLC and this proof showed
that dying workers, which the property once excused, cannot break it.
`DiskInv` follows a create job to its row, `CalmInv`
follows every domain and every volume to the row they are for. `FailedFirst` says
that no loud failure is left for a job that has saved its row.

*Disks.* All three properties are proved, for any number of jobs, workers and
attempts. Each rests on `Core`: a device a create job is adding has a volume, is
not in the XML and is nobody else's; one that a delete job is for is in the XML
until that job takes it out, and has its volume until that job deletes it. It
is inductive while no update of the XML is lost and no two delete jobs in hand
have one device (`Apart`). The premises of the properties give that in two ways:
`Distinct` directly, and `AllOnce` through `Right`, since jobs that are for
different disks, and still find them under their devices, have different devices.
`Used` follows every volume to the disk, or to the job, it belongs to.

*Recursion.* What a recursive function computes is proved here without the
library's induction theorems, which take operators as parameters. `LeastNumber`
follows from the well-foundedness of the numbers, as a fact about *sets*, and
`Induction` from that. `Recursion` and `Loop` say, for a set of arguments with a
measure that shrinks, that the function exists; `LoopEnds`, that what each turn
keeps holds of the argument at which the function returns. `Scan`,
`FramebufferUpdate` and the grammar's `Reading` are instances, each by a lemma
that its turns shrink (`ScanShrinks`, `TurnShrinks`, `ReadingShrinks`).

Only model-checked: liveness (`WriterGranted`, `CallReturns`, `EventuallyTold`,
`EventuallyReported`, `EventuallyShown`, `HandshakeEnds`, `BackOn`), which needs
fairness and `ENABLED`. The properties that the code violates (section 6) are of
course not proved either.

## 6 What the work has shown

Three disagreements between the code and what its comments promise, each with a
run whose counterexample shows it (`findings`):

* a writer that times out leaves readers asleep although they could be served:
  `rwlock.py:178` says that there is "no need to signal anyone"
  (`connection.py` passes no timeout, so that today nobody meets it);
* `get_connection` may return `None`;
* the close callback of a link that failed may throw away the connection another
  thread has reopened meanwhile.

What else the models contain, and no document contradicts. The premises of the
properties name these cases.

* *Machines.* Two forms with one hostname, validated at the same time, are never
  reported: their rows are invalid, and every update of them is refused. Nor is one
  whose web process died before it had queued the job: the form stays pending and
  keeps its hostname for good. A create
  job whose worker died before the row was saved leaves a domain nobody lists,
  and the job that runs again finds the name taken; if it died after that, it
  reports a failure for a machine that is listed. A machine started between the
  stop and the undefine of its deletion goes on running, undefined, its row gone;
  one that is suspended then, too, since the view stops only what has status 1.
  A silent failure deletes the row and keeps the domain.
* *Accounts.* A guest destroyed while his create job runs leaves a machine whose
  row belongs to nobody. Worse, his `NewMachine` rows go with him and free the
  hostname: if a delete job of his is under way then, or a failed form of his had
  left a domain, the next user of the hostname gets that domain for his own, or
  loses his machine to that job. Without the cleanup the row of the form keeps
  the hostname taken for good, which is what `DeletesOwnMachine` rests on.
* *Volumes of deleted machines stay.* `Wvm::Machine.delete` posts
  `delete_disk: ''`, and `instance/views.py:515` takes an empty value for a no
  (the backend's own form posts "true").
* *Disks.* Of two jobs that overlap on one machine the XML of one is lost. A
  delete job that is repeated, or requested twice, deletes whatever disk has the
  device's name by then; the job's own comment warns of it. A volume left over by
  a failed job blocks the next disk, whose volume would have the same name. On a
  paused machine an image is not mounted, and the job reports success.
* *Power.* `restart` reports success and does nothing: the backend knows no such
  operation. An operation is dropped without a word when another machine is
  deleted while the page lists it; one that was carried out is reported as failed
  when another machine stops meanwhile. Two pages that find a machine without a
  row give it two, and from then on no page that lists it works.
* *Jobs.* A `run_once` job is started again after its worker died. A job whose
  Progress row is deleted is performed until its attempts are used up, because the
  success hook raises each time.
* *The starter.* When a service exits while images are fetched, the downloads are
  killed, count as done, and `.isos-done` keeps the cut-off image from ever being
  fetched again; a task killed by a signal counts as done in the same way.
* *The console page.* A COPYRECT or RRE rectangle whose header ends a frame is
  read wrongly. An older TIGHT image may cover a newer rectangle of another
  encoding. With two buttons held the guest keeps one of them down. A password
  sent twice leaves the handshake waiting: a result is too short for a second
  challenge, and the reason of a refusal is taken for one.
* *The machine page.* A second click on *Console* replaces the object without
  disconnecting it: its connection stays open when the user goes to another tab
  (`AwayIsQuiet` excepts it as `abandoned`). A click while something of an earlier
  visit is under way, or a retry before the close event of a connection the client
  gave up, may end the new connection, which is then tried again. A server that
  asks for a password the page does not have leaves the console waiting without a
  retry and without a word. With two
  clicks in a row, or a lost post, the shown state may be one the machine has
  left; a failed POST has no handler and leaves the made-up state. *Hard stop*
  and *Hard reset* are no keys of `actions`: the handler throws and the link is
  followed as a plain form. `form.find('fa-warning')` lacks its dot and finds
  nothing.
* *The lock.* Writers that keep coming starve the readers. This is meant, but a
  request for a host of an unsupported type takes the write lock every time.

## 7 What is not modelled

Listed with its reason in `PROJECT.json` (`components`, status `not_modelled`).

* The backend's own pages for creating, cloning, migrating and configuring
  machines, for pools, networks, interfaces, secrets and hosts: VirtKick's webapp
  calls none of them. What would be hard there: a failed create form leaves a
  cloned volume (`create/views.py:133`); a migration with `xml_delete` undefines
  the machine at its source first (`instance/views.py:606`); a pool is defined,
  started and marked in three calls (`storage.py:52`); the gateway of a network is
  chosen by the last character of its address (`network.py:15`).
* Plans, defaults and the machine document are static; `IpReserver` is called by
  nothing; the VNC proxy forwards bytes; charts and host details only read;
  templates, locales and deployment scripts have no behaviour of their own.
* Vendored libraries: IPy, jQuery and its plug-ins, Bootstrap, highcharts. They
  are a large part of the JavaScript in the tree (jQuery alone has 9 789 lines),
  and none of it is VirtKick's. The exception is the noVNC client, which the two
  console pages are made of and which was changed for them. Within it
  `jsunzip.js` and `des.js` compute a function of bytes, and `ui.js` is not used.

Left out within the modelled components: the storage tab, children of the starter
that cannot be spawned, SIGKILL of the starter itself, touch screens and the
wheel, pixels, repeaters, the session cookies, wording, the layout of XML beyond
devices and image, sizes and plans, authentication, live and persistent XML that
differ (`Disks` takes them to name the same disks), attempts beyond two, more
than one disk in `Machines` (they are in `Disks`).

## 8 Plan

Done, in this order: lock, connection manager, jobs, machines, disks, power, then
the console page, the machine page, the starter with the jobs on it, and the
accounts, with proofs of everything about their safety that is checked.

What could follow: an abstract *machine store* (absent, coming, listed, going) for
`Machines` to implement under the failures it stands; and the backend's own forms,
if the webapp ever comes to use them.

## 9 Running it

    tlasany Machines.tla                                  # parse
    tlc -workers 4 -config Machines.cfg MCAccounts        # check
    tlapm PowerProofs.tla                                 # prove

`PROJECT.json` lists which module and configuration belong to which run. The
proofs take a few minutes from nothing.
