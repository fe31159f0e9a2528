# Verification of InPurity

TLA+ models of InPurity (the Python sources under `src/src`), their TLC checks, and
theorems checked by TLAPS. Line numbers below are those of this repository's
commit; `MS` is `main_service.py`, `DS` `daemon_service.py`, `PM` `proxy_mitm.py`,
`FM` `forbid_manager.py`, `DB` `db_manager.py`, `PC` `proxy_config.py`, `AI`
`ai_detect.py`, `RM` `registry_monitor.py`.
`PROJECT.json` maps each definition to the lines it stands for.

## The system

| Component | State it keeps | Operations | Hard behaviour |
|---|---|---|---|
| Blacklist cache and forbid events (`PM`, `FM`) | `blacklist_cache`, `dangerous_count`, `img_forbid`, `req_forbid`, `forbid_timer`, `cache_refresh_paused`; table `black_site`; the event file | `_refresh_blacklist_cache`, `add_to_blacklist`, `set_forbid`, `reset_forbid`, `_check_active_forbid_events` | four threads, one lock; the process dies between statements and restores a ban |
| Page statistics (`PM`) | `site_stats`, `site_timers` | `_handle_image_response`, `print_final_stats` | a `Timer` cancelled too late |
| Hooks (`PM`) | none of their own | `request`, `responseheaders`, `response` | they read the flags and the cache without a lock |
| Event file (`FM`) | a memory-mapped encrypted file | save, expire, read | a rewrite zeroes the file first |
| Database manager (`DB`) | the connection pool; tables `black_site`, `config` | `get_connection`, `release_connection`, `execute_query`, `safe_execute`, fetches, settings | the lock is held while a caller waits |
| mitmdump supervision (`MS` 96-193, 528-565, 812-925) | `mitmproxy_process`, `running`, `stop_event` | `start_mitmproxy`, `stop_mitmproxy`, `stop`, the main loop, RESTART | three threads, no lock, processes outlive the service |
| Configuration tool (`PC`) | rows of `config` | `port`, `upstream`, `setopt`, `delopt`, `restart` | settings are written and read one by one |
| Services, watchdogs, token (`MS`, `DS`, `watchdog.py`, `security.py`, `uninstaller.py`, `setup.iss`, `install_script.py`) | running services and watchdogs, token file with its age | start, stop, restart, verify and delete the token | everyone restarts everyone while a setup stops everyone |
| Registry guard (`DS` 136-161, 213-500, `RM`) | `monitor_threads`, per user a monitor thread with its handle and `stop_event` | scan, add, remove, put the settings back, `stop` | users come and go with their hives; changes during a correction; a lock held over a join |
| Image predictor (`AI`; the hook `PM` 276-310) | worker pool and its queue, `image_cache`, `batch_queue` | `predict_async`, `predict_image`, `_predict_gif`, the batch thread, `_perform_cleanup`, `cleanup` | nested submission to a bounded pool; two time-outs of the same length |
| GUI pipe and browser scan (`MS` 195-481, `gui.py`, `detector_*.py`) | pipe handle, caches of confirmed browsers | scan, send, confirm | handles closed by one thread and used by another |
| Log manager, keys, installer, helpers | files | | sequential |

Interactions: the daemon service and the watchdogs keep the main service running;
the main service starts mitmdump, which loads the addon (`InPurityProxy`); the
addon judges images with the predictor, counts them per page, blacklists sites and
starts bans; the tool changes settings in the database and sends RESTART over a
socket to the main service.

What makes each part correct: nothing is blocked that was not blacklisted, and
nothing blacklisted is let through; a ban is in force until it ends, across
restarts, and does end; each page is judged once, with true counts; a pooled
connection has one user and every call returns; one mitmdump runs, with the latest
settings, and none when the service has stopped; services come back unless the
uninstall token is valid, and stay down when it is; the proxy settings of every
logged-on user are put back; a prediction returns.

## Modules

| Module | What it models | Extends |
|---|---|---|
| `ForbidControl` | blacklist cache, refresh, bans, event file, restart | instantiates `BanLadder` |
| `BanLadder` | abstract: each saved ban outranks all that are in force | |
| `SiteStats` | the statistics and timers of the pages | instantiates `PageVisits` |
| `PageVisits` | abstract: a visit is a set of images and ends with one verdict on them | |
| `ConnectionPool` | the pool of `DatabaseManager` | instantiates `ConnectionLease` |
| `ConnectionLease` | abstract: a connection is lent to at most one caller | |
| `ProxyConfig` | the settings and the tool's commands | |
| `MitmSupervisor` | the threads of the main service that run mitmdump | `ProxyConfig` |
| `ServiceSupervision` | both services, their watchdogs, the uninstall token and a setup | |
| `Predictor` | the worker pool, its cache and batch thread, and the hook that waits | instantiates `ImageVerdicts` |
| `ImageVerdicts` | abstract: each image gets one outcome, only an improper or unjudged one a 403, and no unjudged one passes as clean | |
| `RegistryGuard` | scanner, monitors per user, corrections, `stop()` of the daemon service | |
| `MC*` | symmetry, pictures and initial states for TLC | the module of the name |
| `*_proofs` | theorems | the module of the name |

### ForbidControl, BanLadder

An action is one stretch of code between two points at which another thread or a
crash can make a difference. `Start`, `InitCache`, `ExpireAtStart`, `Restore` and
`ArmRestored` are `__init__` (PM 60-103) in thread `main`. The thread
`refresher`, and `reset` when it ends with a refresh, run `RefreshCheck` (the test
of `cache_refresh_paused`, outside the lock), `RefreshRead` (under the lock, from
here held), `RefreshSwap` or `RefreshFails`. The thread `finalizer` is
`print_final_stats` after the verdict: `Insert`, `InsertFails`, `CacheAdd` (the
blacklist), then `Cancel`, `SetFlag`, `Escalate`, `SetTimer`, `Pause`, `SaveEvent` or
`SaveFails` (`set_forbid`). `Fire`, `ClearFlag`, `Resume`, `ExpireAtReset` are the
forbid timer and `reset_forbid`, which ends there with an AttributeError
(`blocked_words` does not exist). `Tick` is the clock, `Crash` a kill at any
step, also in the middle of a rewrite of the event file, which then is empty.

Time is what timers and events have left, in units of the ten minutes of
`set_forbid`; the milliseconds between the start of the timer and the start time of
the event are taken as none. What `request` and `responseheaders` decide from the
state are the operators `RequestKilled` and `MediaKilled`.

`BanLadder` is what the saved bans promise to who restarts the process: a ban that
begins has a higher count and ends later than all in force, and is of requests if one of
them is; time passes for all at once; and they are lost together (the file cut off
in a rewrite) or not at all. The mapping (`bansNow`) is the events that have time left. So
restoring only the event that ends last, as `_check_active_forbid_events` does, is
enough.

### SiteStats, PageVisits

`CleanImage` and `ProblemImage` are `_handle_image_response` with its prediction,
`Fire` a `Timer` that runs out and whose thread then waits for `stats_lock`,
`Finish` the body of `print_final_stats` under that lock, `Tick` the clock. Two such
threads of one page may wait at once. The blacklisting and the ban that follow a
verdict are those of `ForbidControl`.

`PageVisits` has neither counters nor Timers: a visit is the clean images and the set of
problem images of a page since its last verdict, and the verdict is on exactly those.
The mapping takes them from the history variables `clean` and the recorded features of the
page; a finalizer that finds its page already judged is a stutter. A page above 60% is
listed and one below is not; the verdict at exactly 60% is left open, as the code (PM 383:
more than 0.6) and the repository's README (line 10: 60% or more) disagree there.
`ListedAtSixty` states the README's side, and `site_ratio` shows that the code does
otherwise.

### ConnectionPool, ConnectionLease

`GetPooled`, `StartWaiting`, `LookAgain` and `OpenTemporary` are `get_connection`
(each look at the pool, and the sleeps between them with `pool_lock` held), `Run`
the statement outside the lock with its two outcomes, `Release` is
`release_connection`; `Call` begins a call with one try (`execute_query`, fetches) or
two (`safe_execute`). `Boot` is `_initialize_db`, which takes a connection and
never releases it. The refinement mapping shows a caller's pooled connection as
lent and a temporary one as none.

A caller that finds the pool empty sleeps and looks again with `pool_lock` held (DB
100-108), which `release_connection` needs. `WaitsInVain` says what follows: while anyone
waits no connection is idle, so no later look can find one, and all waits end with a
connection outside the pool. `CallsReturn` shows that every call returns all the same.

### ProxyConfig, MitmSupervisor

Each read of `self.mitmproxy_process` is an action of its own, as another thread may
change it in between: `Stop`, `Terminate`, `Wait`, `ForceKill`, `Forget`, then the sweep
over all mitmdump processes in `Sweep` (find) and `KillAll` or `KillRaises` (a
process that is gone makes `os.kill` raise), then `ReadPort`, `ReadEnable`, `ReadServer`
or `ReadFails`, and `Popen` or `PopenFails`. `Raise` is where an exception goes: in
the main thread to `stop()`, in the socket thread to the end of the thread or, for an
OSError, to its loop, and in `stop()` to its `finally`, with the rest of the cleaning
up left undone (`cut`). `LoopLook` and `Poll` are the main loop, `Accept`
and `Leave` the socket thread, `SvcStop` a stop request with a valid token,
`ProcessEnds` the end or a kill of the service process. `Bind` and `End` are
mitmdump itself: it listens, or ends at once because its port is taken or its upstream
server is `None`, or ends by itself later. The tool (`Configure`, `SendRestart`) runs
one command at a time; `cmd_upstream` with a URL is two writes.

`PortCommand` is `get_proxy_port`: a configured port that is taken, by a mitmdump another
thread has started since the sweep of this one, makes it fall back on the default port, which
it does not check. Two mitmdump processes then live side by side, and the service knows one.
So `SettlesOnOne` says that at last the known one runs and no two share a port, and
`LatestConfigServed` that the known one has the latest settings, on the configured port or,
after such a fallback (`instead`), on the default one.

### ServiceSupervision

A service has two parts that overlap: the manager of its watchdogs (`pc`: `Scan`,
then rounds of `Check`, `Verify` and `Create`, one watchdog at a time) and its
status (`status`: `Request` and `MainFails` begin `stop()`, `KillDogs` is
`stop_all_watchdogs`, `Stopped` its end). The daemon service also deletes the token
when it starts (`DeleteToken`) and does not look after its watchdogs while one is
valid. A watchdog looks at the main and the daemon service in turn (`DogLooks`), takes
the lock of one that does not run (`DogLocks`) and starts it (`DogStarts`). The
setup writes a token (`WriteToken`, or goes on without), asks the services to stop
(`StopDaemon`, `StopMain`), may be cancelled (`Cancel`), asks again before it removes
them (`RemoveDaemon`, `RemoveMain`) and starts them anew (`Install`). `Crash`, `DogDies`,
`MainFails` and `StopFails` are the faults.

Taken for granted: creating a watchdog succeeds; a new process of a service takes
longer to start than the manager of the old one takes to end; a registered service can
be started. A service between its removal and its registration, which cannot be started,
is taken as a stopped one, which can.

### Predictor, ImageVerdicts

A picture is the sequence of its frames, and a still a member of a set of which some
are improper; the network is that set. `task` is everything submitted to the pool, oldest
first, with where the worker is that has it. `Ask`, `Hear` and `HookTimesOut` are
`_handle_image_response` up to the answer (PM 303-310, 357-362): mitmproxy calls its hooks
from one thread, so one picture is waited for at a time. `Take` is a worker that takes the
oldest task, `Hit`, `Miss`, `Finish` and `RunFails` are `predict_image` for a still,
`SubmitFrame`, `GifFails`, `GifFound` and `GifPasses` are `_predict_gif`, with the frames
at the end of the queue of the pool it runs in. `BatchTake`, `BatchAnswers` and
`BatchFails` are the batch thread, `BatchTimeout` a worker's `future.result(timeout=60)`
(AI 306). `Shed` is `_perform_cleanup`, whenever it may come. `Shutdown` and
`ShutdownEnds` are `cleanup`, which waits for the workers.

Both waits are 60 s (PM 307, AI 306) and start at different moments, so either may end
first: `HookTimesOut` and `BatchTimeout` may come in any order. When the hook's ends first the
picture is let through (PM 357), as `timeout`; when the worker's does, its `True` makes the hook
answer with a 403 (AI 308-310). The frames of a GIF may time out likewise, and `_predict_gif`
takes the first `True` it finds for the GIF. That test, `result is True` (AI 358), holds of the
literal `True` of a batch timeout, never of the numpy bool of a verdict: the GIF whose frame was
*judged* improper counts as clean, against the comment at AI 356 (`IsTrue`, `GifPasses`). No run
is spent on this, as it is one local operation.

`ImageVerdicts` is what the hook promises mitmproxy: one picture is asked about at a
time and its outcome stays; it is "forbidden" (a 403) only if it is improper or was left
unjudged by a batch; and it is "passed", an answer as opposed to a timeout of the hook, only if
neither it nor a frame of it was left unjudged. So the safe side of AI 308-310 is not lost on
the way, from a frame's worker through the GIF's to the hook. The mapping keeps
the pictures the hook asked for, by ticket (`verdictsNow`), and those with a blocked part
(`UnjudgedNow`), and hides frames, queue, cache and batches.

Abstracted: the session each thread has and its warm-up; the hash of a still is the
still; a GIF of one frame is a still, as for `is_animated`.

### RegistryGuard

Two values of each user, `ProxyEnable` and `ProxyServer`, are written by the user
(`Tamper`), and by the guard. `ScanLists` takes a listing of the accounts, which may lack some
when an account cannot be looked up (DS 375, 420), and `ScanCompares` reads the list of the
monitored again (DS 310), which `stop()` may have emptied since; `AddSet`, `AddStart` and
`AddRegister` are `_add_user_monitor` (the settings are written before the thread
starts, and the list is written after), `RemoveBegins`, `RemoveEnds` and `RemoveSkips` are
`_remove_user_monitor`, which joins the thread with the lock held. A monitor opens its
key (`Open`, RM 34-38), registers (`Arm`), takes a notification and reads the values
(`Look`), compares them with the port as it is then (`Check`) and writes both
values one by one (`FixEnable`, `FixServer`, `FixFails`), and once per value that differs
while it fails (DS 286-295); `StopSeen` is its end. `StopBegins`, `StopJoined`,
`StopOne`, `StopOneEnds` and `StopClears` are `stop()` (DS 136-153).

Taken of Windows: it records what happens to a key from the first
`RegNotifyChangeKeyValue` on a handle, also between two waits; unloading the hive at
logoff signals the wait and leaves the handle dead. `unseen` is the history that tells
which changes no monitor can hear of: those made before it listens (DS 443), a
configured port that moves, a correction that failed. A scanner outlasts the 10 s of its
join only while it is at work. A monitor that outlives the join of its removal has
been told to end, and is not followed further.

## Runs

| Run | Result | Shows | Bounds |
|---|---|---|---|
| `forbid_control` | pass | `CacheSound`, `BanInForce`, `BanHasEnd`, `NeverUnblocked`, `BanSpec` (refinement), `Recovers` (liveness) | 2 hosts, 2 bans (one of images, then one of requests), statements may fail |
| `forbid_overlap` | violation | `BanAlwaysInForce`: `cancel()` does not stop a `reset_forbid` that has begun | 1 host, 2 bans |
| `forbid_stale` | violation | `BlacklistEnforced`: a restart during a ban brings back an old cache and pauses its refresh | 2 hosts, 1 ban |
| `site_stats` | pass | `WillBeFinished`, `CountsAgree`, `BoundedVisit`, `VisitSpec` (refinement), `EveryVisitFinished` (liveness) | 1 page, 4 features, 6 images, 3 late threads |
| `site_ratio` | violation | `ListedAtSixty`: five images, three of them improper, do not list the page | 1 page, 3 features, 5 images, 1 late thread |
| `connection_pool` | pass | `MarksAreLeases`, `OneConnectionLost`, `WaitsInVain`, `LeaseSpec` (refinement), `CallsReturn` (liveness) | 3 threads, 3 connections, 2 looks, 2 tries |
| `supervisor` | pass | `NeverForgotten`, `StopKillsEarlier`, `SettlesOnOne` and `LatestConfigServed` (liveness) | 2 ports, 1 server, 1 change, 1 RESTART, 1 process that ends by itself, 3 processes |
| `supervisor_orphan` | violation | `StopsProxy`: a process started after the last sweep outlives the service | no changes or failures needed |
| `services` | pass | `KnowsItsDogs`, `Heals` (liveness): what was killed is started again; `SetupHolds`, `SetupEnds` (liveness): a setup stops both services for good | 1 watchdog of each service, 2 faults or 1 setup (`Apart`), a token that expires at any time |
| `predictor` | pass | `CacheSound`, `StuckOnlyLate`, `VerdictSpec` (refinement), `Drains` (liveness): hook and pool come to an end with every picture | 2 workers, 2 pictures out of an improper still, a clean one and a GIF of 2 frames, cache and batch of 2 |
| `registry_guard` | pass | `NothingMissed`, `NobodyForgotten`, `Found`, `Corrected` and `StopReturns` (liveness) | 1 user, 2 logons, 2 changes, 2 ports, 1 failure |
| `registry_relogon` | violation | `Guarded`: after a logoff the user keeps an entry whose monitor has ended, and gets no other | 1 user, 2 logons |

Each module's type invariant is checked by one of its passing runs. Every property has a
mutant in `PROJECT.json`: a plausible bug of the code which makes it fail. The
mutated forms stand beside the definitions, marked "Mutant".

Why the bounds are enough. *ForbidControl*: hosts do not interact but through the one
cache and its snapshots, so two show every order of one host against another; two bans let
a request ban follow an image ban, the flag and timer of the one be still there when the
other begins, and an earlier event outlive a restart; the clock units are small but keep a
later ban longer than an earlier one, as in the code. The theorems hold for any number of
hosts and bans and the code's own lengths. *SiteStats*: pages share nothing but
`stats_lock`, under which each action runs, so one page shows all; six images cross the
threshold of three and the ratio of 0.6 from both sides. *ConnectionPool*: with the lost
connection, three threads exceed the two that are left, so waiting and temporary
connections occur. *MitmSupervisor*: with one RESTART the three threads each start or stop
a process; each process number in use is that of a process alive, known, or found, and
three never run out with one RESTART. With a second port the settings move between the
configured and the default one, a second start falls back while the first one's mitmdump holds
the port, and a lost process stays beside the known one. The initial settings in
`MCMitmSupervisor` are cut to two kinds from which one command reaches the rest.

*ServiceSupervision*: one watchdog of each service is enough to start either; two
faults can take a service and the watchdogs of the other; a setup lasts long enough for
every order of its steps with those of services and watchdogs. `Apart` keeps faults and
setups out of one behaviour: the setup's properties are stated of calm setups, which
have none. The theorems are for any watchdogs, with and without `Apart`. *Predictor*: two
workers and two pictures are the smallest pool that can lock up, and a cache of two is
evicted from, refilled and hit; both GIFs and stills are asked for after a timeout.
*RegistryGuard*: users share the scanner, the lock and `stop()`, but no monitor reads
another's state; one user with two logons meets each monitor state with each scanner
state, and the theorems hold for any set of users.

Deadlock is checked in all runs but those of `ServiceSupervision`, `Predictor` and
`RegistryGuard`. In the first, services and watchdogs may all be down, and then nothing
starts them but a setup; the second ends with the shutdown, or locks up, which
`StuckOnlyLate` and `Drains` are about; the third ends with `stop()`.

## Fairness

Threads run, and time passes: weak fairness of each thread's steps, of timers and of the
clock. Locks: a thread that waits for a lock that is free again and again gets it (strong
fairness on the steps that take one). `ForbidControl` also takes it that a fetch tried
every 300 s succeeds at last, and that the process, when down, is started again, which the
main service does. `MitmSupervisor` is fair to its threads and to the coming up of
mitmdump, `ServiceSupervision` to managers, `stop()`, watchdogs and the age of a token,
not to the setup. `Predictor` is fair to the hook, the workers and the batch thread, whose
waits all have a timeout except the one for frames; `RegistryGuard` to the scanner, to
each monitor and to `stop()`. No fairness makes a user visit a page, a token appear, a
RESTART be sent, a user log on or a process crash. `Recovers`, `SettlesOnOne`,
`LatestConfigServed` and `Heals` are stated of behaviours that at last stay up and
healthy, since nothing prevents endless crashes.

## Exceptions written into the properties

They are behaviours of the code that the passing properties have to step around:

- `overlap` (`BanInForce`): see `forbid_overlap`.
- `overrun` (`BanHasEnd`, `Recovers`): an event restored at start that expires before
  its timer is set (PM 83-89) leaves flag and pause in place, with no timer, until
  the next ban or restart.
- `instead` (`LatestConfigServed`): the known mitmdump on the default port, since a lost one
  holds the configured port; and `OnePerPort` (`SettlesOnOne`): the lost one itself, which
  lives on until the next stop or RESTART sweeps it.
- `cut` (`StopKillsEarlier`): an exception in `stop()` skips the rest of it.
- `failed` (`NeverForgotten`): after a `Popen` that fails, or a RESTART that ends in an
  exception between setting `mitmproxy_process` to None and `Popen`, the main
  loop, which skips None, never starts mitmdump again.
- `raced` (`LatestConfigServed`): a RESTART taken while the main thread has read the
  settings and not yet called `Popen`; main's process may come last, with the old ones.
- `calm` (`SetupHolds`, `SetupEnds`): the setup writes its token while no manager is
  between its look at the token and the watchdogs it then creates (DS 565-570), no
  process fails, the user does not press Cancel, and the token does not expire before
  the managers have ended. A watchdog created too late restarts the daemon service,
  which deletes the token, and both services are up again in the middle of the setup.

- `Stuck` (`Drains`) and `StuckOnlyLate`: `_predict_gif` waits in a worker for frames
  that need a worker (AI 352-357). A pool whose workers all hold GIFs is locked up for
  ever; since the hook asks for one picture at a time, that takes as many GIFs as workers,
  of which the hook has given up on all but the last.
- `unseen` (`NothingMissed`, `Corrected`): see `RegistryGuard` above.

## Theorems

All for any values of the constants that satisfy the modules' assumptions; each
follows from an inductive invariant by one step lemma per action.

| Module | Theorem | Inductive invariant and why it is needed |
|---|---|---|
| `ForbidControl_proofs` | `TypeCorrect` | the type invariant |
| | `CacheIsSound` (`CacheSound`) | `CacheInv`: also what the holder of `blacklist_lock` has fetched is in the database, the host about to enter the cache is there too, and other threads are idle until `main` serves |
| | `BlockedStaysBlocked` (`NeverUnblocked`) | the same, with: what is fetched under the lock contains the cache, as the database only grows and the cache changes only under the lock |
| | `EnforcedUnlessPaused`: a blacklisted host gets through only while a ban pauses the refresh or its end reloads the cache | `FreshInv`, if the database answers (`~DbMayFail`): what is fetched lacks only a host whose insertion waits for the lock, and what is read at the start lacks nothing |
| | `LatestIsStrictest`: the event that ends last has the highest count, and the process counts at least as high | `EventInv`: also each event has at most the time of its count, a higher count is a longer time, and the count is not zero while a ban is set up |
| | `BansClimb` (`BanSpec`) | the same: a saved event has the count of the process, so it outranks all; the steps that rewrite the file keep the events with time left, or lose all |
| | `BansAreInForce` (`BanInForce`), `BansHaveEnds` (`BanHasEnd`) | `BanInv`: the flags follow the count (`Graded`), the timer covers every saved event (`TimerFits`), a `reset_forbid` that is about to clear a flag finds no event in force (`ClearsLast`), the flag of the count is up from its raising on (`Kept`), and every flag has its end (`Ends`) |
| `SiteStats_proofs` | `TypeCorrect`, `TimerForEveryVisit`, `NoVisitForgotten`, `VisitIsBounded` | `VisitInv`: types, a Timer for each page with counts, waiting or with a thread on its way |
| | `VisitsAreJudged` (`VisitSpec`) | the same, with the counts: they are those of the visit, so the verdict on them is the verdict on the images |
| | `CountsAreThoseOfTheImages` (`CountsAgree`) | the counts with the type invariant, which makes the features finite |
| `ConnectionPool_proofs` | `TypeCorrect`, `MarksAreTheLeases`, `PoolIsLease` | `PoolInv`: marks are leases, no two callers have one connection, a caller that looks has none, and tries are left while a call goes on |
| | `AConnectionIsLost` (`OneConnectionLost`) | `BootFirst`: the boot thread has a connection before anyone else calls; distinct holders have distinct ones, so the others are one fewer |
| | `WaitingIsInVain` (`WaitsInVain`) | `WaitsInVain` itself, with `PoolInv`: only the caller with the lock can take, release or wait |
| | `FewNeverWait`: with fewer threads than pooled connections, nobody waits or opens another | all three: a caller waits only when the other threads have all connections |
| `MitmSupervisor_proofs` | `TypeCorrect` | types, unique process ids: the id of a new process is referred to by nothing |
| | `MitmdumpIsNotForgotten` (`NeverForgotten`) | `Phases`: while the service runs nobody is in `stop()`, and a dead service has no threads |
| | `StopLeavesNothingEarlier` (`StopKillsEarlier`) | `FoundAll`: a thread in `stop()` that is about to kill has found every process that was started before |
| | `OneWithoutRestart`: if nobody sends a RESTART, a service in its main loop has at most the mitmdump it knows | `MainAlone`, `Accounted`: only main starts one, and none is left when it does, whatever earlier services, failed starts and failed sweeps left behind |
| `ServiceSupervision_proofs` | `TypeCorrect`, `ManagersKnow` (`KnowsItsDogs`) | inductive with the types: the ids of the services are disjoint, and a service that starts forgets and scans |
| | `SetupIsObeyed` (`SetupHolds`) | `CalmSetup`: from the writing of the token on, it is valid until the managers have ended, so they create nothing; the services have been asked in order; after one has killed the watchdogs there are none |
| `Predictor_proofs` | `TypeCorrect`, `CacheCorrect` (`CacheSound`) | types and the cache together: the positions of its entries |
| | `VerdictsAreRight` (`VerdictSpec`), `LocksUpLate` (`StuckOnlyLate`) | `Inv`: which task can be where (`Shape`), a GIF has submitted its frames in order (`Collecting`), tasks are taken oldest first (`InOrder`), the hook waits for the last picture it submitted (`OneWait`), and answers are right and final: what the hook may hear, unless "blocked", is of a picture whose frames have all been judged, since the pool takes tasks while the hook waits (`Right`) |
| | `LockupIsSlow`: a pool of n workers locks up only after the hook has waited in vain for n - 1 GIFs | the same; the GIFs in the workers are n, and all but the last are given up |
| `RegistryGuard_proofs` | `TypeCorrect` | types |
| | `NeverMissed` (`NothingMissed`) | `Heard`: at every place of a monitor, what is wrong with the settings of its user is pending, or in what it works with, or unseen |
| | `NobodyIsForgotten` (`NobodyForgotten`) | `Ledger`: an untold monitor is listed or about to be, who holds the lock is where it says, and `stop()` has every listed monitor still to tell or told |
| | `LostOnlyByLogoff`: a listed user's monitor ends only when told, or at a logoff | `Attended`, with `Ledger`: also for the user about to be listed; an `ended` monitor is only made anew for users not listed |

Assumptions: the constants' only (`BanAssumption`, `FreeAssumption`,
`DelayAssumption`, `PoolAssumption`, `ConfigAssumption`, `SupervisorAssumption`,
`SupervisionAssumption`, `PredictorAssumption`, `GuardAssumption`); TLC evaluates them in
the runs. `PredictorAssumption` allows any number of workers, `GuardAssumption` any users.
Three theorems have a hypothesis of their own, which they state: `EnforcedUnlessPaused` that
no statement fails (`~DbMayFail`), `FewNeverWait` fewer threads than connections (`Few`),
`OneWithoutRestart` that no RESTART is sent (`MaxRestarts = 0`). Each says when what a
passing run has to step around, or a violation run finds, does not happen.

Only model-checked: all liveness (`Recovers`, `EveryVisitFinished`, `CallsReturn`,
`SettlesOnOne`, `LatestConfigServed`, `Heals`, `SetupEnds`, `Drains`, `Found`,
`Corrected`, `StopReturns`), which is out of the prover's reach together with ENABLED.
Every invariant, action property and refinement of the passing runs is a theorem.

## Left out

- Encryption and layout of the event file, its resizing, and failures to read it
  (a failed read in `save_forbid_event` would write back only the new event).
- A commit that fails and leaves a transaction open on its connection.
- Detection of image types, titles and keywords; streaming of responses.
- The threads that read mitmdump's output, the five seconds that `start_mitmproxy` waits
  to log success, and mitmproxy options other than the upstream server.
- The processes are found by the sweep at one instant (`psutil.process_iter`).
- The start type of the services, which each sets back for the other
  (`service_start_change`; its monitor runs the code of `RM` with another callback), the
  daemon service ending by an exception, and the system shutting down.
- `update_batch_config`, which nothing calls; the memory measurements that decide when
  the predictor cleans up (`Shed` may come at any time instead).
- `get_proxy_port` without a row in the database (DS 220-222) takes the first character of
  the default port; the row is written when the database is made and never deleted.
- The GUI, its log pipe and the browser scan: handles and processes of Windows, of which
  `PROJECT.json` lists the one hazard that is met.
- Everything `PROJECT.json` lists as not modelled, with the reason.

## Plan

1. Proofs: an abstract specification of the main service's mitmdump (one process, which
   serves the latest settings but for `raced`) and of the guard, with their refinements.
2. The composition of `SiteStats` and `ForbidControl`: from images to a ban, on top of
   `Predictor`'s verdicts.
3. The start type of the services, as a second kind of monitor in `RegistryGuard`.
4. The pipe to the GUI and the caches of the browser scan.
