--------------------------- MODULE ForbidControl ---------------------------
(***************************************************************************)
(* The blacklist and the forbid events ("bans") of the mitmproxy addon:    *)
(* class InPurityProxy of proxy_mitm.py with ForbidEventManager of         *)
(* forbid_manager.py.                                                      *)
(*                                                                         *)
(* Four threads of one process touch this state:                           *)
(*   main       loads the addon (__init__) and then serves the hooks;      *)
(*   finalizer  the Timer thread in print_final_stats (stats_lock makes it *)
(*              the only one), which blacklists a site and may start a ban;*)
(*   refresher  the thread that reloads the cache every 300 s;             *)
(*   reset      the Timer thread in reset_forbid, when a ban ends.         *)
(* The process may be killed before any step.  The database and the event  *)
(* file outlive it.                                                        *)
(*                                                                         *)
(* Time is relative: a timer and a saved event carry the clock units they  *)
(* have left.  A unit stands for the ten minutes of set_forbid, so no unit *)
(* passes inside set_forbid or reset_forbid; at the start of the process   *)
(* an event may expire between any two statements.                         *)
(***************************************************************************)
EXTENDS Integers, FiniteSets

CONSTANTS
    Hosts,        \* hosts (their MD5) that can be blacklisted
    ImageBans,    \* counts up to this one ban images only (3 in the code)
    ImageUnit,    \* clock units per count of an image ban (10 minutes)
    RequestUnit,  \* clock units per count of a request ban (30 minutes)
    MaxCount,     \* bound on dangerous_count
    DbMayFail,    \* whether a statement on the database may raise
    Free          \* nobody holds blacklist_lock

ASSUME BanAssumption ==
    /\ ImageBans \in Nat
    /\ ImageUnit \in Nat \ {0}
    /\ RequestUnit \in Nat /\ RequestUnit >= ImageUnit
    /\ MaxCount \in Nat
    /\ DbMayFail \in BOOLEAN

Readers == {"refresher", "reset"}
Threads == {"main", "finalizer"} \cup Readers

ASSUME FreeAssumption == Free \notin Threads

Modes == {"images", "requests"}
Event == [mode : Modes, count : Nat, left : Nat, snapshot : SUBSET Hosts]
Timer == [mode : Modes, left : Nat]
NoTimer == [mode |-> "none", left |-> 0]

VARIABLES
    db,        \* table black_site, which survives the process
    file,      \* the forbid events saved in the event file, which survives too
    cache,     \* blacklist_cache
    count,     \* dangerous_count
    img, req,  \* img_forbid, req_forbid
    paused,    \* cache_refresh_paused
    timer,     \* the waiting forbid_timer, or NoTimer
    lock,      \* who holds blacklist_lock between two steps
    seen,      \* what the holder of blacklist_lock fetched from db
    pc,        \* what each thread does next; "down" and "idle" when nothing
    target,    \* the finalizer's site and whether its ratio is a ban's
    endMode,   \* the argument of the running reset_forbid
    overlap,   \* history: the last ban began while reset_forbid had a flag to clear
    overrun    \* history: the restored event expired before its timer was set,
               \* and no ban has begun since

durable == <<db, file>>
flags   == <<count, img, req, paused>>
fetch   == <<lock, seen>>
history == <<overlap, overrun>>
vars    == <<db, file, cache, count, img, req, paused, timer, lock, seen, pc,
             target, endMode, overlap, overrun>>

Running == pc["main"] = "run"
Up      == pc["main"] # "down"

Mode(c)     == IF c <= ImageBans THEN "images" ELSE "requests"
Interval(c) == IF c <= ImageBans THEN c * ImageUnit ELSE c * RequestUnit

\* The events a reader of the file takes as still in force (end_time > now).
Unexpired(events) == {e \in events : e.left > 0}

Goto(t, step) == pc' = [pc EXCEPT ![t] = step]
At(t, step)   == pc[t] = step

-----------------------------------------------------------------------------
NoTarget == [host |-> {}, ban |-> FALSE]
PcAt(step) == [t \in Threads |-> IF t = "main" THEN step ELSE "idle"]

\* No process is running; nothing was ever blacklisted.
Init ==
    /\ db = {} /\ file = {}
    /\ cache = {} /\ count = 0 /\ img = FALSE /\ req = FALSE /\ paused = FALSE
    /\ timer = NoTimer /\ lock = Free /\ seen = {}
    /\ target = NoTarget /\ endMode = "images"
    /\ overlap = FALSE /\ overrun = FALSE
    /\ pc = PcAt("down")

\* Memory as __init__ finds it, which is also how a dead process is shown.
Blank(step) ==
    /\ cache' = {} /\ count' = 0 /\ img' = FALSE /\ req' = FALSE /\ paused' = FALSE
    /\ timer' = NoTimer /\ lock' = Free /\ seen' = {}
    /\ target' = NoTarget /\ endMode' = "images"
    /\ overlap' = FALSE /\ overrun' = FALSE
    /\ pc' = PcAt(step)

\* The main service starts mitmdump, which loads the addon.
Start == At("main", "down") /\ Blank("cache") /\ UNCHANGED durable

\* _init_blacklist_cache: a failed fetch is logged and leaves the empty cache.
InitCache ==
    /\ At("main", "cache")
    /\ \E fetched \in {db} \cup (IF DbMayFail THEN {{}} ELSE {}) : cache' = fetched
    /\ Goto("main", "expire")
    /\ UNCHANGED <<durable, flags, timer, fetch, target, endMode, history>>

\* _check_active_forbid_events begins with clear_expired_events.
ExpireAtStart ==
    /\ At("main", "expire")
    /\ file' = Unexpired(file)
    /\ Goto("main", "restore")
    /\ UNCHANGED <<db, cache, flags, timer, fetch, target, endMode, history>>

Latest(events) ==
    {e \in Unexpired(events) : \A f \in Unexpired(events) : f.left <= e.left}

\* Mutant: the count is not restored.
RestoreEventUncounted(e) ==
    /\ img' = (e.mode = "images") /\ req' = (e.mode = "requests")
    /\ cache' = e.snapshot /\ count' = count /\ paused' = TRUE
    /\ timer' = [mode |-> e.mode, left |-> e.left]

\* The event that ends last is restored: its flag, its snapshot of the cache
\* and its count; refreshes are paused.
RestoreEvent(e) ==
    /\ img' = (e.mode = "images")
    /\ req' = (e.mode = "requests")
    /\ cache' = e.snapshot
    /\ count' = e.count
    /\ paused' = TRUE
    /\ timer' = [mode |-> e.mode, left |-> e.left]

Restore ==
    /\ At("main", "restore")
    /\ \/ /\ Unexpired(file) = {}
          /\ Goto("main", "run")
          /\ UNCHANGED <<cache, flags, timer>>
       \/ \E e \in Latest(file) : RestoreEvent(e) /\ Goto("main", "arm")
    /\ UNCHANGED <<durable, fetch, target, endMode, history>>

\* The timer is set only if the event still has time left; while main is at
\* "arm" the variable timer holds the active_event that is being restored.
ArmRestored ==
    /\ At("main", "arm")
    /\ IF timer.left > 0 THEN UNCHANGED <<timer, overrun>>
                         ELSE timer' = NoTimer /\ overrun' = TRUE
    /\ Goto("main", "run")
    /\ UNCHANGED <<durable, cache, flags, fetch, target, endMode, overlap>>

-----------------------------------------------------------------------------
(* _refresh_blacklist_cache, called by the refresher and by reset_forbid.  *)

AfterRefresh(t) == IF t = "reset" THEN "expire" ELSE "idle"

\* The pause is tested before blacklist_lock is taken.
RefreshCheck(t) ==
    /\ Running
    /\ At(t, IF t = "reset" THEN "check" ELSE "idle")
    /\ Goto(t, IF paused THEN AfterRefresh(t) ELSE "read")
    /\ UNCHANGED <<durable, cache, flags, timer, fetch, target, endMode, history>>

\* Mutant: the fetch does not wait for blacklist_lock and does not take it.
RefreshReadUnlocked(t) ==
    /\ At(t, "read")
    /\ seen' = db
    /\ Goto(t, "swap")
    /\ UNCHANGED <<durable, cache, flags, timer, lock, target, endMode, history>>

RefreshRead(t) ==
    /\ At(t, "read") /\ lock = Free
    /\ lock' = t /\ seen' = db
    /\ Goto(t, "swap")
    /\ UNCHANGED <<durable, cache, flags, timer, target, endMode, history>>

\* The fetch raises: the exception is logged and the cache stays.
RefreshFails(t) ==
    /\ DbMayFail
    /\ At(t, "read") /\ lock = Free
    /\ Goto(t, AfterRefresh(t))
    /\ UNCHANGED <<durable, cache, flags, timer, fetch, target, endMode, history>>

RefreshSwap(t) ==
    /\ At(t, "swap")
    /\ cache' = seen
    /\ lock' = Free /\ seen' = {}
    /\ Goto(t, AfterRefresh(t))
    /\ UNCHANGED <<durable, flags, timer, target, endMode, history>>

-----------------------------------------------------------------------------
(* print_final_stats when the ratio of a page is above 0.6, then           *)
(* add_to_blacklist and, from 0.65, set_forbid.                            *)

\* A page's ratio is known: its site goes to the blacklist, perhaps with a ban.
Verdict ==
    /\ Running /\ At("finalizer", "idle")
    /\ \E h \in Hosts, b \in BOOLEAN :
          /\ b => count < MaxCount
          /\ target' = [host |-> {h}, ban |-> b]
    /\ Goto("finalizer", "insert")
    /\ UNCHANGED <<durable, cache, flags, timer, fetch, endMode, history>>

\* set_forbid is next, or the thread ends and forgets its page.
AfterAdd ==
    /\ Goto("finalizer", IF target.ban THEN "cancel" ELSE "idle")
    /\ target' = IF target.ban THEN target ELSE NoTarget

\* The database is written before the cache.
Insert ==
    /\ At("finalizer", "insert")
    /\ db' = db \cup target.host
    /\ Goto("finalizer", "add")
    /\ UNCHANGED <<file, cache, flags, timer, fetch, target, endMode, history>>

\* Mutant: the exception of the insert is swallowed before the cache is written.
InsertFailsUnnoticed ==
    /\ DbMayFail /\ At("finalizer", "insert")
    /\ Goto("finalizer", "add")
    /\ UNCHANGED <<durable, cache, flags, timer, fetch, target, endMode, history>>

\* The insert raises: nothing is recorded, and the ban goes on all the same.
InsertFails ==
    /\ DbMayFail
    /\ At("finalizer", "insert")
    /\ AfterAdd
    /\ UNCHANGED <<durable, cache, flags, timer, fetch, endMode, history>>

\* Mutant: blacklist_lock is taken and never released.
CacheAddKeepsLock ==
    /\ At("finalizer", "add") /\ lock = Free
    /\ cache' = cache \cup target.host
    /\ lock' = "finalizer"
    /\ AfterAdd
    /\ UNCHANGED <<durable, flags, timer, seen, endMode, history>>

CacheAdd ==
    /\ At("finalizer", "add") /\ lock = Free
    /\ cache' = cache \cup target.host
    /\ AfterAdd
    /\ UNCHANGED <<durable, flags, timer, fetch, endMode, history>>

\* dangerous_count += 1; the timer of the running ban is cancelled, which does
\* not stop a reset_forbid that has already begun.
Cancel ==
    /\ At("finalizer", "cancel")
    /\ count' = count + 1
    /\ timer' = NoTimer
    /\ overlap' = At("reset", "clear")
    /\ Goto("finalizer", "flag")
    /\ UNCHANGED <<durable, cache, img, req, paused, fetch, target, endMode, overrun>>

\* img_forbid is dropped one statement before req_forbid is raised.
SetFlag ==
    /\ At("finalizer", "flag")
    /\ img' = (Mode(count) = "images")
    /\ Goto("finalizer", IF Mode(count) = "images" THEN "timer" ELSE "escalate")
    /\ UNCHANGED <<durable, cache, count, req, paused, timer, fetch, target, endMode, history>>

Escalate ==
    /\ At("finalizer", "escalate")
    /\ req' = TRUE
    /\ Goto("finalizer", "timer")
    /\ UNCHANGED <<durable, cache, count, img, paused, timer, fetch, target, endMode, history>>

\* Mutant: the timer is set for the count before this ban.
SetTimerShort ==
    /\ At("finalizer", "timer")
    /\ timer' = [mode |-> Mode(count), left |-> Interval(count - 1)]
    /\ overrun' = FALSE
    /\ Goto("finalizer", "pause")
    /\ UNCHANGED <<durable, cache, flags, fetch, target, endMode, overlap>>

SetTimer ==
    /\ At("finalizer", "timer")
    /\ timer' = [mode |-> Mode(count), left |-> Interval(count)]
    /\ overrun' = FALSE
    /\ Goto("finalizer", "pause")
    /\ UNCHANGED <<durable, cache, flags, fetch, target, endMode, overlap>>

Pause ==
    /\ At("finalizer", "pause")
    /\ paused' = TRUE
    /\ Goto("finalizer", "save")
    /\ UNCHANGED <<durable, cache, count, img, req, timer, fetch, target, endMode, history>>

\* save_forbid_event appends the event with a snapshot of the cache and drops
\* the expired ones.
NewEvent ==
    [mode |-> Mode(count), count |-> count, left |-> Interval(count), snapshot |-> cache]

SaveEvent ==
    /\ At("finalizer", "save") /\ lock = Free
    /\ file' = Unexpired(file \cup {NewEvent})
    /\ Goto("finalizer", "idle") /\ target' = NoTarget
    /\ UNCHANGED <<db, cache, flags, timer, fetch, endMode, history>>

\* The write fails and save_forbid_event returns False, which nobody reads.
SaveFails ==
    /\ At("finalizer", "save") /\ lock = Free
    /\ Goto("finalizer", "idle") /\ target' = NoTarget
    /\ UNCHANGED <<durable, cache, flags, timer, fetch, endMode, history>>

-----------------------------------------------------------------------------
(* reset_forbid.  After its last step below the code clears                *)
(* self.blocked_words, an attribute no class defines: the AttributeError   *)
(* ends the timer thread, which has nothing left to do.                    *)

Fire ==
    /\ Running /\ At("reset", "idle")
    /\ timer # NoTimer /\ timer.left <= 0
    /\ endMode' = timer.mode
    /\ timer' = NoTimer
    /\ Goto("reset", "clear")
    /\ UNCHANGED <<durable, cache, flags, fetch, target, history>>

\* Mutant: only the flag for images is cleared.
ClearFlagOfImages ==
    /\ At("reset", "clear")
    /\ img' = FALSE
    /\ Goto("reset", "resume")
    /\ UNCHANGED <<durable, cache, count, req, paused, timer, fetch, target, endMode, history>>

ClearFlag ==
    /\ At("reset", "clear")
    /\ img' = (img /\ endMode # "images")
    /\ req' = (req /\ endMode # "requests")
    /\ Goto("reset", "resume")
    /\ UNCHANGED <<durable, cache, count, paused, timer, fetch, target, endMode, history>>

\* Mutant: the refresh is not resumed.
ResumeNever ==
    /\ At("reset", "resume")
    /\ Goto("reset", "check")
    /\ UNCHANGED <<durable, cache, flags, timer, fetch, target, endMode, history>>

Resume ==
    /\ At("reset", "resume")
    /\ paused' = FALSE
    /\ Goto("reset", "check")
    /\ UNCHANGED <<durable, cache, count, img, req, timer, fetch, target, endMode, history>>

\* clear_expired_events
ExpireAtReset ==
    /\ At("reset", "expire")
    /\ file' = Unexpired(file)
    /\ Goto("reset", "idle") /\ endMode' = "images"
    /\ UNCHANGED <<db, cache, flags, timer, fetch, target, history>>

-----------------------------------------------------------------------------
(* The environment: the clock, and the end of the process.                 *)

Older(left) == IF left > 0 THEN left - 1 ELSE left

\* set_forbid and reset_forbid are fast against a clock unit, and a due timer
\* fires first.
Tick ==
    /\ pc["finalizer"] \in {"idle", "insert", "add"}
    /\ At("reset", "idle")
    /\ Running => timer = NoTimer \/ timer.left > 0
    /\ file' = {[e EXCEPT !.left = Older(@)] : e \in file}
    /\ timer' = [timer EXCEPT !.left = Older(@)]
    /\ UNCHANGED <<db, cache, flags, fetch, pc, target, endMode, history>>

\* A rewrite zeroes the mapped file first: a process killed inside it loses
\* every event.
Rewriting ==
    \/ At("finalizer", "save") /\ lock = Free
    \/ /\ At("reset", "expire") \/ At("main", "expire")
       /\ Unexpired(file) # file

\* mitmdump is killed (taskkill /f, a restart by the main service) or crashes.
Crash ==
    /\ Up
    /\ Blank("down")
    /\ db' = db
    /\ \/ file' = file
       \/ Rewriting /\ file' = {}

-----------------------------------------------------------------------------
Loading    == Start \/ InitCache \/ ExpireAtStart \/ Restore \/ ArmRestored
Refresh(t) == RefreshCheck(t) \/ RefreshRead(t) \/ RefreshFails(t) \/ RefreshSwap(t)
Finalizing == Insert \/ InsertFails \/ CacheAdd \/ Cancel \/ SetFlag \/ Escalate
                \/ SetTimer \/ Pause \/ SaveEvent \/ SaveFails
Resetting  == Fire \/ ClearFlag \/ Resume \/ ExpireAtReset

Next ==
    \/ Loading
    \/ \E t \in Readers : Refresh(t)
    \/ Verdict
    \/ Finalizing
    \/ Resetting
    \/ Tick
    \/ Crash

Spec == Init /\ [][Next]_vars

\* The process is started again whenever it is down, threads run, time passes,
\* a lock that is free again and again is taken, and a fetch that is tried
\* again and again succeeds at last.  Nothing obliges a page to be judged or
\* the process to crash.
Fairness ==
    /\ WF_vars(Loading)
    /\ WF_vars(Resetting)
    /\ WF_vars(Tick)
    /\ SF_vars(Finalizing)
    /\ \A t \in Readers : WF_vars(Refresh(t)) /\ SF_vars(RefreshRead(t))

FairSpec == Spec /\ Fairness

-----------------------------------------------------------------------------
(* What the hooks decide from this state.                                  *)

\* request kills a flow whose host or referer is blacklisted.
RequestKilled(host) == req \/ host \in cache

\* responseheaders kills images and media, if request let the flow live.
MediaKilled == img \/ req

InForce(mode) == IF mode = "images" THEN MediaKilled ELSE req

-----------------------------------------------------------------------------
(* Properties.                                                             *)

Steps == {"down", "run", "idle",
          "cache", "expire", "restore", "arm",
          "check", "read", "swap", "clear", "resume",
          "insert", "add", "cancel", "flag", "escalate", "timer", "pause", "save"}

\* Every variable holds a value of its type; between two steps only a refresh
\* holds blacklist_lock (proxy_mitm.py:112, 457).
TypeOK ==
    /\ db \subseteq Hosts /\ cache \subseteq Hosts /\ seen \subseteq Hosts
    /\ file \subseteq Event
    /\ count \in Nat
    /\ {img, req, paused, overlap, overrun} \subseteq BOOLEAN
    /\ timer \in Timer \cup {NoTimer}
    /\ lock \in Readers \cup {Free}
    /\ pc \in [Threads -> Steps]
    /\ target \in [host : SUBSET Hosts, ban : BOOLEAN]
    /\ endMode \in Modes

\* Nothing is blocked that the database does not hold: not by the cache, not
\* by a snapshot that a restart may bring back.  add_to_blacklist writes the
\* database before the cache, and a failed insert must not reach the cache.
CacheSound ==
    /\ cache \subseteq db
    /\ \A e \in file : e.snapshot \subseteq db

\* While the addon serves requests a blocked host stays blocked: a refresh
\* that read the database before a host was added must not publish its result
\* after the host entered the cache (_refresh_blacklist_cache, blacklist_lock).
NeverUnblocked == [][Running /\ Running' => cache \subseteq cache']_vars

\* The saved events that are in force, without their snapshots.
bansNow == {[mode |-> e.mode, count |-> e.count, left |-> e.left] : e \in Unexpired(file)}
B == INSTANCE BanLadder WITH bans <- bansNow

\* A ban that begins outranks every saved ban, also those begun before a restart
\* or a crash: its count is higher, it ends later, and it does not fall back to
\* images.  No saved ban ends early, but all are lost when a rewrite of the file
\* is cut off (set_forbid, get_active_forbid_event, _write_data_to_mmap).
BanSpec == B!Ladder

\* A saved ban is in force: whatever was crashed and restored, when no ban is
\* being set up the flag of the latest unexpired event is up.  The one
\* exception is a reset_forbid of an earlier ban that was still to clear its
\* flag when the last ban began (see BanAlwaysInForce).
BanInForce ==
    Running /\ At("finalizer", "idle") /\ ~overlap =>
        \A e \in Latest(file) : InForce(e.mode)

\* As BanInForce, with no exception: set_forbid cancels the timer of the ban
\* before it, as its comment says, so no earlier ban may end the new one.
BanAlwaysInForce ==
    Running /\ At("finalizer", "idle") => \A e \in Latest(file) : InForce(e.mode)

EndComing(mode) ==
    \/ timer.mode = mode
    \/ At("reset", "clear") /\ endMode = mode
    \/ At("finalizer", "timer")

\* No ban without an end: a raised flag and a paused refresh have a timer, or
\* a thread on its way, that takes them back.  The exception is a process whose
\* restored event expired before its timer was set: it stays banned, with
\* no timer, until it is restarted or another ban begins.
BanHasEnd ==
    Running /\ ~overrun =>
        /\ img => EndComing("images") \/ At("finalizer", "flag")
        /\ req => EndComing("requests") \/ At("finalizer", "flag") \/ At("finalizer", "escalate")
        /\ paused => \/ timer # NoTimer
                     \/ At("reset", "clear") \/ At("reset", "resume")
                     \/ At("finalizer", "flag") \/ At("finalizer", "escalate")
                     \/ At("finalizer", "timer")

Normal == ~img /\ ~req /\ ~paused /\ db \subseteq cache

\* If the process at last stays up, it comes back to normal: bans end, the
\* refresh goes on, and the cache holds every host of the database, whatever
\* snapshot was restored and whatever fetch failed (reset_forbid,
\* resume_cache_refresh).  The exception is that of BanHasEnd.
Recovers == <>[](Running /\ ~overrun) => <>[]Normal

\* A request for a blacklisted host is blocked (README, line 10), whenever no
\* site is being added.
BlacklistEnforced ==
    Running /\ At("finalizer", "idle") => \A h \in db : RequestKilled(h)

=============================================================================
