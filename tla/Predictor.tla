------------------------------ MODULE Predictor ------------------------------
(***************************************************************************)
(* ImagePredictor (ai_detect.py) and the hook that waits for it            *)
(* (proxy_mitm.py, _handle_image_response): a pool of worker threads with  *)
(* one FIFO queue, an LRU cache of verdicts, an optional batch thread.     *)
(*                                                                         *)
(* A picture is the sequence of its frames; a still has one.  A GIF is     *)
(* analysed by a worker that submits its frames to the pool it runs in and *)
(* waits for them.  Hooks run in the single thread of mitmproxy, which     *)
(* waits at most 60 s for each picture.  A worker that waits for the batch *)
(* thread waits at most 60 s too: either of the two waits may end first.   *)
(***************************************************************************)
EXTENDS Integers, Sequences, FiniteSets

CONSTANTS
    Stills,     \* the stills that can be told apart
    Bad,        \* those the network finds improper
    Pictures,   \* what the hook may receive
    Workers,    \* max_workers, min(2 * cpu_count, 8) in the code
    CacheSize,  \* max_cache_size, 1000 in the code
    BatchSize,  \* batch_size, 8 in the code
    Share,      \* a moderate cleanup drops one entry in Share, 4 in the code
    MaxAsks     \* bound: pictures the hook submits

ASSUME PredictorAssumption ==
    /\ Bad \subseteq Stills /\ Pictures \subseteq Seq(Stills) \ {<<>>}
    /\ Workers \in Nat \ {0} /\ CacheSize \in Nat \ {0}
    /\ BatchSize \in Nat \ {0} /\ Share \in Nat \ {0} /\ MaxAsks \in Nat

VARIABLES
    batching,  \* enable_batch_processing, read once from the database
    task,      \* everything submitted to the pool, oldest first
    hook,      \* the task the hook waits for, or Nobody
    cache,     \* image_cache, least recently used first
    inbox,     \* batch_queue
    batch,     \* the items the batch thread works on
    pool       \* "open", "closing" while shutdown waits, then "closed"

vars == <<batching, task, hook, cache, inbox, batch, pool>>

Nobody  == 0
TheHook == 0    \* as a submitter; a worker submits as the task it works on

\* Mutant: the frames of a GIF go ahead of what waits already.
NextInLineAnyOrder(i) == task[i].at = "queued"

Ids     == 1 .. Len(task)
IsGif(p) == Len(p) > 1
AtWork  == {"look", "run", "batch", "got", "collect", "join"}
Busy    == {i \in Ids : task[i].at \in AtWork}
FramesOf(g) == {i \in Ids : task[i].by = g}
Asked   == {i \in Ids : task[i].by = TheHook}
AllSettled == \A i \in Ids : task[i].at \in {"ended", "cancelled"}
NewTask(p, by) ==
    [pic |-> p, by |-> by, at |-> "queued", answer |-> "none",
     out |-> IF by = TheHook THEN "waiting" ELSE "none"]

Init ==
    /\ batching \in BOOLEAN
    /\ task = <<>> /\ hook = Nobody
    /\ cache = <<>> /\ inbox = <<>> /\ batch = <<>>
    /\ pool = "open"

-----------------------------------------------------------------------------
(* The hook of mitmproxy's thread                                          *)

Ask(p) ==
    /\ hook = Nobody /\ pool = "open" /\ Cardinality(Asked) < MaxAsks
    /\ task' = Append(task, NewTask(p, TheHook))
    /\ hook' = Len(task) + 1
    /\ UNCHANGED <<batching, cache, inbox, batch, pool>>

\* Mutant: the verdict itself is what the hook keeps.
OutcomeRaw(answer) == answer

\* Mutant: "No Module File", a string that counts as true, is a finding too.
OutcomeAnyTruth(answer) ==
    IF answer \in {"problem", "blocked", "no_model"} THEN "forbidden" ELSE "passed"

Outcome(answer) ==
    IF answer \in {"problem", "blocked"} THEN "forbidden" ELSE "passed"

\* The answer is there: a picture found improper is replaced by a 403.
Hear ==
    /\ hook # Nobody /\ task[hook].at = "ended"
    /\ task' = [task EXCEPT ![hook].out = Outcome(task[hook].answer)]
    /\ hook' = Nobody
    /\ UNCHANGED <<batching, cache, inbox, batch, pool>>

\* future.result(timeout=60) raises: the picture goes through, uncounted.
HookTimesOut ==
    /\ hook # Nobody /\ task[hook].at # "ended"
    /\ task' = [task EXCEPT ![hook].out = "timeout"]
    /\ hook' = Nobody
    /\ UNCHANGED <<batching, cache, inbox, batch, pool>>

\* done() of the addon: cleanup() refuses new tasks, then waits for the workers.
Shutdown ==
    /\ hook = Nobody /\ pool = "open"
    /\ pool' = "closing"
    /\ UNCHANGED <<batching, task, hook, cache, inbox, batch>>

ShutdownEnds ==
    /\ pool = "closing" /\ AllSettled
    /\ pool' = "closed"
    /\ cache' = <<>> /\ inbox' = <<>>
    /\ UNCHANGED <<batching, task, hook, batch>>

-----------------------------------------------------------------------------
(* A worker: predict_image                                                 *)

Keys == {cache[k].pic : k \in DOMAIN cache}
Still(i) == Head(task[i].pic)
EndsWith(i, answer) ==
    task' = [task EXCEPT ![i].at = "ended", ![i].answer = answer]
Moves(i, at) == task' = [task EXCEPT ![i].at = at]

NextInLine(i) ==
    /\ task[i].at = "queued"
    /\ \A j \in 1 .. i - 1 : task[j].at # "queued"

\* Mutant: one worker fewer than there are.
TakeOneFewer(i) ==
    /\ Cardinality(Busy) < Workers - 1 /\ NextInLine(i)
    /\ Moves(i, IF IsGif(task[i].pic) THEN "collect" ELSE "look")
    /\ UNCHANGED <<batching, hook, cache, inbox, batch, pool>>

\* A free worker takes the oldest task.
Take(i) ==
    /\ Cardinality(Busy) < Workers /\ NextInLine(i)
    /\ Moves(i, IF IsGif(task[i].pic) THEN "collect" ELSE "look")
    /\ UNCHANGED <<batching, hook, cache, inbox, batch, pool>>

MovedToEnd(c, k) ==
    [j \in DOMAIN c |-> IF j < k THEN c[j] ELSE IF j < Len(c) THEN c[j + 1] ELSE c[k]]

\* _check_cache: a hit becomes the most recently used entry.
Hit(i) ==
    /\ task[i].at = "look"
    /\ \E k \in DOMAIN cache :
        /\ cache[k].pic = Still(i)
        /\ EndsWith(i, cache[k].answer)
        /\ cache' = MovedToEnd(cache, k)
    /\ UNCHANGED <<batching, hook, inbox, batch, pool>>

Miss(i) ==
    /\ task[i].at = "look" /\ Still(i) \notin Keys
    /\ IF batching
       THEN Moves(i, "batch") /\ inbox' = Append(inbox, i)
       ELSE Moves(i, "run") /\ UNCHANGED inbox
    /\ UNCHANGED <<batching, hook, cache, batch, pool>>

Verdict(s) == IF s \in Bad THEN "problem" ELSE "clean"

\* Mutant: the cache is not held to its size.
StoredUnbounded(c, s, answer) ==
    IF \E k \in DOMAIN c : c[k].pic = s
    THEN [k \in DOMAIN c |-> IF c[k].pic = s THEN [pic |-> s, answer |-> answer] ELSE c[k]]
    ELSE Append(c, [pic |-> s, answer |-> answer])

\* A key that is there already keeps its place.
Put(c, s, answer) ==
    IF \E k \in DOMAIN c : c[k].pic = s
    THEN [k \in DOMAIN c |-> IF c[k].pic = s THEN [pic |-> s, answer |-> answer] ELSE c[k]]
    ELSE Append(c, [pic |-> s, answer |-> answer])

\* _update_cache: a full cache loses its oldest entry, even to a key it holds.
Stored(c, s, answer) ==
    Put(IF Len(c) >= CacheSize THEN Tail(c) ELSE c, s, answer)

\* The worker's own session, or what the batch thread answered.
Finish(i) ==
    /\ task[i].at \in {"run", "got"}
    /\ EndsWith(i, Verdict(Still(i)))
    /\ cache' = Stored(cache, Still(i), Verdict(Still(i)))
    /\ UNCHANGED <<batching, hook, inbox, batch, pool>>

\* An exception: the model file is missing, or anything else, which counts as clean.
RunFails(i, answer) ==
    /\ task[i].at = "run"
    /\ EndsWith(i, answer)
    /\ UNCHANGED <<batching, hook, cache, inbox, batch, pool>>

\* No answer of the batch thread in 60 s: "True", to be on the safe side, which
\* is not cached.
BatchTimeout(i) ==
    /\ task[i].at = "batch"
    /\ EndsWith(i, "blocked")
    /\ UNCHANGED <<batching, hook, cache, inbox, batch, pool>>

-----------------------------------------------------------------------------
(* A worker: _predict_gif                                                  *)

\* One frame more goes to the end of the queue.
SubmitFrame(g) ==
    LET n == Cardinality(FramesOf(g))
        p == task[g].pic
    IN  /\ task[g].at = "collect" /\ pool = "open"
        /\ task' = Append(IF n + 1 = Len(p) THEN [task EXCEPT ![g].at = "join"] ELSE task,
                          NewTask(<<p[n + 1]>>, g))
        /\ UNCHANGED <<batching, hook, cache, inbox, batch, pool>>

\* The frames cannot be read, or the pool refuses them: the GIF counts as clean.
GifFails(g) ==
    /\ task[g].at = "collect" /\ (FramesOf(g) = {} \/ pool # "open")
    /\ EndsWith(g, "clean")
    /\ UNCHANGED <<batching, hook, cache, inbox, batch, pool>>

\* "result is True" holds of the literal True only, never of a numpy verdict.
IsTrue(answer) == answer = "blocked"

\* f.result() has answered for the frames up to f, the first one that is True.
Found(g, f) ==
    /\ f \in FramesOf(g) /\ task[f].at = "ended" /\ IsTrue(task[f].answer)
    /\ \A e \in FramesOf(g) : e < f => task[e].at = "ended"
Joined(g) == \A f \in FramesOf(g) : task[f].at = "ended"

\* The frames that still wait for a worker are cancelled.
GifFound(g) ==
    /\ task[g].at = "join" /\ \E f \in FramesOf(g) : Found(g, f)
    /\ task' = [i \in Ids |->
                  IF i = g THEN [task[i] EXCEPT !.at = "ended", !.answer = "blocked"]
                  ELSE IF task[i].by = g /\ task[i].at = "queued"
                       THEN [task[i] EXCEPT !.at = "cancelled"] ELSE task[i]]
    /\ UNCHANGED <<batching, hook, cache, inbox, batch, pool>>

GifPasses(g) ==
    /\ task[g].at = "join" /\ Joined(g) /\ ~\E f \in FramesOf(g) : Found(g, f)
    /\ EndsWith(g, "clean")
    /\ UNCHANGED <<batching, hook, cache, inbox, batch, pool>>

-----------------------------------------------------------------------------
(* The batch thread and the cleanups                                       *)

First(n) == SubSeq(inbox, 1, n)

BatchTake ==
    /\ batch = <<>> /\ inbox # <<>>
    /\ LET n == IF Len(inbox) < BatchSize THEN Len(inbox) ELSE BatchSize
       IN  batch' = First(n) /\ inbox' = SubSeq(inbox, n + 1, Len(inbox))
    /\ UNCHANGED <<batching, task, hook, cache, pool>>

\* The workers that still wait for an item of the batch.
Answered(i) == i \in {batch[k] : k \in DOMAIN batch} /\ task[i].at = "batch"

\* Every future gets its result; one whose worker has left is not looked at.
BatchAnswers ==
    LET who == {i \in Ids : Answered(i)}
    IN  /\ batch # <<>>
        /\ task' = [i \in Ids |-> IF i \in who THEN [task[i] EXCEPT !.at = "got"] ELSE task[i]]
        /\ batch' = <<>>
        /\ UNCHANGED <<batching, hook, cache, inbox, pool>>

\* Every future gets the exception, and each worker answers as in RunFails.
BatchFails(answer) ==
    LET who == {i \in Ids : Answered(i)}
    IN  /\ batch # <<>>
        /\ task' = [i \in Ids |->
                     IF i \in who THEN [task[i] EXCEPT !.at = "ended", !.answer = answer] ELSE task[i]]
        /\ batch' = <<>>
        /\ UNCHANGED <<batching, hook, cache, inbox, pool>>

\* _perform_cleanup, when memory is short: all entries, or the oldest ones.
Shed ==
    /\ cache # <<>>
    /\ \/ cache' = <<>>
       \/ cache' = SubSeq(cache, Len(cache) \div Share + 1, Len(cache))
    /\ UNCHANGED <<batching, task, hook, inbox, batch, pool>>

-----------------------------------------------------------------------------

Failures == {"clean", "no_model"}

WorkerStep ==
    \E i \in Ids :
        \/ Take(i) \/ Hit(i) \/ Miss(i) \/ Finish(i)
        \/ \E answer \in Failures : RunFails(i, answer)
        \/ BatchTimeout(i)
        \/ SubmitFrame(i) \/ GifFails(i) \/ GifFound(i) \/ GifPasses(i)
HookStep  == Hear \/ HookTimesOut \/ ShutdownEnds
BatchStep == BatchTake \/ BatchAnswers \/ \E answer \in Failures : BatchFails(answer)

Next ==
    \/ \E p \in Pictures : Ask(p)
    \/ HookStep \/ WorkerStep \/ BatchStep
    \/ Shutdown \/ Shed

Spec == Init /\ [][Next]_vars

\* Threads run, and waits that are not answered end.
Fairness == WF_vars(HookStep) /\ WF_vars(WorkerStep) /\ WF_vars(BatchStep)
FairSpec == Spec /\ Fairness

-----------------------------------------------------------------------------
(* Properties                                                              *)

Answers == {"none", "problem", "clean", "no_model", "blocked"}
Task == [pic : Seq(Stills) \ {<<>>}, by : Nat,
         at : AtWork \cup {"queued", "ended", "cancelled"}, answer : Answers,
         out : {"none", "waiting", "forbidden", "passed", "timeout"}]

TypeOK ==
    /\ batching \in BOOLEAN
    /\ task \in Seq(Task)
    /\ hook \in Ids \cup {Nobody}
    /\ cache \in Seq([pic : Stills, answer : Answers])
    /\ inbox \in Seq(Ids) /\ batch \in Seq(Ids)
    /\ pool \in {"open", "closing", "closed"}

\* The cache holds one entry per still, at most CacheSize of them, each the
\* verdict of the network: no timeout and no failure is remembered, although
\* several workers may analyse the same still at once (lines 245-257, 304-310).
CacheSound ==
    /\ Len(cache) <= CacheSize
    /\ \A k \in DOMAIN cache : cache[k].answer = Verdict(cache[k].pic)
    /\ \A k, l \in DOMAIN cache : cache[k].pic = cache[l].pic => k = l

\* What the hook has asked about so far, and what it has heard.
verdictsNow == [i \in Asked |-> [pic |-> task[i].pic, out |-> task[i].out]]

\* The asked pictures that have left, themselves or with a frame, a batch
\* without an answer, and the pictures with an improper frame.
UnjudgedNow ==
    {i \in Asked : \E j \in {i} \cup FramesOf(i) : task[j].answer = "blocked"}
BadPictures == {p \in Pictures : \E k \in DOMAIN p : p[k] \in Bad}
A == INSTANCE ImageVerdicts
        WITH Improper <- BadPictures, asked <- verdictsNow, unjudged <- UnjudgedNow

\* One picture waits at a time and its outcome is given once; a 403 replaces
\* only a picture that is improper or that, as a whole or in a frame, no batch
\* has judged in time; and a picture that is let through by an answer has had no
\* such timeout, however its worker, the workers of its frames and the hook lose
\* patience (proxy_mitm.py:303-322, ai_detect.py:304-310, 352-366).
VerdictSpec == A!Verdicts

\* Every worker holds a GIF that waits for frames no worker is left to take.
Stuck ==
    /\ Cardinality(Busy) = Workers
    /\ \A i \in Busy : task[i].at = "join" /\ ~Joined(i)

\* The pool can lock up only after the hook has given up on all of these GIFs
\* but the last, each of them before it had submitted a frame that is missing.
StuckOnlyLate ==
    Stuck => \A g, h \in Busy : g < h =>
        /\ task[g].out = "timeout"
        /\ \A f \in FramesOf(g) : task[f].at # "ended" => f > h

\* The thread of mitmproxy gets out of every wait, whatever the pool does.  And
\* unless the pool locks up, whatever was submitted ends and a shutdown returns.
Drains ==
    /\ hook # Nobody ~> hook = Nobody
    /\ []<>(AllSettled \/ Stuck)
    /\ [](pool = "closing" => <>(pool = "closed" \/ Stuck))

=============================================================================
