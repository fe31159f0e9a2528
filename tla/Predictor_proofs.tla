-------------------------- MODULE Predictor_proofs --------------------------
(***************************************************************************)
(* Proofs about Predictor, for any pictures, any number of workers and any *)
(* sizes of the cache and the batches: types, CacheSound, StuckOnlyLate,   *)
(* and that Predictor implements ImageVerdicts (VerdictSpec).              *)
(***************************************************************************)
EXTENDS Predictor, SequenceTheorems, FiniteSetTheorems, TLAPS

Entry == [pic : Stills, answer : Answers]
Picture == Seq(Stills) \ {<<>>}

LEMMA FunctionIsSeq == ASSUME NEW S, NEW n \in Nat, NEW f \in [1 .. n -> S]
    PROVE f \in Seq(S) /\ Len(f) = n
BY SeqDef

-----------------------------------------------------------------------------
(* The cache                                                               *)

Distinct(c) == \A k, l \in DOMAIN c : c[k].pic = c[l].pic => k = l
Truthful(c) == \A k \in DOMAIN c : c[k].answer = Verdict(c[k].pic)
Sound(c) == c \in Seq(Entry) /\ Len(c) <= CacheSize /\ Truthful(c) /\ Distinct(c)

LEMMA VerdictTypes == \A s : Verdict(s) \in Answers
BY DEF Verdict, Answers

\* The entries from some place on.
LEMMA SuffixSound == ASSUME NEW c, Sound(c), NEW d \in 0 .. Len(c)
    PROVE Sound(SubSeq(c, d + 1, Len(c))) /\ Len(SubSeq(c, d + 1, Len(c))) = Len(c) - d
<1> DEFINE m == d + 1
           n == Len(c)
           e == SubSeq(c, m, n)
<1>1. n \in Nat /\ DOMAIN c = 1 .. n /\ \A i \in m .. n : c[i] \in Entry
  BY LenProperties, ElementOfSeq DEF Sound
<1>2. m \in Int /\ n \in Int /\ m - 1 = d /\ d \in 0 .. n
  BY <1>1
<1> HIDE DEF m, n
<1>3. /\ e \in Seq(Entry)
      /\ Len(e) = IF m <= n THEN n - m + 1 ELSE 0
      /\ \A i \in 1 .. n - m + 1 : e[i] = c[m + i - 1]
  BY <1>1, <1>2, SubSeqProperties
<1> HIDE DEF e
<1>4. Len(e) = n - d /\ n - m + 1 = n - d
  BY <1>2, <1>3
<1>5. DOMAIN e = 1 .. n - d
  BY <1>3, <1>4, LenProperties
<1>6. \A i \in DOMAIN e : i + d \in DOMAIN c /\ e[i] = c[i + d]
  BY <1>1, <1>2, <1>3, <1>4, <1>5
<1>7. Truthful(e) /\ Distinct(e)
  BY <1>2, <1>5, <1>6 DEF Sound, Truthful, Distinct
<1>8. Sound(e)
  BY <1>2, <1>3, <1>4, <1>7, PredictorAssumption DEF Sound, n
<1> QED BY <1>4, <1>8 DEF e, m, n

LEMMA PutSound == ASSUME NEW c, Sound(c), Len(c) < CacheSize, NEW s \in Stills
    PROVE Sound(Put(c, s, Verdict(s)))
<1>1. Len(c) \in Nat /\ DOMAIN c = 1 .. Len(c) /\ \A k \in DOMAIN c : c[k] \in Entry
  BY LenProperties, ElementOfSeq DEF Sound
<1>2. [pic |-> s, answer |-> Verdict(s)] \in Entry
  BY VerdictTypes DEF Entry
<1>3. CASE \E k \in DOMAIN c : c[k].pic = s
  <2> DEFINE e == [k \in DOMAIN c |-> IF c[k].pic = s THEN [pic |-> s, answer |-> Verdict(s)] ELSE c[k]]
  <2>1. e \in [1 .. Len(c) -> Entry]
    BY <1>1, <1>2
  <2>2. \A k \in DOMAIN c : e[k].pic = c[k].pic /\ e[k].answer = Verdict(e[k].pic)
    BY DEF Sound, Truthful
  <2>3. DOMAIN e = DOMAIN c
    OBVIOUS
  <2> HIDE DEF e
  <2>4. Truthful(e) /\ Distinct(e)
    BY <2>2, <2>3 DEF Sound, Truthful, Distinct
  <2>5. e \in Seq(Entry) /\ Len(e) = Len(c)
    BY <1>1, <2>1, FunctionIsSeq
  <2>6. Sound(e)
    BY <2>4, <2>5 DEF Sound
  <2> QED BY <1>3, <2>6 DEF Put, e
<1>4. CASE ~\E k \in DOMAIN c : c[k].pic = s
  <2> DEFINE e == Append(c, [pic |-> s, answer |-> Verdict(s)])
  <2>1. /\ e \in Seq(Entry) /\ Len(e) = Len(c) + 1
        /\ \A k \in 1 .. Len(c) : e[k] = c[k]
        /\ e[Len(c) + 1] = [pic |-> s, answer |-> Verdict(s)]
    BY <1>2, AppendProperties DEF Sound
  <2>2. DOMAIN e = 1 .. Len(c) + 1
    BY <2>1, LenProperties
  <2> HIDE DEF e
  <2>3. Truthful(e) /\ Distinct(e)
    BY <1>1, <1>4, <2>1, <2>2 DEF Sound, Truthful, Distinct
  <2>4. Sound(e)
    BY <1>1, <2>1, <2>3, PredictorAssumption DEF Sound
  <2> QED BY <1>4, <2>4 DEF Put, e
<1> QED BY <1>3, <1>4

LEMMA StoredSound == ASSUME NEW c, Sound(c), NEW s \in Stills
    PROVE Sound(Stored(c, s, Verdict(s)))
<1>1. Len(c) \in Nat
  BY LenProperties DEF Sound
<1>2. CASE Len(c) >= CacheSize
  <2>1. c # <<>> /\ c \in Seq(Entry) /\ 1 \in 0 .. Len(c)
    <3>1. Len(c) >= 1
      BY <1>1, <1>2, PredictorAssumption
    <3>2. Len(<<>>) = 0
      BY EmptySeq
    <3>3. c # <<>>
      BY <3>1, <3>2
    <3> QED BY <1>1, <3>1, <3>3 DEF Sound
  <2>2. Tail(c) = SubSeq(c, 1 + 1, Len(c))
    BY <2>1, TailIsSubSeq
  <2>3. Sound(Tail(c)) /\ Len(Tail(c)) = Len(c) - 1
    BY <2>1, <2>2, SuffixSound
  <2>4. Len(Tail(c)) < CacheSize
    BY <1>1, <2>3, PredictorAssumption DEF Sound
  <2> QED BY <1>2, <2>3, <2>4, PutSound DEF Stored
<1>3. CASE ~(Len(c) >= CacheSize)
  BY <1>1, <1>3, PutSound, PredictorAssumption DEF Stored
<1> QED BY <1>2, <1>3

LEMMA MovedSound == ASSUME NEW c, Sound(c), NEW k \in DOMAIN c
    PROVE Sound(MovedToEnd(c, k))
<1> DEFINE e == MovedToEnd(c, k)
<1>1. Len(c) \in Nat /\ DOMAIN c = 1 .. Len(c) /\ \A i \in DOMAIN c : c[i] \in Entry
  BY LenProperties, ElementOfSeq DEF Sound
<1>2. DOMAIN e = DOMAIN c /\ \A j \in DOMAIN c :
        e[j] = IF j < k THEN c[j] ELSE IF j < Len(c) THEN c[j + 1] ELSE c[k]
  BY DEF MovedToEnd
<1>3. e \in [1 .. Len(c) -> Entry]
  <2>1. \A j \in 1 .. Len(c) : e[j] \in Entry
    BY <1>1, <1>2
  <2>2. e = [j \in 1 .. Len(c) |-> e[j]]
    BY <1>1 DEF MovedToEnd
  <2> QED BY <2>1, <2>2
<1>4. e \in Seq(Entry) /\ Len(e) = Len(c)
  BY <1>1, <1>3, FunctionIsSeq
<1> HIDE DEF e
<1>5. Truthful(e)
  BY <1>1, <1>2 DEF Sound, Truthful
<1>6. Distinct(e)
  <2> SUFFICES ASSUME NEW i \in DOMAIN e, NEW j \in DOMAIN e, e[i].pic = e[j].pic PROVE i = j
    BY DEF Distinct
  <2> DEFINE from(n) == IF n < k THEN n ELSE IF n < Len(c) THEN n + 1 ELSE k
  <2>1. \A n \in DOMAIN e : from(n) \in DOMAIN c /\ e[n] = c[from(n)]
    BY <1>1, <1>2
  <2>2. from(i) = from(j)
    BY <2>1 DEF Sound, Distinct
  <2> QED BY <1>1, <1>2, <2>2
<1>7. Sound(e)
  BY <1>4, <1>5, <1>6 DEF Sound
<1> QED BY <1>7 DEF e

-----------------------------------------------------------------------------
(* What the steps do to the tasks                                          *)

Places == AtWork \cup {"queued", "ended", "cancelled"}

\* Every frame of a picture has been judged.
Judged(j) == \A f \in FramesOf(j) : task[f].at = "ended" /\ task[f].answer # "blocked"

\* A finding is one, and what the hook gets to hear, unless "blocked", is about
\* a picture that has been judged.
Proper(j) ==
    /\ task'[j].answer = "problem" => ~IsGif(task[j].pic) /\ Still(j) \in Bad
    /\ j = hook /\ task'[j].answer # "blocked" => Judged(j)

\* How one task may go on.
Advance(j) ==
    /\ task'[j].pic = task[j].pic /\ task'[j].by = task[j].by /\ task'[j].out = task[j].out
    /\ \/ task'[j].at = task[j].at /\ task'[j].answer = task[j].answer
       \/ /\ task[j].at = "queued" /\ NextInLine(j) /\ task'[j].answer = task[j].answer
          /\ task'[j].at = IF IsGif(task[j].pic) THEN "collect" ELSE "look"
       \/ /\ task[j].at = "queued" /\ task'[j].at = "cancelled" /\ task'[j].answer = task[j].answer
          /\ task[j].by \in Ids /\ task'[task[j].by].at = "ended"
       \/ /\ task[j].at \in {"look", "batch"} /\ task'[j].at \in {"run", "batch", "got"}
          /\ task'[j].answer = task[j].answer
       \/ task[j].at \in AtWork /\ task'[j].at = "ended" /\ Proper(j)

Advances ==
    /\ task' \in Seq(Task) /\ Len(task') = Len(task)
    /\ \A j \in Ids : Advance(j)

\* No batch is given up: "blocked" only spreads from a frame to its GIF.
Quiet == \A j \in Ids : task'[j].answer = "blocked" =>
            \E k \in {j} \cup FramesOf(j) : task[k].answer = "blocked"

LEMMA TaskFields == ASSUME TypeOK, NEW i \in Ids
    PROVE /\ task[i] \in Task /\ task[i].pic \in Picture /\ task[i].by \in Nat /\ task[i].at \in Places
          /\ task[i].answer \in Answers /\ Still(i) \in Stills /\ Len(task[i].pic) \in Nat \ {0}
<1>1. task[i] \in Task
  BY ElementOfSeq DEF TypeOK, Ids
<1>2. task[i].pic \in Picture
  BY <1>1 DEF Task, Picture
<1>3. Head(task[i].pic) \in Stills /\ Len(task[i].pic) \in Nat \ {0}
  BY <1>2, HeadTailProperties, EmptySeq DEF Picture
<1> QED BY <1>1, <1>2, <1>3 DEF Task, Places, Still

LEMMA LenTask == TypeOK => Len(task) \in Nat /\ DOMAIN task = Ids
BY LenProperties DEF TypeOK, Ids

LEMMA MovesTask == ASSUME TypeOK, NEW i \in Ids, NEW at \in Places, Moves(i, at)
    PROVE /\ task' \in Seq(Task) /\ Len(task') = Len(task)
          /\ \A j \in Ids : /\ task'[j].pic = task[j].pic /\ task'[j].by = task[j].by
                            /\ task'[j].out = task[j].out /\ task'[j].answer = task[j].answer
                            /\ task'[j].at = IF j = i THEN at ELSE task[j].at
<1> DEFINE r == [task[i] EXCEPT !.at = at]
<1>1. task[i] \in Task
  BY TaskFields
<1>2. /\ r \in Task /\ r.pic = task[i].pic /\ r.by = task[i].by /\ r.at = at
      /\ r.out = task[i].out /\ r.answer = task[i].answer
  BY <1>1 DEF Task, Places
<1>3. task' = [task EXCEPT ![i] = r]
  BY DEF Moves
<1> HIDE DEF r
<1>4. /\ task' \in Seq(Task) /\ Len(task') = Len(task)
      /\ \A j \in Ids : task'[j] = IF j = i THEN r ELSE task[j]
  BY <1>2, <1>3, ExceptSeq DEF TypeOK, Ids
<1> QED BY <1>2, <1>4

LEMMA EndsTask == ASSUME TypeOK, NEW i \in Ids, NEW a \in Answers, EndsWith(i, a)
    PROVE /\ task' \in Seq(Task) /\ Len(task') = Len(task)
          /\ \A j \in Ids : /\ task'[j].pic = task[j].pic /\ task'[j].by = task[j].by
                            /\ task'[j].out = task[j].out
                            /\ task'[j].at = IF j = i THEN "ended" ELSE task[j].at
                            /\ task'[j].answer = IF j = i THEN a ELSE task[j].answer
<1> DEFINE r == [task[i] EXCEPT !.at = "ended", !.answer = a]
<1>1. task[i] \in Task
  BY TaskFields
<1>2. /\ r \in Task /\ r.pic = task[i].pic /\ r.by = task[i].by /\ r.at = "ended"
      /\ r.out = task[i].out /\ r.answer = a
  BY <1>1 DEF Task
<1>3. task' = [task EXCEPT ![i] = r]
  BY LenTask DEF EndsWith
<1> HIDE DEF r
<1>4. /\ task' \in Seq(Task) /\ Len(task') = Len(task)
      /\ \A j \in Ids : task'[j] = IF j = i THEN r ELSE task[j]
  BY <1>2, <1>3, ExceptSeq DEF TypeOK, Ids
<1> QED BY <1>2, <1>4

\* A worker that ends its task with a proper answer.
LEMMA EndsAdvances == ASSUME TypeOK, NEW i \in Ids, NEW a \in Answers, EndsWith(i, a),
                             task[i].at \in AtWork,
                             a = "problem" => ~IsGif(task[i].pic) /\ Still(i) \in Bad,
                             i = hook /\ a # "blocked" => Judged(i)
    PROVE Advances /\ (a # "blocked" => Quiet)
BY EndsTask DEF Advances, Advance, Proper, Quiet

-----------------------------------------------------------------------------
(* The inductive invariant                                                 *)

\* Frames are stills submitted by an earlier GIF; a GIF is never analysed as
\* one picture; and what is cancelled is a frame of a GIF that has ended.
Shape == \A i \in Ids :
    /\ task[i].by # TheHook =>
        /\ task[i].by \in Ids /\ task[i].by < i
        /\ ~IsGif(task[i].pic) /\ IsGif(task[task[i].by].pic)
    /\ task[i].at \in {"look", "run", "batch", "got"} => ~IsGif(task[i].pic)
    /\ task[i].at \in {"collect", "join"} => IsGif(task[i].pic)
    /\ task[i].at = "cancelled" => task[i].by \in Ids /\ task[task[i].by].at = "ended"

\* A GIF has submitted no frame before it is taken, and not all while it collects.
Collecting == \A g \in Ids :
    /\ task[g].at = "queued" => FramesOf(g) = {}
    /\ task[g].at = "collect" => Cardinality(FramesOf(g)) < Len(task[g].pic)

\* The pool takes its tasks in the order they were submitted.
InOrder == \A i, j \in Ids :
    i < j /\ task[j].at \notin {"queued", "cancelled"} => task[i].at # "queued"

\* The hook waits for the last picture it has submitted, and for no other.
OneWait ==
    /\ hook # Nobody => hook \in Asked /\ \A i \in Asked : i <= hook
    /\ \A i \in Asked :
        /\ task[i].out # "none"
        /\ i # hook => task[i].out # "waiting"
        /\ task[i].out \in {"passed", "forbidden"} => task[i].at = "ended"
        /\ i = hook => task[i].out = "waiting"

\* Answers are final and right; the hook waits while the pool takes tasks, and an
\* answer it may hear, unless "blocked", is about a picture that has been judged.
Right ==
    /\ \A i \in Ids : /\ task[i].answer = "problem" => ~IsGif(task[i].pic) /\ Still(i) \in Bad
                      /\ task[i].answer = "blocked" => task[i].at = "ended"
    /\ \A i \in Asked : task[i].pic \in Pictures
    /\ hook # Nobody => pool = "open"
    /\ hook # Nobody /\ task[hook].at = "ended" /\ task[hook].answer # "blocked" => Judged(hook)

Inv == TypeOK /\ CacheSound /\ Shape /\ Collecting /\ InOrder /\ OneWait /\ Right

LEMMA CacheIsSound == Inv => Sound(cache)
BY DEF Inv, TypeOK, CacheSound, Sound, Truthful, Distinct, Entry

LEMMA InvInit == Init => Inv
<1> SUFFICES ASSUME Init PROVE Inv
  OBVIOUS
<1>1. task = <<>> /\ Len(task) = 0 /\ Ids = {}
  BY EmptySeq DEF Init, Ids
<1>2. TypeOK
  BY <1>1, EmptySeq DEF Init, TypeOK
<1>3. DOMAIN cache = {} /\ Len(cache) = 0
  BY EmptySeq DEF Init
<1>4. CacheSound
  BY <1>3, PredictorAssumption DEF CacheSound
<1> QED BY <1>1, <1>2, <1>4 DEF Init, Inv, Shape, Collecting, InOrder, OneWait, Right, Asked

\* Steps that submit nothing keep the parts about the tasks.
LEMMA AdvanceKeeps == ASSUME Inv, Advances
    PROVE Shape' /\ Collecting' /\ InOrder'
<1>1. Ids' = Ids
  BY DEF Advances, Ids
<1>2. \A j \in Ids : task'[j].pic = task[j].pic /\ task'[j].by = task[j].by
  BY DEF Advances, Advance
<1>3. \A j \in Ids : task[j].at = "ended" => task'[j].at = "ended"
  BY DEF Advances, Advance, AtWork
<1>4. Shape'
  <2> SUFFICES ASSUME NEW i \in Ids
        PROVE /\ task'[i].by # TheHook =>
                    /\ task'[i].by \in Ids /\ task'[i].by < i
                    /\ ~IsGif(task'[i].pic) /\ IsGif(task'[task'[i].by].pic)
              /\ task'[i].at \in {"look", "run", "batch", "got"} => ~IsGif(task'[i].pic)
              /\ task'[i].at \in {"collect", "join"} => IsGif(task'[i].pic)
              /\ task'[i].at = "cancelled" => task'[i].by \in Ids /\ task'[task'[i].by].at = "ended"
    BY <1>1 DEF Shape
  <2>1. Advance(i)
    BY DEF Advances
  <2>2. IsGif(task'[i].pic) = IsGif(task[i].pic)
    BY <1>2
  <2>3. task[i].by \in Ids => IsGif(task'[task[i].by].pic) = IsGif(task[task[i].by].pic)
    BY <1>2
  <2> QED BY <1>2, <1>3, <2>1, <2>2, <2>3 DEF Inv, Shape, Advance, AtWork
<1>5. \A g : FramesOf(g)' = FramesOf(g)
  BY <1>1, <1>2 DEF FramesOf
<1>6. Collecting'
  <2> SUFFICES ASSUME NEW g \in Ids
        PROVE /\ task'[g].at = "queued" => FramesOf(g) = {}
              /\ task'[g].at = "collect" => Cardinality(FramesOf(g)) < Len(task'[g].pic)
    BY <1>1, <1>5 DEF Collecting
  <2>1. Advance(g)
    BY DEF Advances
  <2>2. CASE task[g].at = "queued"
    <3>1. FramesOf(g) = {}
      BY <2>2 DEF Inv, Collecting
    <3>2. Cardinality({}) = 0
      BY FS_EmptySet
    <3>3. 0 < Len(task[g].pic)
      BY TaskFields DEF Inv
    <3> QED BY <1>2, <3>1, <3>2, <3>3
  <2>3. CASE task[g].at # "queued"
    BY <1>2, <2>1, <2>3 DEF Inv, Collecting, Advance
  <2> QED BY <2>2, <2>3
<1>7. InOrder'
  <2> SUFFICES ASSUME NEW i \in Ids, NEW j \in Ids, i < j,
                      task'[j].at \notin {"queued", "cancelled"}
        PROVE task'[i].at # "queued"
    BY <1>1 DEF InOrder
  <2>1. Advance(i) /\ Advance(j)
    BY DEF Advances
  <2>2. task[i].at # "queued" => task'[i].at # "queued"
    BY <2>1 DEF Advance
  <2>3. CASE NextInLine(j)
    <3>1. i \in 1 .. j - 1
      BY LenTask DEF Inv, Ids
    <3> QED BY <2>2, <2>3, <3>1 DEF NextInLine
  <2>4. CASE ~NextInLine(j)
    <3>1. task[j].at \notin {"queued", "cancelled"}
      BY <2>1, <2>4 DEF Advance, AtWork
    <3> QED BY <2>2, <3>1 DEF Inv, InOrder
  <2> QED BY <2>3, <2>4
<1> QED BY <1>4, <1>6, <1>7

\* They keep the parts about the hook too, when it goes on waiting.
LEMMA AdvanceKeepsHook == ASSUME Inv, Advances, hook' = hook, hook # Nobody => pool' = "open"
    PROVE OneWait' /\ Right'
<1>1. Ids' = Ids
  BY DEF Advances, Ids
<1>2. \A j \in Ids : /\ task'[j].pic = task[j].pic /\ task'[j].by = task[j].by
                     /\ task'[j].out = task[j].out
  BY DEF Advances, Advance
<1>3. \A j \in Ids : task[j].at = "ended" =>
        task'[j].at = "ended" /\ task'[j].answer = task[j].answer
  BY DEF Advances, Advance, AtWork
<1>4. Asked' = Asked /\ Asked \subseteq Ids
  BY <1>1, <1>2 DEF Asked
<1>5. OneWait'
  BY <1>1, <1>2, <1>3, <1>4 DEF Inv, OneWait, Asked
<1>6. \A i \in Ids : \/ task'[i].answer = task[i].answer
                     \/ task'[i].at = "ended" /\ Proper(i)
  BY DEF Advances, Advance
<1>7. \A i \in Ids : Still(i)' = Still(i)
  BY <1>2 DEF Still
<1>8. \A i \in Ids : /\ task'[i].answer = "problem" => ~IsGif(task'[i].pic) /\ Still(i)' \in Bad
                     /\ task'[i].answer = "blocked" => task'[i].at = "ended"
  <2> TAKE i \in Ids
  <2>1. IsGif(task'[i].pic) = IsGif(task[i].pic)
    BY <1>2
  <2> QED BY <1>3, <1>6, <1>7, <2>1 DEF Inv, Right, Proper
<1>9. \A i \in Asked : task'[i].pic \in Pictures
  BY <1>2, <1>4 DEF Inv, Right
<1>10. ASSUME hook # Nobody, task'[hook].at = "ended", task'[hook].answer # "blocked"
       PROVE Judged(hook)'
  <2>1. hook \in Ids /\ Advance(hook)
    BY <1>10 DEF Inv, TypeOK, Advances
  <2>2. (task[hook].at = "ended" /\ task[hook].answer # "blocked") \/ Proper(hook)
    BY <1>10, <2>1 DEF Advance, AtWork
  <2>3. Judged(hook)
    BY <1>10, <2>2 DEF Inv, Right, Proper
  <2>4. FramesOf(hook)' = FramesOf(hook) /\ FramesOf(hook) \subseteq Ids
    BY <1>1, <1>2 DEF FramesOf
  <2>5. \A f \in FramesOf(hook)' : task'[f].at = "ended" /\ task'[f].answer # "blocked"
    BY <1>3, <2>3, <2>4 DEF Judged
  <2> QED BY <2>5 DEF Judged
<1>11. Right'
  BY <1>1, <1>4, <1>8, <1>9, <1>10 DEF Right
<1> QED BY <1>5, <1>11

-----------------------------------------------------------------------------
(* The steps                                                               *)

\* What a step on the tasks has to keep beside them.
Beside ==
    /\ hook' = hook /\ (hook # Nobody => pool' = "open")
    /\ batching' = batching /\ pool' \in {"open", "closing", "closed"}
    /\ Sound(cache') /\ inbox' \in Seq(Ids) /\ batch' \in Seq(Ids)

\* No such step changes what the hook has asked about, or what it has heard.
LEMMA AdvanceIsSilent == ASSUME Advances PROVE UNCHANGED verdictsNow
<1>1. Ids' = Ids
  BY DEF Advances, Ids
<1>2. \A j \in Ids : task'[j].pic = task[j].pic /\ task'[j].by = task[j].by /\ task'[j].out = task[j].out
  BY DEF Advances, Advance
<1>3. Asked' = Asked /\ Asked \subseteq Ids
  BY <1>1, <1>2 DEF Asked
<1> QED BY <1>2, <1>3 DEF verdictsNow

\* Nor whose picture has left a batch without an answer, but for a timeout there.
LEMMA QuietIsSilent == ASSUME Inv, Advances, Quiet PROVE UNCHANGED UnjudgedNow
<1>1. Ids' = Ids
  BY DEF Advances, Ids
<1>2. \A j \in Ids : task'[j].by = task[j].by
  BY DEF Advances, Advance
<1>3. Asked' = Asked /\ Asked \subseteq Ids
  BY <1>1, <1>2 DEF Asked
<1>4. \A i \in Ids : FramesOf(i)' = FramesOf(i) /\ FramesOf(i) \subseteq Ids
  BY <1>1, <1>2 DEF FramesOf
<1>5. \A j \in Ids : task[j].answer = "blocked" => task'[j].answer = "blocked"
  BY DEF Inv, Right, Advances, Advance, AtWork
<1>6. ASSUME NEW i \in Asked, NEW j \in {i} \cup FramesOf(i), task'[j].answer = "blocked"
      PROVE \E k \in {i} \cup FramesOf(i) : task[k].answer = "blocked"
  <2>1. i \in Ids /\ j \in Ids /\ i # TheHook
    BY <1>3, <1>4, LenTask DEF Inv, Ids, TheHook
  <2>2. PICK k \in {j} \cup FramesOf(j) : task[k].answer = "blocked"
    BY <1>6, <2>1 DEF Quiet
  <2>3. CASE k = j
    BY <2>2, <2>3
  <2>4. CASE k \in FramesOf(j)
    <3>1. k \in Ids /\ task[k].by = j /\ j # TheHook
      BY <2>1, <2>4, LenTask DEF FramesOf, Inv, Ids, TheHook
    <3>2. IsGif(task[j].pic)
      BY <3>1 DEF Inv, Shape
    <3>3. j = i
      BY <2>1, <3>2 DEF Inv, Shape, FramesOf
    <3> QED BY <2>2, <2>4, <3>3
  <2> QED BY <2>3, <2>4
<1> QED BY <1>3, <1>4, <1>5, <1>6 DEF UnjudgedNow

\* A still has no frames, and has been judged as one.
LEMMA StillIsJudged == ASSUME Inv, NEW i \in Ids, ~IsGif(task[i].pic) PROVE Judged(i)
<1>1. i # TheHook
  BY LenTask DEF Inv, Ids, TheHook
<1>2. FramesOf(i) = {}
  BY <1>1 DEF FramesOf, Inv, Shape
<1> QED BY <1>2 DEF Judged

LEMMA InvAdvance == ASSUME Inv, Advances, Beside PROVE Inv' /\ UNCHANGED verdictsNow /\ (Quiet => UNCHANGED UnjudgedNow)
<1>1. Ids' = Ids
  BY DEF Advances, Ids
<1>2. TypeOK' /\ CacheSound'
  BY <1>1 DEF Inv, TypeOK, CacheSound, Advances, Beside, Sound, Truthful, Distinct, Entry
<1> QED BY <1>2, AdvanceKeeps, AdvanceKeepsHook, AdvanceIsSilent, QuietIsSilent DEF Inv, Beside

\* A step that leaves the tasks alone.
LEMMA InvStays == ASSUME Inv, task' = task, Beside PROVE Inv' /\ UNCHANGED <<verdictsNow, UnjudgedNow>>
<1>1. Advances /\ Quiet
  BY DEF Advances, Advance, Inv, TypeOK, Quiet
<1> QED BY <1>1, InvAdvance

\* The state beside the tasks when a step leaves all of it, or all but the cache.
LEMMA BesideStays == ASSUME Inv, UNCHANGED <<batching, hook, inbox, batch, pool>>, Sound(cache')
    PROVE Beside
BY DEF Beside, Inv, TypeOK, Right

LEMMA AtAStill == ASSUME Inv, NEW i \in Ids, task[i].at \in {"look", "run", "batch", "got"}
    PROVE ~IsGif(task[i].pic) /\ Judged(i)
BY StillIsJudged DEF Inv, Shape

\* A GIF takes "blocked" over from the first frame that has it.
LEMMA FoundAdvances == ASSUME Inv, NEW g \in Ids, GifFound(g) PROVE Advances /\ Quiet
<1> DEFINE r(i) == IF i = g THEN [task[i] EXCEPT !.at = "ended", !.answer = "blocked"]
                   ELSE IF task[i].by = g /\ task[i].at = "queued"
                        THEN [task[i] EXCEPT !.at = "cancelled"] ELSE task[i]
<1>1. task' = [i \in Ids |-> r(i)] /\ task[g].at = "join"
  BY DEF GifFound
<1>2. \A i \in Ids : task[i] \in Task
  BY TaskFields DEF Inv
<1>3. \A i \in Ids :
        /\ r(i) \in Task /\ r(i).pic = task[i].pic /\ r(i).by = task[i].by /\ r(i).out = task[i].out
        /\ r(i).at = IF i = g THEN "ended"
                     ELSE IF task[i].by = g /\ task[i].at = "queued" THEN "cancelled" ELSE task[i].at
        /\ r(i).answer = IF i = g THEN "blocked" ELSE task[i].answer
  BY <1>2 DEF Task, Answers, Places
<1> HIDE DEF r
<1>4. Len(task) \in Nat /\ task' \in [1 .. Len(task) -> Task]
  BY <1>1, <1>3, LenTask DEF Inv, Ids
<1>5. task' \in Seq(Task) /\ Len(task') = Len(task)
  BY <1>4, FunctionIsSeq
<1>6. \E f \in FramesOf(g) : task[f].answer = "blocked"
  BY DEF GifFound, Found, IsTrue
<1>7. \A i \in Ids : Advance(i)
  BY <1>1, <1>3 DEF Advance, Proper, AtWork
<1>8. Quiet
  BY <1>1, <1>3, <1>6 DEF Quiet
<1> QED BY <1>5, <1>7, <1>8 DEF Advances

\* A task is submitted: the earlier ones stay, but for the GIF it is a frame of.
Grows(n, g) ==
    /\ task' \in Seq(Task) /\ Len(task') = Len(task) + 1
    /\ n = Len(task) + 1 /\ Ids' = Ids \cup {n} /\ n \notin Ids
    /\ task'[n].at = "queued" /\ task'[n].answer = "none" /\ task'[n].by = g
    /\ \A j \in Ids : /\ task'[j].pic = task[j].pic /\ task'[j].by = task[j].by
                      /\ task'[j].out = task[j].out /\ task'[j].answer = task[j].answer
                      /\ \/ task'[j].at = task[j].at
                         \/ j = g /\ task[j].at = "collect" /\ task'[j].at = "join"

LEMMA NewTaskTypes == ASSUME NEW p \in Picture, NEW by \in Nat
    PROVE NewTask(p, by) \in Task
BY DEF NewTask, Task, Answers, Picture

SameButFor(base, g) == \A j \in Ids :
    /\ base[j].pic = task[j].pic /\ base[j].by = task[j].by
    /\ base[j].out = task[j].out /\ base[j].answer = task[j].answer
    /\ base[j].at = task[j].at \/ (j = g /\ task[j].at = "collect" /\ base[j].at = "join")

LEMMA AppendGrows == ASSUME Inv, NEW base \in Seq(Task), Len(base) = Len(task),
                            NEW p \in Picture, NEW g \in Nat, SameButFor(base, g),
                            task' = Append(base, NewTask(p, g))
    PROVE Grows(Len(task) + 1, g) /\ task'[Len(task) + 1] = NewTask(p, g)
<1>1. Len(task) \in Nat
  BY LenTask DEF Inv
<1>2. /\ task' \in Seq(Task) /\ Len(task') = Len(task) + 1
      /\ \A j \in Ids : task'[j] = base[j]
      /\ task'[Len(task) + 1] = NewTask(p, g)
  BY NewTaskTypes, AppendProperties DEF Ids
<1>3. Ids' = Ids \cup {Len(task) + 1} /\ Len(task) + 1 \notin Ids
  BY <1>1, <1>2 DEF Ids
<1>4. /\ task'[Len(task) + 1].at = "queued" /\ task'[Len(task) + 1].answer = "none"
      /\ task'[Len(task) + 1].by = g
  BY <1>2 DEF NewTask
<1>5. \A j \in Ids : task'[j] = base[j]
  BY <1>2
<1>6. \A j \in Ids :
        /\ task'[j].pic = task[j].pic /\ task'[j].by = task[j].by
        /\ task'[j].out = task[j].out /\ task'[j].answer = task[j].answer
        /\ \/ task'[j].at = task[j].at
           \/ j = g /\ task[j].at = "collect" /\ task'[j].at = "join"
  BY <1>5 DEF SameButFor
<1> QED BY <1>2, <1>3, <1>4, <1>6 DEF Grows

LEMMA GrowFrames == ASSUME Inv, NEW n, NEW g \in Ids \cup {TheHook}, Grows(n, g)
    PROVE /\ \A j \in Ids : FramesOf(j)' = IF j = g THEN FramesOf(j) \cup {n} ELSE FramesOf(j)
          /\ FramesOf(n)' = {}
<1>1. \A i \in Ids : i \in Nat /\ i < n
  BY LenTask DEF Inv, Ids, Grows
<1>2. \A j \in Ids : FramesOf(j)' = IF j = g THEN FramesOf(j) \cup {n} ELSE FramesOf(j)
  BY DEF FramesOf, Grows
<1>3. g # n /\ n # TheHook
  BY <1>1, LenTask DEF TheHook, Grows, Inv
<1>4. \A i \in Ids : task[i].by # n
  BY <1>1, <1>3 DEF Inv, Shape, Grows
<1> QED BY <1>2, <1>3, <1>4 DEF FramesOf, Grows

\* What is submitted has not timed out.
LEMMA GrowIsQuiet == ASSUME Inv, NEW n, NEW g \in Ids \cup {TheHook}, Grows(n, g)
    PROVE UNCHANGED UnjudgedNow
<1> DEFINE Late(j) == task[j].answer = "blocked"
<1>1. \A j \in Ids : FramesOf(j) \subseteq Ids /\ Late(j)' = Late(j)
  BY DEF FramesOf, Grows
<1>2. ~Late(n)'
  BY DEF Grows
<1> HIDE DEF Late
<1>3. \A i \in Ids : (\E j \in {i} \cup FramesOf(i)' : Late(j)') <=> (\E j \in {i} \cup FramesOf(i) : Late(j))
  BY <1>1, <1>2, GrowFrames
<1>4. ~\E j \in {n} \cup FramesOf(n)' : Late(j)'
  BY <1>2, GrowFrames
<1>5. Asked' \subseteq Asked \cup {n} /\ Asked \subseteq Asked' /\ Asked \subseteq Ids
  BY DEF Asked, Grows
<1>6. UnjudgedNow = {i \in Asked : \E j \in {i} \cup FramesOf(i) : Late(j)}
  BY DEF UnjudgedNow, Late
<1>7. UnjudgedNow' = {i \in Asked' : \E j \in {i} \cup FramesOf(i)' : Late(j)'}
  BY DEF UnjudgedNow, Late
<1> QED BY <1>3, <1>4, <1>5, <1>6, <1>7

LEMMA GrowKeeps == ASSUME Inv, NEW n, NEW g, Grows(n, g), n \in Nat,
                          g # TheHook => g \in Ids /\ task[g].at = "collect" /\ ~IsGif(task'[n].pic),
                          g # TheHook /\ task'[g].at = "collect" =>
                              Cardinality(FramesOf(g)) + 1 < Len(task[g].pic)
    PROVE Shape' /\ Collecting' /\ InOrder'
<1>1. \A i \in Ids : i \in Nat /\ i < n
  BY LenTask DEF Inv, Ids, Grows
<1>2. Shape'
  <2> SUFFICES ASSUME NEW i \in Ids \cup {n}
        PROVE /\ task'[i].by # TheHook =>
                    /\ task'[i].by \in Ids' /\ task'[i].by < i
                    /\ ~IsGif(task'[i].pic) /\ IsGif(task'[task'[i].by].pic)
              /\ task'[i].at \in {"look", "run", "batch", "got"} => ~IsGif(task'[i].pic)
              /\ task'[i].at \in {"collect", "join"} => IsGif(task'[i].pic)
              /\ task'[i].at = "cancelled" => task'[i].by \in Ids' /\ task'[task'[i].by].at = "ended"
    BY DEF Shape, Grows
  <2>1. \A j \in Ids : IsGif(task'[j].pic) = IsGif(task[j].pic)
    BY DEF Grows
  <2>2. CASE i = n
    <3>1. g # TheHook => IsGif(task[g].pic)
      BY DEF Inv, Shape
    <3> QED BY <1>1, <2>1, <2>2, <3>1 DEF Grows
  <2>3. CASE i \in Ids
    BY <2>1, <2>3 DEF Inv, Shape, Grows
  <2> QED BY <2>2, <2>3
<1>3. \A j \in Ids : FramesOf(j)' = IF j = g THEN FramesOf(j) \cup {n} ELSE FramesOf(j)
  BY GrowFrames
<1>4. FramesOf(n)' = {}
  BY GrowFrames
<1>5. Collecting'
  <2> SUFFICES ASSUME NEW j \in Ids \cup {n}
        PROVE /\ task'[j].at = "queued" => FramesOf(j)' = {}
              /\ task'[j].at = "collect" => Cardinality(FramesOf(j)') < Len(task'[j].pic)
    BY DEF Collecting, Grows
  <2>1. CASE j = n
    BY <1>4, <2>1 DEF Grows
  <2>2. CASE j \in Ids /\ j # g
    BY <1>3, <2>2 DEF Grows, Inv, Collecting
  <2>3. CASE j \in Ids /\ j = g
    <3>1. g # TheHook
      BY <1>1, <2>3, LenTask DEF TheHook, Ids, Inv
    <3>2. IsFiniteSet(FramesOf(g)) /\ n \notin FramesOf(g)
      <4>1. IsFiniteSet(1 .. Len(task))
        BY LenTask, FS_Interval DEF Inv
      <4> QED BY <4>1, FS_Subset DEF FramesOf, Ids, Grows
    <3>3. Cardinality(FramesOf(g)') = Cardinality(FramesOf(g)) + 1
      BY <1>3, <2>3, <3>2, FS_AddElement
    <3> QED BY <2>3, <3>1, <3>3 DEF Grows
  <2> QED BY <2>1, <2>2, <2>3
<1>6. InOrder'
  <2> SUFFICES ASSUME NEW i \in Ids \cup {n}, NEW j \in Ids \cup {n}, i < j,
                      task'[j].at \notin {"queued", "cancelled"}
        PROVE task'[i].at # "queued"
    BY DEF InOrder, Grows
  <2>1. j \in Ids /\ i \in Ids
    BY <1>1 DEF Grows
  <2> QED BY <2>1 DEF Grows, Inv, InOrder
<1> QED BY <1>2, <1>5, <1>6

LEMMA BesideTypes == ASSUME Inv, NEW n, NEW g, Grows(n, g),
                            UNCHANGED <<batching, cache, inbox, batch, pool>>,
                            hook' \in Ids' \cup {Nobody}
    PROVE TypeOK' /\ CacheSound'
<1>1. Ids \subseteq Ids'
  BY DEF Grows
<1>2. inbox' \in Seq(Ids') /\ batch' \in Seq(Ids')
  BY <1>1, SeqMonotonic DEF Inv, TypeOK
<1> QED BY <1>2 DEF Inv, TypeOK, CacheSound, Grows

LEMMA AskInv == ASSUME Inv, NEW p \in Pictures, Ask(p) PROVE Inv' /\ A!Ask(p)
<1> DEFINE n == Len(task) + 1
<1>1. p \in Picture /\ Len(task) \in Nat
  BY PredictorAssumption, LenTask DEF Picture, Inv
<1>2. Grows(n, TheHook) /\ task'[n] = NewTask(p, TheHook)
  <2>1. task \in Seq(Task) /\ task' = Append(task, NewTask(p, TheHook))
    BY DEF Ask, Inv, TypeOK
  <2>2. SameButFor(task, TheHook) /\ TheHook \in Nat
    BY DEF SameButFor, TheHook
  <2> QED BY <1>1, <2>1, <2>2, AppendGrows
<1>3. \A i \in Ids : i \in Nat /\ i < n
  BY <1>1 DEF Ids
<1>4. n \in Nat /\ n # Nobody
  BY <1>1 DEF Nobody
<1>5. hook' = n /\ hook = Nobody /\ pool = "open" /\ UNCHANGED <<batching, cache, inbox, batch, pool>>
  BY DEF Ask
<1> HIDE DEF n
<1>6. Shape' /\ Collecting' /\ InOrder'
  BY <1>2, <1>4, GrowKeeps
<1>7. TypeOK' /\ CacheSound'
  BY <1>2, <1>5, BesideTypes DEF Grows
<1>8. task'[n].out = "waiting" /\ task'[n].answer = "none" /\ task'[n].by = TheHook
  BY <1>2 DEF NewTask
<1>9. OneWait'
  <2>1. Asked' = Asked \cup {n}
    BY <1>2 DEF Asked, Grows
  <2>2. \A i \in Asked : i \in Ids /\ i < n
    BY <1>3 DEF Asked
  <2>3. hook' \in Asked' /\ \A i \in Asked' : i <= hook'
    BY <1>4, <1>5, <2>1, <2>2, <1>3
  <2>4. \A i \in Asked : i # hook
    BY <1>3, <1>5, <2>2, LenTask DEF Ids, Nobody, Inv
  <2>5. \A i \in Asked : task'[i].out = task[i].out /\ i # n
          /\ (task[i].at = "ended" => task'[i].at = "ended")
    BY <1>2, <1>3, <2>2 DEF Grows
  <2>6. \A i \in Asked \cup {n} :
          /\ task'[i].out # "none"
          /\ i # n => task'[i].out # "waiting"
          /\ task'[i].out \in {"passed", "forbidden"} => task'[i].at = "ended"
          /\ i = n => task'[i].out = "waiting"
    BY <1>8, <2>4, <2>5 DEF Inv, OneWait
  <2> QED BY <1>5, <2>1, <2>3, <2>6 DEF OneWait
<1>10. Right'
  <2>1. \A i \in Ids : /\ Still(i)' = Still(i) /\ task'[i].pic = task[i].pic /\ task'[i].by = task[i].by
                       /\ task'[i].answer = task[i].answer
                       /\ task[i].at = "ended" => task'[i].at = "ended"
    BY <1>2 DEF Still, Grows
  <2>2. Ids' = Ids \cup {n} /\ Asked' = Asked \cup {n} /\ Asked \subseteq Ids
    BY <1>2 DEF Grows, Asked
  <2>3. task'[n].pic = p /\ task'[n].at = "queued"
    BY <1>2 DEF NewTask
  <2>4. \A i \in Ids' : /\ task'[i].answer = "problem" => ~IsGif(task'[i].pic) /\ Still(i)' \in Bad
                        /\ task'[i].answer = "blocked" => task'[i].at = "ended"
    BY <1>8, <2>1, <2>2 DEF Inv, Right
  <2>5. \A i \in Asked' : task'[i].pic \in Pictures
    BY <2>1, <2>2, <2>3 DEF Inv, Right
  <2> QED BY <1>5, <2>3, <2>4, <2>5 DEF Right
<1>11. A!Ask(p)
  <2>1. Asked' = Asked \cup {n} /\ n \notin Asked /\ Asked \subseteq Ids
    BY <1>2 DEF Asked, Grows
  <2>2. \A i \in Asked : task'[i].pic = task[i].pic /\ task'[i].out = task[i].out
    BY <1>2, <2>1 DEF Grows
  <2>3. task'[n].pic = p /\ task'[n].out = "waiting"
    BY <1>2 DEF NewTask
  <2>4. verdictsNow' = [i \in Asked \cup {n} |->
                         IF i = n THEN [pic |-> p, out |-> "waiting"] ELSE verdictsNow[i]]
    BY <2>1, <2>2, <2>3 DEF verdictsNow
  <2>5. DOMAIN verdictsNow = Asked /\ DOMAIN verdictsNow' = Asked \cup {n}
    BY <2>4 DEF verdictsNow
  <2>6. A!Waiting = {}
    <3>1. \A i \in Asked : i # hook
      BY <1>3, <1>5, <2>1, LenTask DEF Ids, Nobody, Inv
    <3>2. \A i \in Asked : verdictsNow[i].out = task[i].out
      BY DEF verdictsNow
    <3> QED BY <2>5, <3>1, <3>2 DEF A!Waiting, Inv, OneWait
  <2>7. n \in DOMAIN verdictsNow' \ DOMAIN verdictsNow
    BY <2>1, <2>5
  <2>8. UNCHANGED UnjudgedNow
    BY <1>2, GrowIsQuiet
  <2> QED BY <2>4, <2>5, <2>6, <2>7, <2>8 DEF A!Ask
<1> QED BY <1>6, <1>7, <1>9, <1>10, <1>11 DEF Inv

LEMMA SubmitInv == ASSUME Inv, NEW g \in Ids, SubmitFrame(g)
    PROVE Inv' /\ UNCHANGED <<verdictsNow, UnjudgedNow>>
<1> DEFINE n == Len(task) + 1
           k == Cardinality(FramesOf(g))
           p == task[g].pic
           base == IF k + 1 = Len(p) THEN [task EXCEPT ![g].at = "join"] ELSE task
<1>1. /\ task[g].at = "collect" /\ task' = Append(base, NewTask(<<p[k + 1]>>, g))
      /\ UNCHANGED <<batching, hook, cache, inbox, batch, pool>>
  BY DEF SubmitFrame
<1>2. TypeOK /\ Len(task) \in Nat /\ g \in Nat /\ g # TheHook
  BY LenTask DEF Inv, Ids, TheHook
<1>3. k \in Nat
  <2>1. IsFiniteSet(1 .. Len(task))
    BY <1>2, FS_Interval
  <2>2. IsFiniteSet(FramesOf(g))
    BY <2>1, FS_Subset DEF FramesOf, Ids
  <2> QED BY <2>2, FS_CardinalityType
<1>4. k < Len(p) /\ p \in Seq(Stills) /\ Len(p) \in Nat
  BY <1>1, <1>2, TaskFields DEF Inv, Collecting, Picture
<1>5. <<p[k + 1]>> \in Picture /\ Len(<<p[k + 1]>>) = 1
  <2>1. p[k + 1] \in Stills
    BY <1>3, <1>4, ElementOfSeq
  <2> QED BY <2>1 DEF Picture
<1>6. /\ base \in Seq(Task) /\ Len(base) = Len(task)
      /\ \A j \in Ids :
           /\ base[j].pic = task[j].pic /\ base[j].by = task[j].by
           /\ base[j].out = task[j].out /\ base[j].answer = task[j].answer
           /\ base[j].at = IF j = g /\ k + 1 = Len(p) THEN "join" ELSE task[j].at
  <2>1. CASE k + 1 # Len(p)
    BY <1>2, <2>1 DEF TypeOK
  <2>2. CASE k + 1 = Len(p)
    <3> DEFINE r == [task[g] EXCEPT !.at = "join"]
    <3>1. /\ r \in Task /\ r.pic = task[g].pic /\ r.by = task[g].by /\ r.at = "join"
          /\ r.out = task[g].out /\ r.answer = task[g].answer
      BY <1>2, TaskFields DEF Task, AtWork
    <3>2. base = [task EXCEPT ![g] = r]
      BY <2>2
    <3> HIDE DEF r, base
    <3>3. /\ base \in Seq(Task) /\ Len(base) = Len(task)
          /\ \A j \in Ids : base[j] = IF j = g THEN r ELSE task[j]
      BY <1>2, <3>1, <3>2, ExceptSeq DEF TypeOK, Ids
    <3> QED BY <2>2, <3>1, <3>3
  <2> QED BY <2>1, <2>2
<1> HIDE DEF base, p
<1>7. Grows(n, g) /\ task'[n] = NewTask(<<p[k + 1]>>, g)
  <2>1. SameButFor(base, g)
    BY <1>1, <1>6 DEF SameButFor
  <2> QED BY <1>1, <1>2, <1>5, <1>6, <2>1, AppendGrows
<1>8. n \in Nat /\ ~IsGif(task'[n].pic)
  BY <1>2, <1>5, <1>7 DEF IsGif, NewTask
<1>9. task'[g].at = "collect" => k + 1 < Len(task[g].pic)
  <2>1. task'[g].at = base[g].at
    <3>1. /\ \A j \in 1 .. Len(base) : Append(base, NewTask(<<p[k + 1]>>, g))[j] = base[j]
      BY <1>2, <1>5, <1>6, NewTaskTypes, AppendProperties
    <3> QED BY <1>1, <1>6, <3>1 DEF Ids
  <2>2. task'[g].at = "collect" => k + 1 # Len(p)
    BY <1>6, <2>1
  <2>3. k + 1 # Len(p) => k + 1 < Len(p)
    BY <1>3, <1>4
  <2> QED BY <2>2, <2>3 DEF p
<1> HIDE DEF n, k
<1>10. Shape' /\ Collecting' /\ InOrder'
  BY <1>1, <1>2, <1>7, <1>8, <1>9, GrowKeeps DEF k
<1>11. TypeOK' /\ CacheSound'
  <2>1. Ids \subseteq Ids'
    BY <1>7 DEF Grows
  <2>2. hook' \in Ids' \cup {Nobody}
    BY <1>1, <1>2, <2>1 DEF TypeOK
  <2> QED BY <1>1, <1>7, <2>2, BesideTypes
<1>12. task'[n].out = "none" /\ task'[n].answer = "none" /\ task'[n].by = g
  BY <1>2, <1>7 DEF NewTask
<1>13. OneWait'
  <2>1. Asked' = Asked /\ n \notin Asked
    BY <1>2, <1>12, <1>7 DEF Asked, Grows
  <2>2. \A i \in Asked : task'[i].out = task[i].out /\ (task[i].at = "ended" => task'[i].at = "ended")
    BY <1>7 DEF Grows, Asked
  <2> QED BY <1>1, <2>1, <2>2 DEF Inv, OneWait
<1>14. Right'
  <2>1. \A i \in Ids : /\ Still(i)' = Still(i) /\ task'[i].pic = task[i].pic /\ task'[i].by = task[i].by
                       /\ task'[i].answer = task[i].answer
                       /\ task[i].at = "ended" => task'[i].at = "ended"
                       /\ task'[i].at = "ended" => task[i].at = "ended"
    BY <1>7 DEF Still, Grows
  <2>2. Ids' = Ids \cup {n} /\ Asked' = Asked /\ Asked \subseteq Ids
    BY <1>2, <1>7, <1>12 DEF Grows, Asked
  <2>3. \A i \in Ids' : /\ task'[i].answer = "problem" => ~IsGif(task'[i].pic) /\ Still(i)' \in Bad
                        /\ task'[i].answer = "blocked" => task'[i].at = "ended"
    BY <1>12, <2>1, <2>2 DEF Inv, Right
  <2>4. \A i \in Asked' : task'[i].pic \in Pictures
    BY <2>1, <2>2 DEF Inv, Right
  <2>5. ASSUME hook # Nobody, task'[hook].at = "ended", task'[hook].answer # "blocked"
        PROVE Judged(hook)'
    <3>1. hook \in Ids
      BY <1>2, <2>5 DEF TypeOK
    <3>2. Judged(hook) /\ hook # g
      BY <1>1, <2>1, <2>5, <3>1 DEF Inv, Right
    <3>3. FramesOf(hook)' = FramesOf(hook)
      <4>1. \A j \in Ids : j # g => {i \in Ids' : task'[i].by = j} = FramesOf(j)
        BY <1>7, GrowFrames DEF FramesOf
      <4> QED BY <1>1, <3>1, <3>2, <4>1 DEF FramesOf
    <3>4. \A f \in FramesOf(hook)' : task'[f].at = "ended" /\ task'[f].answer # "blocked"
      BY <2>1, <3>2, <3>3 DEF Judged, FramesOf
    <3> QED BY <3>4 DEF Judged
  <2>6. hook' = hook /\ (hook # Nobody => pool' = "open")
    BY <1>1 DEF Inv, Right
  <2> QED BY <2>3, <2>4, <2>5, <2>6 DEF Right
<1>15. UNCHANGED <<verdictsNow, UnjudgedNow>>
  <2>1. Asked' = Asked /\ Asked \subseteq Ids
    BY <1>2, <1>12, <1>7 DEF Asked, Grows
  <2>2. \A i \in Asked : task'[i].pic = task[i].pic /\ task'[i].out = task[i].out
    BY <1>7, <2>1 DEF Grows
  <2>3. UNCHANGED UnjudgedNow
    BY <1>7, GrowIsQuiet
  <2> QED BY <2>1, <2>2, <2>3 DEF verdictsNow
<1> QED BY <1>10, <1>11, <1>13, <1>14, <1>15 DEF Inv

\* A worker that gives up on its batch leaves the picture it works for unjudged.
LEMMA GivesUp == ASSUME Inv, NEW i \in Ids, BatchTimeout(i)
    PROVE Inv' /\ \E g \in Asked : A!GiveUp(g)
<1>1. TypeOK /\ Sound(cache) /\ task[i].at = "batch"
  BY CacheIsSound DEF Inv, BatchTimeout
<1>2. Advances
  BY <1>1, EndsAdvances, AtAStill DEF BatchTimeout, Answers, AtWork
<1>3. Inv' /\ UNCHANGED verdictsNow
  BY <1>1, <1>2, BesideStays, InvAdvance DEF BatchTimeout
<1>4. /\ Ids' = Ids
      /\ \A j \in Ids : /\ task'[j].by = task[j].by
                        /\ task'[j].answer = IF j = i THEN "blocked" ELSE task[j].answer
  BY <1>1, EndsTask DEF BatchTimeout, Answers, Ids
<1>5. Asked' = Asked /\ \A x \in Ids : FramesOf(x)' = FramesOf(x) /\ FramesOf(x) \subseteq Ids
  BY <1>4 DEF Asked, FramesOf
<1> DEFINE g == IF i \in Asked THEN i ELSE task[i].by
<1>6. g \in Asked /\ i \in {g} \cup FramesOf(g)
  <2>1. CASE i \in Asked
    BY <2>1
  <2>2. CASE i \notin Asked
    <3>1. task[i].by \in Ids /\ IsGif(task[task[i].by].pic)
      BY <2>2 DEF Asked, Inv, Shape
    <3>2. task[task[i].by].by = TheHook
      BY <3>1 DEF Inv, Shape
    <3> QED BY <2>2, <3>1, <3>2 DEF Asked, FramesOf
  <2> QED BY <2>1, <2>2
<1>7. \A x \in Asked : i \in {x} \cup FramesOf(x) => x = g
  BY LenTask DEF Asked, FramesOf, Inv, Ids, TheHook
<1> HIDE DEF g
<1>8. \A x \in Asked : \A j \in {x} \cup FramesOf(x) :
        task'[j].answer = "blocked" <=> (j = i \/ task[j].answer = "blocked")
  BY <1>4, <1>5 DEF Asked
<1>9. UnjudgedNow' = UnjudgedNow \cup {g}
  <2>1. UnjudgedNow' =
          {x \in Asked : \E j \in {x} \cup FramesOf(x) : task'[j].answer = "blocked"}
    <3>1. \A x \in Asked : FramesOf(x)' = FramesOf(x)
      BY <1>5 DEF Asked
    <3> QED BY <1>5, <3>1 DEF UnjudgedNow
  <2> QED BY <1>6, <1>7, <1>8, <2>1 DEF UnjudgedNow
<1> QED BY <1>3, <1>6, <1>9 DEF A!GiveUp

LEMMA WorkerInv == Inv /\ WorkerStep => Inv' /\ [A!VerdictsNext]_<<verdictsNow, UnjudgedNow>>
<1> SUFFICES ASSUME Inv, NEW i \in Ids,
                    \/ Take(i) \/ Hit(i) \/ Miss(i) \/ Finish(i)
                    \/ \E answer \in Failures : RunFails(i, answer)
                    \/ GifFails(i) \/ GifFound(i) \/ GifPasses(i)
             PROVE Inv' /\ UNCHANGED <<verdictsNow, UnjudgedNow>>
  <2>1. DOMAIN verdictsNow = Asked
    BY DEF verdictsNow
  <2> QED BY <2>1, SubmitInv, GivesUp DEF WorkerStep, A!VerdictsNext
<1>0. TypeOK /\ Sound(cache) /\ task[i] \in Task /\ Still(i) \in Stills
  BY CacheIsSound, TaskFields DEF Inv
<1>1. CASE Take(i)
  <2>1. Advances /\ Quiet
    BY <1>0, <1>1, MovesTask DEF Take, Advances, Advance, Quiet, Places, AtWork, NextInLine
  <2> QED BY <1>0, <1>1, <2>1, BesideStays, InvAdvance DEF Take
<1>2. CASE Hit(i)
  <2>1. PICK k \in DOMAIN cache : /\ cache[k].pic = Still(i) /\ EndsWith(i, cache[k].answer)
                                  /\ cache' = MovedToEnd(cache, k)
    BY <1>2 DEF Hit
  <2>2. cache[k].answer = Verdict(Still(i))
    BY <1>0, <2>1 DEF Sound, Truthful
  <2>3. Advances /\ Quiet
    BY <1>0, <1>2, <2>1, <2>2, EndsAdvances, VerdictTypes, AtAStill DEF Hit, Verdict, AtWork
  <2> QED BY <1>0, <1>2, <2>1, <2>3, MovedSound, BesideStays, InvAdvance DEF Hit
<1>3. CASE Miss(i)
  <2>1. Advances /\ Quiet
    <3>1. PICK at \in {"batch", "run"} : Moves(i, at)
      BY <1>3 DEF Miss
    <3> QED BY <1>0, <1>3, <3>1, MovesTask DEF Miss, Advances, Advance, Quiet, Places, AtWork
  <2>2. inbox' \in Seq(Ids)
    <3>1. inbox \in Seq(Ids)
      BY <1>0 DEF TypeOK
    <3>2. inbox' = inbox \/ inbox' = Append(inbox, i)
      BY <1>3 DEF Miss
    <3> QED BY <3>1, <3>2, AppendProperties
  <2>3. Beside
    BY <1>0, <1>3, <2>2 DEF Miss, Beside, TypeOK, Inv, Right
  <2> QED BY <2>1, <2>3, InvAdvance
<1>4. CASE Finish(i)
  <2>1. Advances /\ Quiet
    BY <1>0, <1>4, EndsAdvances, VerdictTypes, AtAStill DEF Finish, Verdict, AtWork
  <2>2. Sound(cache')
    BY <1>0, <1>4, StoredSound DEF Finish
  <2> QED BY <1>4, <2>1, <2>2, BesideStays, InvAdvance DEF Finish
<1>5. ASSUME NEW answer \in Failures, RunFails(i, answer) PROVE Inv' /\ UNCHANGED <<verdictsNow, UnjudgedNow>>
  <2>1. Advances /\ Quiet
    BY <1>0, <1>5, EndsAdvances, AtAStill DEF RunFails, Failures, Answers, AtWork
  <2> QED BY <1>0, <1>5, <2>1, BesideStays, InvAdvance DEF RunFails
<1>6. CASE GifFails(i)
  <2>1. i = hook => FramesOf(i) = {}
    BY <1>6, LenTask DEF GifFails, Inv, Right, Ids, Nobody
  <2>2. Advances /\ Quiet
    BY <1>0, <1>6, <2>1, EndsAdvances DEF GifFails, Answers, AtWork, Judged
  <2> QED BY <1>0, <1>6, <2>2, BesideStays, InvAdvance DEF GifFails
<1>7. CASE GifFound(i)
  <2>1. Advances /\ Quiet
    BY <1>0, <1>7, FoundAdvances
  <2> QED BY <1>0, <1>7, <2>1, BesideStays, InvAdvance DEF GifFound
<1>8. CASE GifPasses(i)
  <2>1. Judged(i)
    BY <1>8 DEF GifPasses, Joined, Found, IsTrue, Judged
  <2>2. Advances /\ Quiet
    BY <1>0, <1>8, <2>1, EndsAdvances DEF GifPasses, Answers, AtWork
  <2> QED BY <1>0, <1>8, <2>2, BesideStays, InvAdvance DEF GifPasses
<1> QED BY <1>1, <1>2, <1>3, <1>4, <1>5, <1>6, <1>7, <1>8

\* The hook stops waiting: it has heard an answer, or 60 s have gone by.
Settles(out) ==
    /\ hook # Nobody /\ hook' = Nobody
    /\ task' = [task EXCEPT ![hook].out = out]
    /\ UNCHANGED <<batching, cache, inbox, batch, pool>>

\* What is not a GIF is one frame.
LEMMA OneFrame == ASSUME NEW p \in Picture, ~IsGif(p) PROVE p = <<Head(p)>>
<1>1. p \in Seq(Stills) /\ p # <<>>
  BY DEF Picture
<1>2. Len(p) \in Nat \ {0}
  BY <1>1, EmptySeq
<1>3. ~(Len(p) > 1)
  BY DEF IsGif
<1>4. \A n \in Nat \ {0} : ~(n > 1) => n = 1
  OBVIOUS
<1>5. Len(p) = 1
  BY <1>2, <1>3, <1>4, Zenon
<1> QED BY <1>1, <1>5

LEMMA SettlesInv == ASSUME Inv, NEW out \in {"passed", "forbidden", "timeout"}, Settles(out),
                           out \in {"passed", "forbidden"} => task[hook].at = "ended",
                           out = "forbidden" => task[hook].pic \in BadPictures \/ hook \in UnjudgedNow,
                           out = "passed" => hook \notin UnjudgedNow
    PROVE Inv' /\ A!Answer(hook, out)
<1> DEFINE r == [task[hook] EXCEPT !.out = out]
<1>1. hook \in Ids /\ TypeOK
  BY DEF Inv, TypeOK, Settles
<1>2. /\ r \in Task /\ r.pic = task[hook].pic /\ r.by = task[hook].by /\ r.at = task[hook].at
      /\ r.out = out /\ r.answer = task[hook].answer
  BY <1>1, TaskFields DEF Task
<1>3. task' = [task EXCEPT ![hook] = r]
  BY DEF Settles
<1> HIDE DEF r
<1>4. /\ task' \in Seq(Task) /\ Len(task') = Len(task)
      /\ \A j \in Ids : task'[j] = IF j = hook THEN r ELSE task[j]
  BY <1>1, <1>2, <1>3, ExceptSeq DEF TypeOK, Ids
<1>5. \A j \in Ids : /\ task'[j].pic = task[j].pic /\ task'[j].by = task[j].by
                     /\ task'[j].at = task[j].at /\ task'[j].answer = task[j].answer
                     /\ task'[j].out = IF j = hook THEN out ELSE task[j].out
  BY <1>2, <1>4
<1>6. Ids' = Ids
  BY <1>4 DEF Ids
<1>7. TypeOK' /\ CacheSound'
  BY <1>4, <1>6 DEF Settles, Inv, TypeOK, CacheSound
<1>8. Shape'
  <2>1. \A j \in Ids : IsGif(task'[j].pic) = IsGif(task[j].pic)
    BY <1>5
  <2> QED BY <1>5, <1>6, <2>1 DEF Inv, Shape
<1>9. \A g : FramesOf(g)' = FramesOf(g)
  BY <1>5, <1>6 DEF FramesOf
<1>10. Collecting' /\ InOrder'
  BY <1>5, <1>6, <1>9 DEF Inv, Collecting, InOrder
<1>11. Asked' = Asked /\ hook' = Nobody /\ \A i \in Ids : i # Nobody
  BY <1>1, <1>5, <1>6, LenTask DEF Asked, Settles, Ids, Nobody
<1>12. OneWait'
  <2>1. \A i \in Asked : i \in Ids
    BY DEF Asked
  <2> QED BY <1>5, <1>11, <2>1 DEF Inv, OneWait
<1>13. Right'
  <2>1. \A i \in Ids : Still(i)' = Still(i)
    BY <1>5 DEF Still
  <2>2. \A i \in Asked : task'[i].pic = task[i].pic
    BY <1>5 DEF Asked
  <2> QED BY <1>5, <1>6, <1>11, <2>1, <2>2 DEF Inv, Right
<1>14. A!Answer(hook, out)
  <2>1. hook \in Asked /\ task[hook].out = "waiting" /\ Asked \subseteq Ids
    BY DEF Inv, OneWait, Settles, Asked
  <2>2. DOMAIN verdictsNow = Asked /\ hook \in A!Waiting /\ verdictsNow[hook].pic = task[hook].pic
    BY <2>1 DEF A!Waiting, verdictsNow
  <2>3. verdictsNow' = [verdictsNow EXCEPT ![hook] = [pic |-> verdictsNow[hook].pic, out |-> out]]
    BY <1>5, <1>11, <2>1 DEF verdictsNow
  <2>4. UNCHANGED UnjudgedNow
    BY <1>5, <1>9, <1>11 DEF UnjudgedNow, Asked, FramesOf
  <2> QED BY <2>2, <2>3, <2>4 DEF A!Answer
<1> QED BY <1>7, <1>8, <1>10, <1>12, <1>13, <1>14 DEF Inv

LEMMA HookInv == Inv /\ HookStep => Inv' /\ [A!VerdictsNext]_<<verdictsNow, UnjudgedNow>>
<1> SUFFICES ASSUME Inv, HookStep PROVE Inv' /\ [A!VerdictsNext]_<<verdictsNow, UnjudgedNow>>
  OBVIOUS
<1>1. CASE Hear
  <2>1. hook \in Ids /\ hook # Nobody /\ task[hook].at = "ended"
    BY <1>1 DEF Hear, Inv, TypeOK
  <2>2. Settles(Outcome(task[hook].answer))
    BY <1>1 DEF Hear, Settles
  <2>3. Outcome(task[hook].answer) = "forbidden" =>
          task[hook].pic \in BadPictures \/ hook \in UnjudgedNow
    <3>1. hook \in Asked /\ task[hook].pic \in Picture
      BY <2>1, TaskFields DEF Inv, OneWait
    <3>2. CASE task[hook].answer = "problem"
      <4>1. ~IsGif(task[hook].pic) /\ Head(task[hook].pic) \in Bad /\ task[hook].pic \in Pictures
        BY <2>1, <3>1, <3>2 DEF Inv, Right, Still
      <4>2. task[hook].pic = <<Head(task[hook].pic)>>
        BY <3>1, <4>1, OneFrame
      <4> QED BY <4>1, <4>2 DEF BadPictures
    <3>3. CASE task[hook].answer = "blocked"
      BY <3>1, <3>3 DEF UnjudgedNow
    <3> QED BY <3>2, <3>3 DEF Outcome
  <2>4. Outcome(task[hook].answer) = "passed" => hook \notin UnjudgedNow
    BY <2>1 DEF Outcome, Inv, Right, Judged, UnjudgedNow
  <2>5. Outcome(task[hook].answer) \in {"passed", "forbidden"}
    BY DEF Outcome
  <2>6. Inv' /\ A!Answer(hook, Outcome(task[hook].answer))
    BY <2>1, <2>2, <2>3, <2>4, <2>5, SettlesInv
  <2> QED BY <2>5, <2>6 DEF A!VerdictsNext, A!Answer
<1>2. CASE HookTimesOut
  <2>1. Settles("timeout")
    BY <1>2 DEF HookTimesOut, Settles
  <2>2. Inv' /\ A!Answer(hook, "timeout")
    BY <2>1, SettlesInv
  <2> QED BY <2>2 DEF A!VerdictsNext, A!Answer
<1>3. CASE ShutdownEnds
  <2>1. Sound(<<>>) /\ <<>> \in Seq(Ids)
    <3>1. DOMAIN <<>> = {} /\ Len(<<>>) = 0 /\ <<>> \in Seq(Entry) /\ <<>> \in Seq(Ids)
      BY EmptySeq
    <3> QED BY <3>1, PredictorAssumption DEF Sound, Truthful, Distinct
  <2>2. Beside
    BY <1>3, <2>1 DEF ShutdownEnds, Beside, Inv, TypeOK, Right
  <2> QED BY <1>3, <2>2, InvStays DEF ShutdownEnds
<1> QED BY <1>1, <1>2, <1>3 DEF HookStep

\* The workers a batch sets free, each with the answer or the failure.
LEMMA BatchInv == Inv /\ BatchStep => Inv' /\ UNCHANGED <<verdictsNow, UnjudgedNow>>
<1> SUFFICES ASSUME Inv, BatchStep PROVE Inv' /\ UNCHANGED <<verdictsNow, UnjudgedNow>>
  OBVIOUS
<1> USE DEF Answered
<1>0. TypeOK /\ Sound(cache) /\ Len(task) \in Nat /\ Ids = 1 .. Len(task)
  BY CacheIsSound, LenTask DEF Inv, Ids
<1>1. CASE BatchTake
  <2> DEFINE n == IF Len(inbox) < BatchSize THEN Len(inbox) ELSE BatchSize
  <2>1. inbox \in Seq(Ids) /\ Len(inbox) \in Nat /\ \A i \in 1 .. Len(inbox) : inbox[i] \in Ids
    BY <1>0, LenProperties, ElementOfSeq DEF TypeOK
  <2>2. n \in Nat /\ n <= Len(inbox)
    BY <2>1, PredictorAssumption
  <2>3. batch' = SubSeq(inbox, 1, n) /\ inbox' = SubSeq(inbox, n + 1, Len(inbox))
    BY <1>1 DEF BatchTake, First
  <2> HIDE DEF n
  <2>4. batch' \in Seq(Ids)
    BY <2>1, <2>2, <2>3, SubSeqProperties
  <2>5. inbox' \in Seq(Ids)
    <3>1. n + 1 \in Int /\ \A i \in n + 1 .. Len(inbox) : inbox[i] \in Ids
      BY <2>1, <2>2
    <3> QED BY <2>1, <2>3, <3>1, SubSeqProperties
  <2>6. Beside
    BY <1>0, <1>1, <2>4, <2>5 DEF BatchTake, Beside, TypeOK, Inv, Right
  <2> QED BY <1>1, <2>6, InvStays DEF BatchTake
<1>2. CASE BatchAnswers
  <2> DEFINE r(i) == IF Answered(i) THEN [task[i] EXCEPT !.at = "got"] ELSE task[i]
  <2>1. task' = [i \in Ids |-> r(i)]
    BY <1>2 DEF BatchAnswers
  <2>2. \A i \in Ids :
          /\ r(i) \in Task /\ r(i).pic = task[i].pic /\ r(i).by = task[i].by
          /\ r(i).out = task[i].out /\ r(i).answer = task[i].answer
          /\ r(i).at = task[i].at \/ (task[i].at = "batch" /\ r(i).at = "got")
    <3> SUFFICES ASSUME NEW i \in Ids
          PROVE /\ r(i) \in Task /\ r(i).pic = task[i].pic /\ r(i).by = task[i].by
                /\ r(i).out = task[i].out /\ r(i).answer = task[i].answer
                /\ r(i).at = task[i].at \/ (task[i].at = "batch" /\ r(i).at = "got")
      OBVIOUS
    <3>1. task[i] \in Task
      BY <1>0, TaskFields
    <3> QED BY <3>1 DEF Task, AtWork
  <2> HIDE DEF r
  <2>3. task' \in [1 .. Len(task) -> Task]
    BY <1>0, <2>1, <2>2
  <2>4. task' \in Seq(Task) /\ Len(task') = Len(task)
    BY <1>0, <2>3, FunctionIsSeq
  <2>5. Advances /\ Quiet
    BY <2>1, <2>2, <2>4 DEF Advances, Advance, Quiet
  <2>6. Beside
    BY <1>0, <1>2, EmptySeq DEF BatchAnswers, Beside, TypeOK, Inv, Right
  <2> QED BY <2>5, <2>6, InvAdvance
<1>3. ASSUME NEW answer \in Failures, BatchFails(answer) PROVE Inv' /\ UNCHANGED <<verdictsNow, UnjudgedNow>>
  <2> DEFINE r(i) == IF Answered(i) THEN [task[i] EXCEPT !.at = "ended", !.answer = answer] ELSE task[i]
  <2>1. task' = [i \in Ids |-> r(i)]
    BY <1>3 DEF BatchFails
  <2>2. \A i \in Ids :
          /\ r(i) \in Task /\ r(i).pic = task[i].pic /\ r(i).by = task[i].by /\ r(i).out = task[i].out
          /\ \/ r(i).at = task[i].at /\ r(i).answer = task[i].answer
             \/ task[i].at = "batch" /\ r(i).at = "ended" /\ r(i).answer = answer
    <3> SUFFICES ASSUME NEW i \in Ids
          PROVE /\ r(i) \in Task /\ r(i).pic = task[i].pic /\ r(i).by = task[i].by /\ r(i).out = task[i].out
                /\ \/ r(i).at = task[i].at /\ r(i).answer = task[i].answer
                   \/ task[i].at = "batch" /\ r(i).at = "ended" /\ r(i).answer = answer
      OBVIOUS
    <3>1. task[i] \in Task
      BY <1>0, TaskFields
    <3> QED BY <3>1 DEF Task, Failures, Answers
  <2> HIDE DEF r
  <2>3. task' \in [1 .. Len(task) -> Task]
    BY <1>0, <2>1, <2>2
  <2>4. task' \in Seq(Task) /\ Len(task') = Len(task)
    BY <1>0, <2>3, FunctionIsSeq
  <2>5. Advances /\ Quiet
    <3>1. \A i \in Ids : task[i].at = "batch" => Judged(i)
      BY AtAStill
    <3> QED BY <2>1, <2>2, <2>4, <3>1 DEF Advances, Advance, Proper, Quiet, Failures, AtWork
  <2>6. Beside
    BY <1>0, <1>3, EmptySeq DEF BatchFails, Beside, TypeOK, Inv, Right
  <2> QED BY <2>5, <2>6, InvAdvance
<1> QED BY <1>1, <1>2, <1>3 DEF BatchStep

LEMMA ShedInv == Inv /\ Shed => Inv' /\ UNCHANGED <<verdictsNow, UnjudgedNow>>
<1> SUFFICES ASSUME Inv, Shed PROVE Inv' /\ UNCHANGED <<verdictsNow, UnjudgedNow>>
  OBVIOUS
<1>1. Sound(cache) /\ Len(cache) \in Nat
  BY CacheIsSound, LenProperties DEF Sound
<1>2. Sound(<<>>)
  <2>1. DOMAIN <<>> = {} /\ Len(<<>>) = 0 /\ <<>> \in Seq(Entry)
    BY EmptySeq
  <2> QED BY <2>1, PredictorAssumption DEF Sound, Truthful, Distinct
<1>3. Len(cache) \div Share \in 0 .. Len(cache)
  BY <1>1, PredictorAssumption
<1>4. Sound(cache')
  BY <1>1, <1>2, <1>3, SuffixSound DEF Shed
<1>5. Beside
  BY <1>4, BesideStays DEF Shed
<1> QED BY <1>5, InvStays DEF Shed

\* Every step keeps the invariant, and is a step of ImageVerdicts or none of its.
LEMMA InvStep == Inv /\ [Next]_vars => Inv' /\ [A!VerdictsNext]_<<verdictsNow, UnjudgedNow>>
<1> SUFFICES ASSUME Inv, [Next]_vars PROVE Inv' /\ [A!VerdictsNext]_<<verdictsNow, UnjudgedNow>>
  OBVIOUS
<1>1. CASE Shutdown
  <2>1. Beside
    BY <1>1, CacheIsSound DEF Shutdown, Beside, Inv, TypeOK
  <2> QED BY <1>1, <2>1, InvStays DEF Shutdown
<1>2. CASE UNCHANGED vars
  <2>1. Beside
    BY <1>2, CacheIsSound DEF vars, Beside, Inv, TypeOK, Right
  <2> QED BY <1>2, <2>1, InvStays DEF vars
<1>3. ASSUME NEW p \in Pictures, Ask(p) PROVE Inv' /\ [A!VerdictsNext]_<<verdictsNow, UnjudgedNow>>
  BY <1>3, AskInv DEF A!VerdictsNext
<1> QED BY <1>1, <1>2, <1>3, HookInv, WorkerInv, BatchInv, ShedInv DEF Next

LEMMA AlwaysInv == Spec => []Inv
BY InvInit, InvStep, PTL DEF Spec

-----------------------------------------------------------------------------
(* The results                                                             *)

\* Every variable keeps its type, whatever is submitted and whatever fails.
THEOREM TypeCorrect == Spec => []TypeOK
BY AlwaysInv, PTL DEF Inv

\* The cache is bounded, has one entry per still and holds the network's verdicts
\* only (ai_detect.py:236-257, 304-326).
THEOREM CacheCorrect == Spec => []CacheSound
BY AlwaysInv, PTL DEF Inv

\* The hook asks about one picture at a time and gives one outcome for each; a 403
\* replaces only what is improper or what no batch has judged in time, and what an
\* answer lets through has had no such timeout, whichever of the two waits of 60 s
\* ends first (proxy_mitm.py:303-322, ai_detect.py:304-310, 352-366).
THEOREM VerdictsAreRight == Spec => VerdictSpec
<1>1. Init => A!VerdictsInit
  <2> SUFFICES ASSUME Init PROVE verdictsNow = [i \in {} |-> i] /\ UnjudgedNow = {}
    BY DEF A!VerdictsInit
  <2>1. Asked = {}
    BY EmptySeq DEF Init, Asked, Ids
  <2> QED BY <2>1 DEF verdictsNow, UnjudgedNow
<1> QED BY <1>1, AlwaysInv, InvStep, PTL DEF Spec, VerdictSpec, A!Verdicts

LEMMA InvLocksUpLate == Inv => StuckOnlyLate
<1> SUFFICES ASSUME Inv, Stuck, NEW g \in Busy, NEW h \in Busy, g < h
      PROVE /\ task[g].out = "timeout"
            /\ \A f \in FramesOf(g) : task[f].at # "ended" => f > h
  BY DEF StuckOnlyLate
<1>1. g \in Ids /\ h \in Ids /\ task[g].at = "join" /\ task[h].at = "join"
  BY DEF Stuck, Busy
<1>2. g \in Asked /\ h \in Asked
  BY <1>1 DEF Inv, Shape, Asked
<1>3. g # hook
  <2>1. g \in Nat /\ h \in Nat
    BY <1>1, LenTask DEF Inv, Ids
  <2>2. hook # Nobody => h <= hook
    BY <1>2 DEF Inv, OneWait
  <2>3. hook \in Nat /\ g # Nobody
    BY <1>1, LenTask DEF Inv, TypeOK, Ids, Nobody
  <2> QED BY <2>1, <2>2, <2>3
<1>4. task[g].out \in {"none", "waiting", "forbidden", "passed", "timeout"}
  BY <1>1, TaskFields DEF Inv, Task
<1>5. task[g].out = "timeout"
  BY <1>1, <1>2, <1>3, <1>4 DEF Inv, OneWait
<1>6. ASSUME NEW f \in FramesOf(g), task[f].at # "ended" PROVE f > h
  <2>1. f \in Ids /\ task[f].by = g /\ g # TheHook
    BY <1>1, LenTask DEF FramesOf, Inv, Ids, TheHook
  <2>2. task[f].at # "join" /\ f \notin Busy
    BY <2>1 DEF Inv, Shape, Stuck
  <2>3. task[f].at # "cancelled"
    BY <1>1, <2>1 DEF Inv, Shape
  <2>4. task[f].at = "queued"
    BY <1>6, <2>1, <2>2, <2>3, TaskFields DEF Inv, Busy, Places
  <2>5. ~(f < h)
    BY <1>1, <2>1, <2>4 DEF Inv, InOrder
  <2>6. f # h /\ f \in Nat /\ h \in Nat
    BY <1>1, <2>1, <2>2, LenTask DEF Inv, Ids
  <2> QED BY <2>5, <2>6
<1> QED BY <1>5, <1>6

\* The pool locks up only on GIFs the hook has given up on, but for the last of
\* them, whatever the number of workers (ai_detect.py:336-366).
THEOREM LocksUpLate == Spec => []StuckOnlyLate
BY InvLocksUpLate, AlwaysInv, PTL

GivenUp == {g \in Asked : IsGif(task[g].pic) /\ task[g].out = "timeout"}

\* A pool of n workers locks up only once the hook has given up on n - 1 GIFs.
LockupTakesTimeouts == Stuck => Cardinality(GivenUp) >= Workers - 1

LEMMA InvTakesTimeouts == Inv => LockupTakesTimeouts
<1> SUFFICES ASSUME Inv, Stuck PROVE Cardinality(GivenUp) >= Workers - 1
  BY DEF LockupTakesTimeouts
<1> DEFINE Late == {g \in Busy : \E h \in Busy : g < h}
<1>1. IsFiniteSet(Ids) /\ Busy \subseteq Ids /\ GivenUp \subseteq Ids /\ \A i \in Ids : i \in Nat
  BY LenTask, FS_Interval DEF Inv, Ids, Busy, GivenUp, Asked
<1>2. IsFiniteSet(Busy) /\ IsFiniteSet(GivenUp) /\ Cardinality(Busy) = Workers
  BY <1>1, FS_Subset DEF Stuck
<1>3. Late \subseteq GivenUp
  <2>1. \A g \in Busy : task[g].at = "join"
    BY DEF Stuck
  <2>2. \A g \in Busy : IsGif(task[g].pic) /\ g \in Asked
    BY <1>1, <2>1 DEF Inv, Shape, Asked
  <2>3. \A g \in Late : task[g].out = "timeout"
    BY InvLocksUpLate DEF StuckOnlyLate
  <2> QED BY <2>2, <2>3 DEF GivenUp
<1>4. IsFiniteSet(Late) /\ Cardinality(Late) <= Cardinality(GivenUp)
        /\ Cardinality(Late) \in Nat /\ Cardinality(GivenUp) \in Nat
  BY <1>2, <1>3, FS_Subset, FS_CardinalityType
<1>5. ASSUME NEW x \in Busy, x \notin Late PROVE Late = Busy \ {x}
  BY <1>1, <1>5
<1> HIDE DEF Late
<1>6. Workers - 1 <= Workers /\ Workers - 1 \in Int /\ Late \subseteq Busy
  BY PredictorAssumption DEF Late
<1>7. CASE Late = Busy
  BY <1>2, <1>4, <1>6, <1>7, PredictorAssumption
<1>8. CASE Late # Busy
  <2>1. PICK x \in Busy : Late = Busy \ {x}
    BY <1>5, <1>6, <1>8
  <2>2. Cardinality(Late) = Workers - 1
    BY <1>2, <2>1, FS_RemoveElement
  <2> QED BY <1>4, <1>6, <2>2
<1> QED BY <1>7, <1>8

\* With n workers, the pool cannot lock up before the hook has waited 60 s in vain
\* for n - 1 animated GIFs (ai_detect.py:346-366, proxy_mitm.py:307).
THEOREM LockupIsSlow == Spec => []LockupTakesTimeouts
BY InvTakesTimeouts, AlwaysInv, PTL
=============================================================================
