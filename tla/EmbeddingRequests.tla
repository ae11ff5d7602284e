-------------------------- MODULE EmbeddingRequests --------------------------
(***************************************************************************)
(* The requests that generate the vectors of one memory after another.     *)
(*                                                                         *)
(* generate_chunks() holds the window of recent requests from its first    *)
(* chunk to its last, so there is one generation at a time.  Of its chunks *)
(* Concurrency are under way: each asks the window before every attempt,   *)
(* sleeps as long as it is told, queues at the gate that it shares with    *)
(* the searches, sends, and sleeps again before a retry.  The first error  *)
(* ends the generation and drops the requests that are under way.          *)
(*                                                                         *)
(* Times are kept as ages and as time left, so nothing bounds the clock.   *)
(* The time a request takes is any number of ticks.                        *)
(***************************************************************************)
EXTENDS ContentChunks

CONSTANTS
  Rpm, Tpm,      (* requests and tokens of a window                          *)
  Window,        (* 60 seconds, in ticks                                     *)
  Delays,        (* EMBEDDING_RETRY_DELAYS, in ticks                         *)
  Concurrency,   (* buffer_unordered(4)                                      *)
  Permits,       (* EMBED_GATE: 2                                            *)
  Searches,      (* bound: searches at the gate at a time                    *)
  None

ASSUME RequestsAssumption ==
  /\ {Rpm, Tpm, Window, Concurrency, Permits, Budget} \subseteq Nat \ {0}
  /\ Delays \in Seq(Nat \ {0})
  /\ Searches \cap Nat = {}
  /\ None \notin Documents

VARIABLES
  doc,       (* the memory whose vectors are generated, or None              *)
  headings,  (* its headings and their paths                                 *)
  chunks,    (* its chunks, as far as they are cut                           *)
  progress,  (* where each chunk is: progress[i] belongs to chunks[i]        *)
  done,      (* the chunks with a vector, as they came in                    *)
  recent,    (* the window: age and tokens of each request, oldest first     *)
  gate,      (* who has asked for a permit, in order: chunks and searches    *)
  admitted,  (* history: requests the window has let pass, of one Window     *)
  sent       (* history: requests sent for chunks, of one Window             *)

requestsVars == <<doc, headings, chunks, progress, done, recent, gate, admitted, sent>>
job == <<doc, headings, chunks, progress, done>>

Places == {"unstarted", "asleep", "queued", "sent", "done"}

Requests == [age : 0 .. Window, tokens : Nat]

Progress == [at : Places, left : Nat, attempt : 0 .. Len(Delays)]

Unstarted == [at |-> "unstarted", left |-> 0, attempt |-> 0]

RequestsInit ==
  /\ doc = None /\ headings = <<>> /\ chunks = <<>> /\ progress = <<>> /\ done = <<>>
  /\ recent = <<>> /\ gate = <<>>
  /\ admitted = <<>> /\ sent = <<>>

-----------------------------------------------------------------------------
(* embedding_request_wait()                                                *)

Tokens(s) ==
  LET sum[k \in 0 .. Len(s)] == IF k = 0 THEN 0 ELSE sum[k - 1] + s[k].tokens IN sum[Len(s)]

\* Mutant: a request leaves the window a tick too early.
OverEarly(r) == r.age + 1 >= Window

Over(r) == r.age >= Window

\* Those in front that are over are dropped.
InWindow(s) ==
  LET over == {k \in 0 .. Len(s) : \A i \in 1 .. k : Over(s[i])} IN
  SubSeq(s, Max(over) + 1, Len(s))

Room(s, tokens) == Len(s) < Rpm /\ Tokens(s) + tokens <= Tpm

\* Mutant: until the oldest is over, which need not be enough.
WaitForOldest(s, tokens) == Window - s[1].age

\* Until enough of the oldest are over.
WaitFor(s, tokens) ==
  LET leaving == {k \in 1 .. Len(s) : Room(SubSeq(s, k + 1, Len(s)), tokens)} IN
  Window - s[Min(leaving)].age

-----------------------------------------------------------------------------
(* A generation is started, cuts the content, and ends                     *)

Generating == doc # None
IsCut == chunks # <<>> /\ EndOf(chunks) = Length(doc)

Begin(d) ==
  /\ ~ Generating
  /\ doc' = d /\ headings' = HeadingPaths(d)
  /\ UNCHANGED <<chunks, progress, done, recent, gate, admitted, sent>>

Cut ==
  /\ Generating /\ ~ IsCut
  /\ \E end \in FittingEnds(doc, headings, EndOf(chunks)) :
       chunks' = Append(chunks, ChunkTo(doc, headings, chunks, EndOf(chunks), end))
  /\ progress' = Append(progress, Unstarted)
  /\ UNCHANGED <<doc, headings, done, recent, gate, admitted, sent>>

\* The generation is over; what is dropped with it gives back its permits.
Ended ==
  /\ doc' = None /\ headings' = <<>> /\ chunks' = <<>> /\ progress' = <<>> /\ done' = <<>>
  /\ gate' = Those(gate, Searches)
  /\ UNCHANGED <<admitted, sent>>

CutFails ==
  /\ Generating /\ ~ IsCut /\ MayNotFit(doc, headings, EndOf(chunks))
  /\ Ended /\ UNCHANGED recent

\* The chunks with their vectors, as these came in.
Returned == [k \in DOMAIN done |-> chunks[done[k]]]

\* Mutant: they stay so.
InOrderOfArrival == Returned

\* What is returned then: chunks.sort_by_key().
InOrder ==
  CHOOSE s \in [DOMAIN done -> Range(Returned)] :
    \A k, l \in DOMAIN done : k < l => s[k].index < s[l].index

Complete == Generating /\ IsCut /\ Len(done) = Len(chunks)

Finish == Complete /\ Ended /\ UNCHANGED recent

-----------------------------------------------------------------------------
(* request_shared_embedding_with_retry() of a chunk                        *)

UnderWay == {i \in DOMAIN progress : progress[i].at \in {"asleep", "queued", "sent"}}

\* The stream hands out the next chunk.
Start(i) ==
  /\ IsCut /\ Cardinality(UnderWay) < Concurrency
  /\ progress[i] = Unstarted
  /\ \A j \in 1 .. i - 1 : progress[j] # Unstarted
  /\ progress' = [progress EXCEPT ![i].at = "asleep"]
  /\ UNCHANGED <<doc, headings, chunks, done, recent, gate, admitted, sent>>

Awake(i) == progress[i].at = "asleep" /\ progress[i].left = 0

Now(i) == [age |-> 0, tokens |-> chunks[i].tokens]

\* The window is asked and changed under its mutex, with the time read there.
Admit(i) ==
  /\ Awake(i) /\ Room(InWindow(recent), chunks[i].tokens)
  /\ recent' = Append(InWindow(recent), Now(i))
  /\ admitted' = Append(admitted, Now(i))
  /\ progress' = [progress EXCEPT ![i].at = "queued"]
  /\ gate' = Append(gate, i)
  /\ UNCHANGED <<doc, headings, chunks, done, sent>>

SleepOn(i) ==
  /\ Awake(i) /\ chunks[i].tokens <= Tpm /\ ~ Room(InWindow(recent), chunks[i].tokens)
  /\ recent' = InWindow(recent)
  /\ progress' = [progress EXCEPT ![i].left = WaitFor(InWindow(recent), chunks[i].tokens)]
  /\ UNCHANGED <<doc, headings, chunks, done, gate, admitted, sent>>

\* More tokens than any window has: no wait would help.
TooLarge(i) ==
  /\ Awake(i) /\ chunks[i].tokens > Tpm
  /\ Ended /\ UNCHANGED recent

\* The semaphore is fair: those that asked first have the permits.
Served == {gate[k] : k \in 1 .. Min({Permits, Len(gate)})}

\* request_single_embedding(), with its permit.
Send(i) ==
  /\ progress[i].at = "queued" /\ i \in Served
  /\ progress' = [progress EXCEPT ![i].at = "sent"]
  /\ sent' = Append(sent, Now(i))
  /\ UNCHANGED <<doc, headings, chunks, done, recent, gate, admitted>>

Succeed(i) ==
  /\ progress[i].at = "sent"
  /\ progress' = [progress EXCEPT ![i].at = "done"]
  /\ done' = Append(done, i)
  /\ gate' = RemoveFirst(gate, i)
  /\ UNCHANGED <<doc, headings, chunks, recent, admitted, sent>>

\* Mutant: the attempts are not counted.
RetryForever(i) ==
  LET k == progress[i].attempt + 1 IN
  /\ progress[i].at = "sent" /\ k <= Len(Delays)
  /\ progress' = [progress EXCEPT ![i] = [at |-> "asleep", left |-> Delays[k], attempt |-> k - 1]]
  /\ gate' = RemoveFirst(gate, i)
  /\ UNCHANGED <<doc, headings, chunks, done, recent, admitted, sent>>

\* Mutant: the window is asked once for all attempts.
RetryUnasked(i) ==
  LET k == progress[i].attempt + 1 IN
  /\ progress[i].at = "sent" /\ k <= Len(Delays)
  /\ progress' = [progress EXCEPT ![i] = [at |-> "queued", left |-> 0, attempt |-> k]]
  /\ gate' = Append(RemoveFirst(gate, i), i)
  /\ UNCHANGED <<doc, headings, chunks, done, recent, admitted, sent>>

\* Mutant: the permit is kept during the back-off.
RetryHolding(i) ==
  LET k == progress[i].attempt + 1 IN
  /\ progress[i].at = "sent" /\ k <= Len(Delays)
  /\ progress' = [progress EXCEPT ![i] = [at |-> "asleep", left |-> Delays[k], attempt |-> k]]
  /\ UNCHANGED <<doc, headings, chunks, done, recent, gate, admitted, sent>>

\* An error that may pass: no answer in time, 429, 5xx.  The permit goes back
\* before the back-off.
Retry(i) ==
  LET k == progress[i].attempt + 1 IN
  /\ progress[i].at = "sent" /\ k <= Len(Delays)
  /\ progress' = [progress EXCEPT ![i] = [at |-> "asleep", left |-> Delays[k], attempt |-> k]]
  /\ gate' = RemoveFirst(gate, i)
  /\ UNCHANGED <<doc, headings, chunks, done, recent, admitted, sent>>

\* A permanent error, a vector that is not finite or zero, the last attempt.
Fail(i) ==
  /\ progress[i].at = "sent"
  /\ Ended /\ UNCHANGED recent

ChunkStep(i) ==
  \/ Start(i) \/ Admit(i) \/ SleepOn(i) \/ TooLarge(i)
  \/ Send(i) \/ Succeed(i) \/ Retry(i) \/ Fail(i)

-----------------------------------------------------------------------------
(* Searches: they pass the gate and not the window                         *)

Enter(u) ==
  /\ u \notin Range(gate)
  /\ gate' = Append(gate, u)
  /\ UNCHANGED <<job, recent, admitted, sent>>

\* With an answer, or given up by its client.
Leave(u) ==
  /\ u \in Range(gate)
  /\ gate' = RemoveFirst(gate, u)
  /\ UNCHANGED <<job, recent, admitted, sent>>

Older(s) == [k \in DOMAIN s |-> [s[k] EXCEPT !.age = Min({@ + 1, Window})]]
LastWindow(s) == Those(Older(s), {r \in Range(Older(s)) : r.age < Window})

Tick ==
  /\ recent' = Older(recent)
  /\ admitted' = LastWindow(admitted) /\ sent' = LastWindow(sent)
  /\ progress' = [i \in DOMAIN progress |-> [progress[i] EXCEPT !.left = IF @ = 0 THEN 0 ELSE @ - 1]]
  /\ UNCHANGED <<doc, headings, chunks, done, gate>>

RequestsNext ==
  \/ \E d \in Documents : Begin(d)
  \/ Cut \/ CutFails \/ Finish
  \/ \E i \in DOMAIN progress : ChunkStep(i)
  \/ \E u \in Searches : Enter(u) \/ Leave(u)
  \/ Tick

\* The task that generates is polled when one of its chunks can go on, time
\* passes, and no request takes longer than the timeout of the HTTP client.
RequestsFairness ==
  /\ WF_requestsVars(Cut \/ CutFails \/ Finish)
  /\ WF_requestsVars(\E i \in DOMAIN progress : ChunkStep(i))
  /\ \A u \in Searches : WF_requestsVars(u \in Served /\ Leave(u))
  /\ WF_requestsVars(Tick)

RequestsSpec == RequestsInit /\ [][RequestsNext]_requestsVars /\ RequestsFairness

-----------------------------------------------------------------------------
\* Types; a chunk is at the gate once while it is queued or sent, and none is
\* sent without a permit.
RequestsTypeOK ==
  /\ doc \in Documents \cup {None}
  /\ \A i \in DOMAIN chunks : DOMAIN chunks[i] = {"index", "start", "end", "title", "tokens"}
  /\ progress \in Seq(Progress) /\ Len(progress) = Len(chunks)
  /\ recent \in Seq(Requests) /\ admitted \in Seq(Requests) /\ sent \in Seq(Requests)
  /\ IsInjective(gate) /\ IsInjective(done)
  /\ Range(gate) \ Searches = {i \in DOMAIN progress : progress[i].at \in {"queued", "sent"}}
  /\ {i \in DOMAIN progress : progress[i].at = "sent"} \subseteq Served
  /\ Range(done) = {i \in DOMAIN progress : progress[i].at = "done"}

\* The window keeps its word: of any Window, it has let pass no more than Rpm
\* requests with Tpm tokens, whatever was retried, dropped or asked at once.
AdmittedWithinLimits == Len(admitted) <= Rpm /\ Tokens(admitted) <= Tpm

\* What reaches the provider exceeds that by those that were held up at the
\* gate, one per chunk under way at most: retries are counted like others.
SentNearLimits ==
  /\ Len(sent) <= Rpm + Concurrency
  /\ Tokens(sent) <= Tpm + Concurrency * Budget

\* As far as the content is cut, the chunks cover it without a gap, end where
\* a character does, stay in their section and fit the model.
ContentCovered ==
  \A i \in DOMAIN chunks :
    LET c == chunks[i] IN
    /\ c.start = IF i = 1 THEN 0 ELSE chunks[i - 1].end
    /\ c.end \in doc.chars /\ c.end <= Length(doc)
    /\ c.end > c.start \/ Length(doc) = 0
    /\ c.tokens <= Budget
    /\ \A h \in Range(headings) : ~ (c.start < h.at /\ h.at < c.end)

\* The headings outside of fences that come before "at", read backwards: each
\* counts that is of a higher level than all between it and "at".
TitlesAbove(d, at) ==
  LET fenced[k \in 0 .. Len(d.lines)] ==   \* the fence that is open after line k
        IF k = 0 THEN NoFence
        ELSE IF fenced[k - 1] = NoFence
             THEN IF Opens(d.lines[k]) THEN [kind |-> d.lines[k].kind, run |-> d.lines[k].run] ELSE NoFence
             ELSE IF Closes(d.lines[k], fenced[k - 1]) THEN NoFence ELSE fenced[k - 1]
      before == {k \in 1 .. Len(d.lines) : LineEnds(d)[k - 1] <= at
                   /\ d.lines[k].kind = "heading" /\ fenced[k - 1] = NoFence}
      counts == {k \in before : \A j \in before : k < j => d.lines[k].run < d.lines[j].run}
  IN {k \in counts : d.lines[k].rest # "blank"}

\* The path a chunk is embedded with names the headings it stands under, each
\* once and in order.
TitledByItsSection ==
  \A i \in DOMAIN chunks :
    LET title == chunks[i].title
        above == TitlesAbove(doc, chunks[i].start) IN
    \E line \in [DOMAIN title -> above] :
      /\ Range(line) = above
      /\ \A k, l \in DOMAIN title : k < l => line[k] < line[l]
      /\ \A k \in DOMAIN title : title[k] = doc.lines[line[k]].rest

\* What a generation returns are all its chunks, in the order that publication
\* demands, whatever order the answers came in.
ReturnedInOrder == Complete => Publishable(doc, InOrder)

AdmittedAfter(v) == Those(admitted, {r \in Range(admitted) : r.age + v < Window})

ToldToSleep(i) ==
  /\ i \in DOMAIN progress' /\ Awake(i)
  /\ progress'[i].at = "asleep" /\ progress'[i].left > 0

\* Who is sent to sleep is told the shortest time after which the window has
\* room, if no other request comes in between.
WaitIsLeast ==
  [][\A i \in DOMAIN progress : ToldToSleep(i) =>
       {v \in 0 .. Window : Room(AdmittedAfter(v), chunks[i].tokens)}
         = progress'[i].left .. Window]_requestsVars

\* Every generation comes to an end, with all its vectors or an error.
GenerationEnds == Generating ~> ~ Generating
=============================================================================
