------------------------------ MODULE Dashboard -------------------------------
(***************************************************************************)
(* How a figure reaches the browsers: metrics_pass of worker.py samples an *)
(* engine's token counter (services/vllm_metrics.py), publishes the sample *)
(* on the bus (events.py), and commits it; the websocket of api/fleet.py   *)
(* passes messages on; the browser (frontend/src/lib/api.ts) takes a       *)
(* message as a reason to fetch the summary, which it also polls, and the  *)
(* summary asks the proxy whether it is there unless a recent answer is    *)
(* cached.                                                                 *)
(*                                                                         *)
(* A message is only a hint: it is published before the commit it is       *)
(* about, ignored when one came just before, and lost with a full queue.   *)
(***************************************************************************)
EXTENDS Integers

CONSTANTS
  Client,       \* the browser tabs
  QUEUE,        \* messages a subscriber's queue holds (200)
  MAX_GETS,     \* fetches of a browser under way at once
  MAX_TOKENS,   \* an engine stops generating at this count
  MAX_MADE,     \* tokens generated between two samples
  CACHE_AGE,    \* ticks of the clock for which an answer is cached (15 s)
  TIMEOUT       \* and after which a question to the proxy is given up (15 s)

ASSUME DashboardAssumption ==
  /\ {QUEUE, MAX_GETS, MAX_TOKENS, MAX_MADE, CACHE_AGE, TIMEOUT} \subseteq Nat
  /\ MAX_GETS > 0 /\ CACHE_AGE > 0

VARIABLES
  tokens,    \* the engine's counter, 0 when it starts
  made,      \* tokens generated since the committed sample was taken
  row,       \* the committed last_metrics: the counter and the tokens counted
  pass,      \* the session of metrics_pass: idle, or the sample it will commit
  proxy,     \* the LiteLLM proxy answers; otherwise it refuses questions, or hangs
  past,      \* history, read by no action: what the proxy was, tick by tick
  cache,     \* _litellm_cache: its answer, and the ticks since its stamp
  socket,    \* a tab's websocket: "open", "closed", or "deaf" when it is open
             \* but its queue has been discarded
  queue,     \* messages in a tab's queue
  get,       \* the fetches of a tab
  shown      \* what a tab shows

vars == <<tokens, made, row, pass, proxy, past, cache, socket, queue, get, shown>>

NoGet == [at |-> "none"]
Idle  == [at |-> "idle"]

\* Older ages make no difference.
MaxAge == IF TIMEOUT > CACHE_AGE THEN TIMEOUT ELSE CACHE_AGE

Older(age) == IF age < MaxAge THEN age + 1 ELSE age

\* What the proxy was at some time of this tick and the k before it.
Within(history, k) == UNION {history[j] : j \in {i \in 0..(CACHE_AGE - 1) : i <= k}}

Cold == [age |-> MaxAge, value |-> FALSE]

\* What is too old is never read again.
Kept(entry) == IF entry.age < CACHE_AGE THEN entry ELSE Cold

-----------------------------------------------------------------------------
Init ==
  /\ tokens = 0 /\ made = 0
  /\ row = [total |-> 0, count |-> 0]
  /\ pass = Idle
  /\ proxy = TRUE
  /\ past = [k \in 0..(CACHE_AGE - 1) |-> {TRUE}]
  /\ cache = Cold
  /\ socket = [c \in Client |-> "closed"]
  /\ queue = [c \in Client |-> 0]
  /\ get = [c \in Client |-> [i \in 1..MAX_GETS |-> NoGet]]
  /\ shown = [c \in Client |-> [count |-> 0, proxy |-> FALSE]]

Generate ==
  /\ tokens < MAX_TOKENS /\ made < MAX_MADE
  /\ tokens' = tokens + 1 /\ made' = made + 1
  /\ UNCHANGED <<row, pass, proxy, past, cache, socket, queue, get, shown>>

\* The container's engine is restarted by docker: its counters start over.
EngineRestart ==
  /\ tokens > 0 /\ tokens' = 0
  /\ UNCHANGED <<made, row, pass, proxy, past, cache, socket, queue, get, shown>>

ProxyMoves ==
  /\ proxy' = ~ proxy
  /\ past' = [past EXCEPT ![0] = @ \cup {~ proxy}]
  /\ UNCHANGED <<tokens, made, row, pass, cache, socket, queue, get, shown>>

-----------------------------------------------------------------------------
\* Faulty: the queue takes one message too many.
MutantFull(c) == socket[c] = "open" /\ queue[c] > QUEUE

Full(c) == socket[c] = "open" /\ queue[c] = QUEUE

\* publish: every subscriber gets the message; one whose queue is full is
\* discarded and not told.
Publish ==
  /\ socket' = [c \in Client |-> IF Full(c) THEN "deaf" ELSE socket[c]]
  /\ queue' = [c \in Client |-> IF socket[c] = "open" /\ ~ Full(c) THEN queue[c] + 1 ELSE queue[c]]

\* Faulty: the counters differ in either direction.
MutantCounted(total, previous) ==
  {0, IF total >= previous THEN total - previous ELSE previous - total}

\* summarize: the tokens counted between two samples, unless the previous one is
\* missing, too old or too near.
Counted(total, previous) == {0, IF total >= previous THEN total - previous ELSE 0}

\* metrics_pass: a sample is published as soon as it is taken.  An engine that
\* does not answer is skipped.
Sample ==
  /\ pass = Idle
  /\ \E count \in Counted(tokens, row.total) :
       pass' = [at |-> "taken", total |-> tokens, count |-> count, made |-> made]
  /\ Publish
  /\ UNCHANGED <<tokens, made, row, proxy, past, cache, get, shown>>

\* The commit at the end of the pass.
CommitSample ==
  /\ pass # Idle
  /\ row' = [total |-> pass.total, count |-> pass.count]
  /\ made' = made - pass.made
  /\ pass' = Idle
  /\ UNCHANGED <<tokens, proxy, past, cache, socket, queue, get, shown>>

\* Another engine's sample raises, and nothing of the pass is committed (_loop).
LoseSample ==
  /\ pass # Idle
  /\ pass' = Idle
  /\ UNCHANGED <<tokens, made, row, proxy, past, cache, socket, queue, get, shown>>

\* Transitions, events, nodes and clusters are published as well.
PublishOther ==
  /\ \E c \in Client : socket[c] = "open"
  /\ Publish
  /\ UNCHANGED <<tokens, made, row, pass, proxy, past, cache, get, shown>>

-----------------------------------------------------------------------------
\* The browser fetches the summary, which reads the rows, and then the cached answer
\* if it is not too old.  A request is read when it is sent: one that is read later
\* might as well have been sent later.
Fetch(c, i) ==
  /\ get[c][i] = NoGet
  /\ get' = [get EXCEPT ![c][i] =
               IF cache.age < CACHE_AGE
               THEN [at |-> "answer", count |-> row.count, proxy |-> cache.value]
               ELSE [at |-> "check", count |-> row.count, age |-> 0]]

\* Faulty: a tab that shows something relies on messages.
MutantPoll(c) ==
  /\ shown[c] = [count |-> 0, proxy |-> FALSE]
  /\ \E i \in 1..MAX_GETS : Fetch(c, i)
  /\ UNCHANGED <<tokens, made, row, pass, proxy, past, cache, socket, queue, shown>>

\* usePolled.
Poll(c) ==
  /\ \E i \in 1..MAX_GETS : Fetch(c, i)
  /\ UNCHANGED <<tokens, made, row, pass, proxy, past, cache, socket, queue, shown>>

\* The proxy replies, or refuses, or hangs and the client gives up: the last two
\* are one answer, which may come at any time but is sure only from TIMEOUT on
\* (LiteLLMClient.health).
Reply(c, i) ==
  LET g == get[c][i] IN
  /\ g.at = "check"
  /\ get' = [get EXCEPT ![c][i] =
               [at |-> "reply", count |-> g.count, age |-> g.age, proxy |-> proxy]]
  /\ UNCHANGED <<tokens, made, row, pass, proxy, past, cache, socket, queue, shown>>

InTime(c, i) == proxy \/ get[c][i].age >= TIMEOUT

\* Faulty: the cache is stamped when the reply arrives.
MutantStamp(g) == 0

\* The cache is stamped with the time the question was asked at.
Stamp(g) == g.age

\* _litellm_reachable goes on with the reply.
Arrive(c, i) ==
  LET g == get[c][i] IN
  /\ g.at = "reply"
  /\ cache' = Kept([age |-> Stamp(g), value |-> g.proxy])
  /\ get' = [get EXCEPT ![c][i] = [at |-> "answer", count |-> g.count, proxy |-> g.proxy]]
  /\ UNCHANGED <<tokens, made, row, pass, proxy, past, socket, queue, shown>>

\* Answers are shown in the order in which they arrive.
Show(c, i) ==
  LET g == get[c][i] IN
  /\ g.at = "answer"
  /\ shown' = [shown EXCEPT ![c] = [count |-> g.count, proxy |-> g.proxy]]
  /\ get' = [get EXCEPT ![c][i] = NoGet]
  /\ UNCHANGED <<tokens, made, row, pass, proxy, past, cache, socket, queue>>

\* A tick of the clock.
TimePasses ==
  /\ cache' = Kept([cache EXCEPT !.age = Older(cache.age)])
  /\ get' = [c \in Client |-> [i \in 1..MAX_GETS |->
               IF get[c][i].at \in {"check", "reply"}
               THEN [get[c][i] EXCEPT !.age = Older(get[c][i].age)] ELSE get[c][i]]]
  /\ past' = [k \in 0..(CACHE_AGE - 1) |-> IF k = 0 THEN {proxy} ELSE past[k - 1]]
  /\ UNCHANGED <<tokens, made, row, pass, proxy, socket, queue, shown>>

-----------------------------------------------------------------------------
\* ws: the next message of the queue is sent, and the tab fetches unless it
\* did within the throttle.  A discarded queue is emptied to its end.
Message(c) ==
  /\ socket[c] \in {"open", "deaf"} /\ queue[c] > 0
  /\ queue' = [queue EXCEPT ![c] = @ - 1]
  /\ UNCHANGED get \/ \E i \in 1..MAX_GETS : Fetch(c, i)
  /\ UNCHANGED <<tokens, made, row, pass, proxy, past, cache, socket, shown>>

\* A connection ends, and ensureSocket opens the next, with a new subscription.
Disconnect(c) ==
  /\ socket[c] # "closed"
  /\ socket' = [socket EXCEPT ![c] = "closed"] /\ queue' = [queue EXCEPT ![c] = 0]
  /\ UNCHANGED <<tokens, made, row, pass, proxy, past, cache, get, shown>>

Connect(c) ==
  /\ socket[c] = "closed"
  /\ socket' = [socket EXCEPT ![c] = "open"]
  /\ UNCHANGED <<tokens, made, row, pass, proxy, past, cache, queue, get, shown>>

\* The control plane restarts: queues, cache and sessions are gone, and fetches fail.
Crash ==
  /\ pass' = Idle
  /\ cache' = Cold
  /\ socket' = [c \in Client |-> "closed"]
  /\ queue' = [c \in Client |-> 0]
  /\ get' = [c \in Client |-> [i \in 1..MAX_GETS |-> NoGet]]
  /\ UNCHANGED <<tokens, made, row, proxy, past, shown>>

Next ==
  \/ Generate \/ EngineRestart \/ ProxyMoves \/ TimePasses \/ Crash
  \/ Sample \/ CommitSample \/ LoseSample \/ PublishOther
  \/ \E c \in Client : Poll(c) \/ Message(c) \/ Disconnect(c) \/ Connect(c)
  \/ \E c \in Client, i \in 1..MAX_GETS : Reply(c, i) \/ Arrive(c, i) \/ Show(c, i)

Spec == Init /\ [][Next]_vars

\* Browsers poll, every fetch is answered or fails, time passes, and the control
\* plane is not restarted for ever.  Nothing is assumed of the websocket.
FairSpec ==
  /\ Spec
  /\ <>[][~ Crash]_vars
  /\ WF_vars(TimePasses)
  /\ \A c \in Client : WF_vars(Poll(c))
  /\ \A c \in Client, i \in 1..MAX_GETS :
       WF_vars((Reply(c, i) /\ InTime(c, i)) \/ Arrive(c, i) \/ Show(c, i))

-----------------------------------------------------------------------------
Count == 0..MAX_TOKENS

\* A fetch: none, asking the proxy, with its reply on the way, or answered.
Get == {NoGet} \cup [at : {"check"}, count : Count, age : 0..MaxAge]
       \cup [at : {"reply"}, count : Count, age : 0..MaxAge, proxy : BOOLEAN]
       \cup [at : {"answer"}, count : Count, proxy : BOOLEAN]

TypeOK ==
  /\ tokens \in Count
  /\ made \in 0..MAX_MADE
  /\ row \in [total : Count, count : Count]
  /\ pass \in {Idle} \cup [at : {"taken"}, total : Count, count : Count, made : 0..MAX_MADE]
  /\ proxy \in BOOLEAN
  /\ past \in [0..(CACHE_AGE - 1) -> SUBSET BOOLEAN]
  /\ cache \in [age : 0..MaxAge, value : BOOLEAN]
  /\ socket \in [Client -> {"open", "deaf", "closed"}]
  /\ queue \in [Client -> 0..QUEUE]
  /\ get \in [Client -> [1..MAX_GETS -> Get]]
  /\ shown \in [Client -> [count : Count, proxy : BOOLEAN]]

\* A sample counts no more tokens than were generated since the committed one,
\* across restarts of the engine and samples that were lost (summarize).
RatesBounded == pass # Idle => pass.count <= pass.made

\* What the summary passes on from the cache, the proxy was at some time of the
\* last CACHE_AGE ticks, however long a reply takes, whichever check finishes last
\* and whether the proxy hangs ("A stale-by-seconds reachability answer is fine").
ReachabilityRecent == cache.age < CACHE_AGE => cache.value \in Within(past, CACHE_AGE - 1)

\* When the figures stay as they are every tab shows them in the end: messages
\* that come too early, are throttled or are lost, a queue that was discarded,
\* answers that overtake each other and restarts leave no tab behind.
TabsCatchUp ==
  \A c \in Client :
    <>[][FALSE]_<<row.count, proxy>>
      => <>[](shown[c] = [count |-> row.count, proxy |-> proxy])
=============================================================================
