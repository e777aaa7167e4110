--------------------------- MODULE DashboardProofs ----------------------------
(***************************************************************************)
(* Proofs about Dashboard, for any number of browser tabs and any bounds:  *)
(* no sample counts more than the engine made, and what is passed on of    *)
(* the proxy was so within the age the cache allows.                       *)
(***************************************************************************)
EXTENDS Dashboard, TLAPS

\* The engine counts on from the committed sample, or from 0, and so it does
\* from the sample a pass has taken.
RateInv ==
  /\ tokens <= row.total + made
  /\ pass # Idle => /\ pass.made <= made
                    /\ tokens <= pass.total + (made - pass.made)
                    /\ pass.count <= pass.made

\* An answer that is cached, or on its way to the cache, was so in the ticks since
\* it was asked for.
PastInv ==
  /\ proxy \in past[0]
  /\ cache.age < CACHE_AGE => cache.value \in Within(past, cache.age)
  /\ \A c \in Client, i \in 1..MAX_GETS :
       get[c][i].at = "reply" /\ get[c][i].age < CACHE_AGE
         => get[c][i].proxy \in Within(past, get[c][i].age)

IInv == TypeOK /\ RateInv /\ PastInv

Taken == [at : {"taken"}, total : Count, count : Count, made : 0..MAX_MADE]

-----------------------------------------------------------------------------
\* A pass that is not idle has taken a sample.
LEMMA TakenFields ==
  ASSUME TypeOK, pass # Idle
  PROVE  /\ pass.total \in Count /\ pass.count \in Count /\ pass.made \in 0..MAX_MADE
         /\ pass \in Taken
BY DEF TypeOK, Taken

LEMMA Bounds ==
  /\ QUEUE \in Nat /\ MAX_GETS \in Nat /\ MAX_TOKENS \in Nat /\ MAX_MADE \in Nat
  /\ CACHE_AGE \in Nat /\ CACHE_AGE > 0 /\ TIMEOUT \in Nat
BY DashboardAssumption

LEMMA Ages ==
  /\ MaxAge \in Nat /\ MaxAge >= CACHE_AGE
  /\ \A a \in 0..MaxAge : /\ Older(a) \in 0..MaxAge
                          /\ Older(a) < CACHE_AGE => Older(a) = a + 1
BY Bounds DEF MaxAge, Older

LEMMA WithinFact ==
  ASSUME NEW k, NEW v
  PROVE  v \in Within(past, k) <=> \E j \in 0..(CACHE_AGE - 1) : j <= k /\ v \in past[j]
BY DEF Within

LEMMA WithinFactNext ==
  ASSUME NEW k, NEW v
  PROVE  v \in Within(past', k) <=> \E j \in 0..(CACHE_AGE - 1) : j <= k /\ v \in past'[j]
BY DEF Within

LEMMA InitInv == Init => IInv
<1> SUFFICES ASSUME Init PROVE IInv
  OBVIOUS
<1> USE Bounds
<1>1. get \in [Client -> [1..MAX_GETS -> Get]]
  BY DEF Init, Get
<1>2. /\ tokens \in Count /\ made \in 0..MAX_MADE
      /\ row \in [total : Count, count : Count]
      /\ shown \in [Client -> [count : Count, proxy : BOOLEAN]]
  BY DEF Init, Count
<1>3. /\ cache \in [age : 0..MaxAge, value : BOOLEAN] /\ ~ (cache.age < CACHE_AGE)
      /\ proxy \in BOOLEAN /\ past \in [0..(CACHE_AGE - 1) -> SUBSET BOOLEAN]
      /\ proxy \in past[0]
  <2>1. cache \in [age : 0..MaxAge, value : BOOLEAN] /\ ~ (cache.age < CACHE_AGE)
    BY Ages DEF Init, Cold
  <2>2. {TRUE} \in SUBSET BOOLEAN /\ 0 \in 0..(CACHE_AGE - 1)
    OBVIOUS
  <2>3. past \in [0..(CACHE_AGE - 1) -> SUBSET BOOLEAN] /\ past[0] = {TRUE}
    BY <2>2 DEF Init
  <2> QED
    BY <2>1, <2>3 DEF Init
<1>4. /\ socket \in [Client -> {"open", "deaf", "closed"}]
      /\ queue \in [Client -> 0..QUEUE]
  BY DEF Init
<1>5. TypeOK
  BY <1>1, <1>2, <1>3, <1>4 DEF Init, TypeOK
<1>6. RateInv
  BY DEF Init, RateInv
<1>7. \A c \in Client, i \in 1..MAX_GETS : get[c][i].at # "reply"
  BY DEF Init, NoGet
<1>8. PastInv
  BY <1>3, <1>7 DEF PastInv
<1> QED
  BY <1>5, <1>6, <1>8 DEF IInv

-----------------------------------------------------------------------------
\* Messages fill the queues and no more.
LEMMA PublishType ==
  ASSUME TypeOK, Publish
  PROVE  socket' \in [Client -> {"open", "deaf", "closed"}] /\ queue' \in [Client -> 0..QUEUE]
<1>1. \A c \in Client : socket[c] \in {"open", "deaf", "closed"} /\ queue[c] \in 0..QUEUE
  BY DEF TypeOK
<1> QED
  BY <1>1, Bounds DEF Publish, Full

\* What was within reach still is when ticks only gain.
LEMMA WithinGrows ==
  ASSUME \A j \in 0..(CACHE_AGE - 1) : past[j] \subseteq past'[j]
  PROVE  \A k, v : v \in Within(past, k) => v \in Within(past', k)
<1> TAKE k, v
<1> HAVE v \in Within(past, k)
<1>1. PICK j \in 0..(CACHE_AGE - 1) : j <= k /\ v \in past[j]
  BY WithinFact
<1> QED
  BY <1>1, WithinFactNext

\* No reply is on its way that was not before.
NoReplies ==
  \A c \in Client, i \in 1..MAX_GETS :
    get'[c][i].at = "reply" => get'[c][i] = get[c][i]

\* Steps that leave the cache alone, start no reply and take nothing from the past.
LEMMA PastKept ==
  ASSUME PastInv, proxy' \in past'[0], UNCHANGED cache, NoReplies,
         \A j \in 0..(CACHE_AGE - 1) : past[j] \subseteq past'[j]
  PROVE  PastInv'
<1>1. \A k, v : v \in Within(past, k) => v \in Within(past', k)
  BY WithinGrows
<1>2. cache'.age < CACHE_AGE => cache'.value \in Within(past', cache.age)
  BY <1>1 DEF PastInv
<1>3. ASSUME NEW c \in Client, NEW i \in 1..MAX_GETS,
             get'[c][i].at = "reply", get'[c][i].age < CACHE_AGE
      PROVE  get'[c][i].proxy \in Within(past', get[c][i].age) /\ get'[c][i] = get[c][i]
  BY <1>1, <1>3 DEF PastInv, NoReplies
<1> QED
  BY <1>2, <1>3 DEF PastInv

\* The engine and the proxy move.
LEMMA EngineStep ==
  ASSUME IInv, Generate \/ EngineRestart \/ ProxyMoves
  PROVE  IInv'
<1> USE Bounds DEF IInv
<1>1. UNCHANGED <<row, pass, cache, socket, queue, get, shown>>
  BY DEF Generate, EngineRestart, ProxyMoves
<1>2. tokens' \in Count /\ made' \in 0..MAX_MADE
  BY DEF Generate, EngineRestart, ProxyMoves, TypeOK, Count
<1>3. /\ proxy' \in BOOLEAN /\ past' \in [0..(CACHE_AGE - 1) -> SUBSET BOOLEAN]
      /\ proxy' \in past'[0]
      /\ \A j \in 0..(CACHE_AGE - 1) : past[j] \subseteq past'[j]
  <2>1. past \in [0..(CACHE_AGE - 1) -> SUBSET BOOLEAN] /\ proxy \in BOOLEAN /\ 0 \in 0..(CACHE_AGE - 1)
    BY DEF TypeOK
  <2>2. CASE proxy' = proxy /\ past' = past
    BY <2>1, <2>2 DEF PastInv
  <2>3. CASE ProxyMoves
    <3>1. proxy' = ~ proxy /\ past' = [past EXCEPT ![0] = past[0] \cup {~ proxy}]
      BY <2>3 DEF ProxyMoves
    <3>2. proxy' \in BOOLEAN /\ proxy' \in past'[0]
      BY <2>1, <3>1
    <3>3. past' \in [0..(CACHE_AGE - 1) -> SUBSET BOOLEAN]
      BY <2>1, <3>1
    <3>4. \A j \in 0..(CACHE_AGE - 1) : past[j] \subseteq past'[j]
      BY <2>1, <3>1
    <3> QED
      BY <3>2, <3>3, <3>4
  <2> QED
    BY <2>2, <2>3 DEF Generate, EngineRestart
<1>4. TypeOK'
  BY <1>1, <1>2, <1>3 DEF TypeOK
<1>5. RateInv'
  <2>1. \/ tokens' = tokens + 1 /\ made' = made + 1
        \/ tokens' = 0 /\ made' = made
        \/ tokens' = tokens /\ made' = made
    BY DEF Generate, EngineRestart, ProxyMoves
  <2>2. tokens \in Nat /\ made \in Nat /\ row.total \in Nat
    BY DEF TypeOK, Count
  <2>3. pass # Idle => pass.total \in Nat /\ pass.made \in Nat
    BY TakenFields DEF Count
  <2> QED
    BY <1>1, <2>1, <2>2, <2>3 DEF RateInv
<1>6. PastInv'
  BY <1>1, <1>3, PastKept DEF NoReplies
<1> QED
  BY <1>4, <1>5, <1>6

LEMMA SampleStep ==
  ASSUME IInv, Sample
  PROVE  IInv'
<1> USE Bounds DEF IInv
<1>1. UNCHANGED <<tokens, made, row, proxy, past, cache, get, shown>>
  BY DEF Sample
<1>2. PICK count \in Counted(tokens, row.total) :
        pass' = [at |-> "taken", total |-> tokens, count |-> count, made |-> made]
  BY DEF Sample
<1>3. tokens \in Nat /\ made \in Nat /\ row.total \in Nat /\ tokens <= MAX_TOKENS
  BY DEF TypeOK, Count
<1>4. count \in Count /\ count <= made
  BY <1>3 DEF Counted, Count, RateInv
<1>5. pass' \in Taken
  BY <1>2, <1>4 DEF Taken, TypeOK
<1>6. TypeOK'
  BY <1>1, <1>5, PublishType DEF TypeOK, Taken, Sample
<1>7. RateInv'
  BY <1>1, <1>2, <1>3, <1>4 DEF RateInv
<1>8. PastInv'
  BY <1>1, PastKept DEF PastInv, NoReplies
<1> QED
  BY <1>6, <1>7, <1>8

LEMMA PassEnds ==
  ASSUME IInv, CommitSample \/ LoseSample
  PROVE  IInv'
<1> USE Bounds DEF IInv
<1>1. pass # Idle /\ pass' = Idle /\ UNCHANGED <<tokens, proxy, past, cache, socket, queue, get, shown>>
  BY DEF CommitSample, LoseSample
<1>2. tokens \in Nat /\ made \in 0..MAX_MADE /\ pass.total \in Count /\ pass.made \in 0..MAX_MADE
      /\ pass.count \in Count
  BY <1>1, TakenFields DEF TypeOK, Count
<1>3. \/ row' = [total |-> pass.total, count |-> pass.count] /\ made' = made - pass.made
      \/ row' = row /\ made' = made
  BY DEF CommitSample, LoseSample
<1>4. row' \in [total : Count, count : Count]
  BY <1>2, <1>3 DEF TypeOK
<1>5. made' \in 0..MAX_MADE /\ tokens <= row'.total + made'
  BY <1>1, <1>2, <1>3 DEF RateInv, Count
<1>6. TypeOK'
  BY <1>1, <1>4, <1>5 DEF TypeOK
<1>7. RateInv'
  BY <1>1, <1>5 DEF RateInv
<1>8. PastInv'
  BY <1>1, PastKept DEF PastInv, NoReplies
<1> QED
  BY <1>6, <1>7, <1>8

\* Steps that leave the engine, the samples and the cache alone.
LEMMA TabStep ==
  ASSUME IInv, UNCHANGED <<tokens, made, row, pass, proxy, past, cache>>,
         socket' \in [Client -> {"open", "deaf", "closed"}],
         queue' \in [Client -> 0..QUEUE],
         get' \in [Client -> [1..MAX_GETS -> Get]],
         NoReplies,
         shown' \in [Client -> [count : Count, proxy : BOOLEAN]]
  PROVE  IInv'
<1>1. TypeOK'
  BY DEF IInv, TypeOK
<1>2. RateInv'
  BY DEF IInv, RateInv
<1>3. PastInv'
  BY PastKept DEF IInv, PastInv
<1> QED
  BY <1>1, <1>2, <1>3 DEF IInv

\* A fetch changes what it is and nothing else does.
LEMMA GetType ==
  ASSUME TypeOK, NEW c \in Client, NEW i \in 1..MAX_GETS, NEW g \in Get,
         get' = [get EXCEPT ![c][i] = g]
  PROVE  /\ get' \in [Client -> [1..MAX_GETS -> Get]]
         /\ \A d \in Client, j \in 1..MAX_GETS :
              get'[d][j] = IF d = c /\ j = i THEN g ELSE get[d][j]
<1>1. get \in [Client -> [1..MAX_GETS -> Get]]
  BY DEF TypeOK
<1> QED
  BY <1>1

LEMMA FetchType ==
  ASSUME TypeOK, NEW c \in Client, NEW i \in 1..MAX_GETS, Fetch(c, i)
  PROVE  get' \in [Client -> [1..MAX_GETS -> Get]] /\ NoReplies
<1> DEFINE g == IF cache.age < CACHE_AGE
                THEN [at |-> "answer", count |-> row.count, proxy |-> cache.value]
                ELSE [at |-> "check", count |-> row.count, age |-> 0]
<1>1. row.count \in Count /\ cache.value \in BOOLEAN /\ 0 \in 0..MaxAge
  BY Ages DEF TypeOK
<1>2. g \in Get /\ g.at # "reply"
  BY <1>1 DEF Get
<1>3. get' = [get EXCEPT ![c][i] = g]
  BY DEF Fetch
<1> HIDE DEF g
<1> QED
  BY <1>2, <1>3, GetType DEF NoReplies

LEMMA SocketStep ==
  ASSUME IInv, NEW c \in Client,
         PublishOther \/ Poll(c) \/ Message(c) \/ Disconnect(c) \/ Connect(c)
  PROVE  IInv'
<1> USE Bounds DEF IInv
<1>1. CASE PublishOther
  BY <1>1, PublishType, TabStep DEF PublishOther, TypeOK, NoReplies
<1>2. CASE Poll(c)
  <2>1. get' \in [Client -> [1..MAX_GETS -> Get]] /\ NoReplies
    BY <1>2, FetchType DEF Poll
  <2> QED
    BY <1>2, <2>1, TabStep DEF Poll, TypeOK
<1>3. CASE Message(c)
  <2>1. get' \in [Client -> [1..MAX_GETS -> Get]] /\ NoReplies
    BY <1>3, FetchType DEF Message, TypeOK, NoReplies
  <2>2. queue' \in [Client -> 0..QUEUE]
    BY <1>3 DEF Message, TypeOK
  <2> QED
    BY <1>3, <2>1, <2>2, TabStep DEF Message, TypeOK
<1>4. CASE Disconnect(c)
  <2>1. socket' \in [Client -> {"open", "deaf", "closed"}] /\ queue' \in [Client -> 0..QUEUE]
    BY <1>4 DEF Disconnect, TypeOK
  <2> QED
    BY <1>4, <2>1, TabStep DEF Disconnect, TypeOK, NoReplies
<1>5. CASE Connect(c)
  <2>1. socket' \in [Client -> {"open", "deaf", "closed"}]
    BY <1>5 DEF Connect, TypeOK
  <2> QED
    BY <1>5, <2>1, TabStep DEF Connect, TypeOK, NoReplies
<1> QED
  BY <1>1, <1>2, <1>3, <1>4, <1>5

-----------------------------------------------------------------------------
LEMMA GetIn ==
  ASSUME TypeOK, NEW c \in Client, NEW i \in 1..MAX_GETS
  PROVE  get[c][i] \in Get
<1>1. get \in [Client -> [1..MAX_GETS -> Get]]
  BY DEF TypeOK
<1>2. get[c] \in [1..MAX_GETS -> Get]
  BY <1>1
<1> QED
  BY <1>2

\* A fetch that is at a stage has the stage's fields.
Check == [at : {"check"}, count : Count, age : 0..MaxAge]
OnItsWay == [at : {"reply"}, count : Count, age : 0..MaxAge, proxy : BOOLEAN]
Answered == [at : {"answer"}, count : Count, proxy : BOOLEAN]

LEMMA GetFields ==
  ASSUME TypeOK, NEW c \in Client, NEW i \in 1..MAX_GETS
  PROVE  /\ get[c][i].at = "check" => get[c][i] \in Check
         /\ get[c][i].at = "reply" => get[c][i] \in OnItsWay
         /\ get[c][i].at = "answer" => get[c][i] \in Answered
<1>1. get[c][i] \in {NoGet} \cup Check \cup OnItsWay \cup Answered
  BY GetIn DEF Get, Check, OnItsWay, Answered
<1>2. CASE get[c][i] = NoGet
  BY <1>2 DEF NoGet
<1>3. CASE get[c][i] \in Check
  BY <1>3 DEF Check
<1>4. CASE get[c][i] \in OnItsWay
  BY <1>4 DEF OnItsWay
<1>5. CASE get[c][i] \in Answered
  BY <1>5 DEF Answered
<1> QED
  BY <1>1, <1>2, <1>3, <1>4, <1>5

\* What the proxy is when it replies it is within any age.
LEMMA ReplyStep ==
  ASSUME IInv, NEW c \in Client, NEW i \in 1..MAX_GETS, Reply(c, i)
  PROVE  IInv'
<1> USE DEF IInv
<1> DEFINE g == get[c][i]
           a == [at |-> "reply", count |-> g.count, age |-> g.age, proxy |-> proxy]
<1>1. g \in Check /\ proxy \in BOOLEAN
  BY GetFields DEF Reply, TypeOK
<1>2. a \in OnItsWay /\ a.age \in 0..MaxAge /\ a.proxy = proxy
  BY <1>1 DEF OnItsWay, Check
<1>3. a \in Get
  BY <1>2 DEF Get, OnItsWay
<1>4. get' = [get EXCEPT ![c][i] = a]
  BY DEF Reply
<1>5. UNCHANGED <<tokens, made, row, pass, proxy, past, cache, socket, queue, shown>>
  BY DEF Reply
<1> HIDE DEF a, g
<1>6. /\ get' \in [Client -> [1..MAX_GETS -> Get]]
      /\ \A d \in Client, j \in 1..MAX_GETS :
           get'[d][j] = IF d = c /\ j = i THEN a ELSE get[d][j]
  BY <1>3, <1>4, GetType
<1>7. TypeOK' /\ RateInv'
  BY <1>5, <1>6 DEF TypeOK, RateInv
<1>8. \A k, v : v \in Within(past, k) => v \in Within(past', k)
  BY <1>5, WithinGrows
<1>9. proxy \in Within(past', a.age)
  BY <1>2, <1>5, Bounds, WithinFactNext DEF PastInv
<1>10. proxy' \in past'[0] /\ (cache'.age < CACHE_AGE => cache'.value \in Within(past', cache.age))
  BY <1>5, <1>8 DEF PastInv
<1>11. ASSUME NEW d \in Client, NEW j \in 1..MAX_GETS,
              get'[d][j].at = "reply", get'[d][j].age < CACHE_AGE
       PROVE  get'[d][j].proxy \in Within(past', get'[d][j].age)
  <2>1. CASE d = c /\ j = i
    BY <1>2, <1>6, <1>9, <2>1
  <2>2. CASE ~ (d = c /\ j = i)
    BY <1>6, <1>8, <1>11, <2>2 DEF PastInv
  <2> QED
    BY <2>1, <2>2
<1>12. PastInv'
  BY <1>5, <1>10, <1>11 DEF PastInv
<1> QED
  BY <1>7, <1>12

\* The reply takes its age to the cache.
LEMMA ArriveStep ==
  ASSUME IInv, NEW c \in Client, NEW i \in 1..MAX_GETS, Arrive(c, i)
  PROVE  IInv'
<1> USE DEF IInv
<1> DEFINE g == get[c][i]
           a == [at |-> "answer", count |-> g.count, proxy |-> g.proxy]
           e == [age |-> g.age, value |-> g.proxy]
<1>1. g \in OnItsWay /\ g.at = "reply"
  BY GetFields DEF Arrive
<1>2. a \in Get /\ a.at # "reply" /\ e \in [age : 0..MaxAge, value : BOOLEAN]
  BY <1>1 DEF Get, OnItsWay
<1>3. get' = [get EXCEPT ![c][i] = a] /\ cache' = Kept(e)
  BY DEF Arrive, Stamp
<1>4. UNCHANGED <<tokens, made, row, pass, proxy, past, socket, queue, shown>>
  BY DEF Arrive
<1>5. g.age < CACHE_AGE => g.proxy \in Within(past, g.age)
  BY <1>1 DEF PastInv
<1>6. e.age = g.age /\ e.value = g.proxy
  OBVIOUS
<1> HIDE DEF a, g, e
<1>7. get' \in [Client -> [1..MAX_GETS -> Get]] /\ NoReplies
  BY <1>2, <1>3, GetType DEF NoReplies
<1>8. cache' \in [age : 0..MaxAge, value : BOOLEAN]
  BY <1>2, <1>3, Ages DEF Kept, Cold
<1>9. \A k, v : v \in Within(past, k) => v \in Within(past', k)
  BY <1>4, WithinGrows
<1>10. cache'.age < CACHE_AGE => cache'.value \in Within(past', cache'.age)
  <2> SUFFICES ASSUME cache'.age < CACHE_AGE PROVE cache'.value \in Within(past', cache'.age)
    OBVIOUS
  <2>1. cache' = e
    BY <1>3, Ages, Bounds DEF Kept, Cold
  <2>2. e.value \in Within(past, e.age)
    BY <1>5, <1>6, <2>1
  <2>3. e.value \in Within(past', e.age)
    <3>1. PICK j \in 0..(CACHE_AGE - 1) : j <= e.age /\ e.value \in past[j]
      BY <2>2 DEF Within
    <3> QED
      BY <1>4, <2>1, <3>1 DEF Within
  <2> QED
    BY <2>1, <2>3
<1>11. ASSUME NEW d \in Client, NEW j \in 1..MAX_GETS,
              get'[d][j].at = "reply", get'[d][j].age < CACHE_AGE
       PROVE  get'[d][j].proxy \in Within(past', get'[d][j].age)
  BY <1>7, <1>9, <1>11 DEF PastInv, NoReplies
<1>12. PastInv'
  BY <1>4, <1>10, <1>11 DEF PastInv
<1> QED
  BY <1>4, <1>7, <1>8, <1>12 DEF TypeOK, RateInv

LEMMA ShowStep ==
  ASSUME IInv, NEW c \in Client, NEW i \in 1..MAX_GETS, Show(c, i)
  PROVE  IInv'
<1> USE DEF IInv
<1> DEFINE g == get[c][i]
           s == [count |-> g.count, proxy |-> g.proxy]
<1>1. g \in Answered
  BY GetFields DEF Show
<1>2. s \in [count : Count, proxy : BOOLEAN]
  BY <1>1 DEF Answered
<1>3. shown' = [shown EXCEPT ![c] = s] /\ get' = [get EXCEPT ![c][i] = NoGet]
  BY DEF Show
<1>4. NoGet \in Get /\ NoGet.at # "reply"
  BY DEF Get, NoGet
<1>5. get' \in [Client -> [1..MAX_GETS -> Get]] /\ NoReplies
  BY <1>3, <1>4, GetType DEF NoReplies
<1> HIDE DEF g, s
<1>6. shown' \in [Client -> [count : Count, proxy : BOOLEAN]]
  BY <1>2, <1>3 DEF TypeOK
<1> QED
  BY <1>5, <1>6, TabStep DEF Show, TypeOK

\* A tick moves the past on by one, and adds one to every age that counts.
LEMMA WithinShifts ==
  ASSUME TypeOK, TimePasses, NEW k \in Nat, NEW v, v \in Within(past, k), k + 1 < CACHE_AGE
  PROVE  v \in Within(past', k + 1)
<1>1. PICK j \in 0..(CACHE_AGE - 1) : j <= k /\ v \in past[j]
  BY WithinFact
<1>2. j + 1 \in 0..(CACHE_AGE - 1) /\ j + 1 <= k + 1 /\ past'[j + 1] = past[j]
  BY <1>1, Bounds DEF TimePasses
<1> QED
  BY <1>1, <1>2, WithinFactNext

LEMMA TimeStep ==
  ASSUME IInv, TimePasses
  PROVE  IInv'
<1> USE DEF IInv
<1> DEFINE Aged(c, i) == IF get[c][i].at \in {"check", "reply"}
                         THEN [get[c][i] EXCEPT !.age = Older(get[c][i].age)]
                         ELSE get[c][i]
           entry == [cache EXCEPT !.age = Older(cache.age)]
<1>1. ASSUME NEW c \in Client, NEW i \in 1..MAX_GETS
      PROVE  /\ Aged(c, i) \in Get
             /\ Aged(c, i).at = "reply" =>
                  /\ get[c][i].at = "reply" /\ Aged(c, i).proxy = get[c][i].proxy
                  /\ get[c][i].age \in 0..MaxAge /\ Aged(c, i).age = Older(get[c][i].age)
  <2>1. CASE get[c][i].at = "check"
    <3>1. get[c][i] \in Check
      BY <2>1, GetFields
    <3>2. Older(get[c][i].age) \in 0..MaxAge
      BY <3>1, Ages DEF Check
    <3>3. Aged(c, i) \in Check
      BY <2>1, <3>1, <3>2 DEF Check
    <3> QED
      BY <3>3 DEF Get, Check
  <2>2. CASE get[c][i].at = "reply"
    <3>1. get[c][i] \in OnItsWay
      BY <2>2, GetFields
    <3>2. Older(get[c][i].age) \in 0..MaxAge
      BY <3>1, Ages DEF OnItsWay
    <3>3. Aged(c, i) \in OnItsWay /\ Aged(c, i).age = Older(get[c][i].age)
          /\ Aged(c, i).proxy = get[c][i].proxy
      BY <2>2, <3>1, <3>2 DEF OnItsWay
    <3> QED
      BY <2>2, <3>1, <3>3 DEF Get, OnItsWay
  <2>3. CASE get[c][i].at \notin {"check", "reply"}
    BY <2>3, GetIn
  <2> QED
    BY <2>1, <2>2, <2>3
<1>2. get' = [c \in Client |-> [i \in 1..MAX_GETS |-> Aged(c, i)]]
  BY DEF TimePasses
<1>3. /\ cache.age \in 0..MaxAge /\ cache.value \in BOOLEAN
      /\ entry = [age |-> Older(cache.age), value |-> cache.value] /\ cache' = Kept(entry)
  BY DEF TypeOK, TimePasses
<1>4. UNCHANGED <<tokens, made, row, pass, proxy, socket, queue, shown>>
  BY DEF TimePasses
<1> HIDE DEF Aged, entry
<1>5. get' \in [Client -> [1..MAX_GETS -> Get]]
  BY <1>1, <1>2
<1>6. cache' \in [age : 0..MaxAge, value : BOOLEAN]
  <2>1. Older(cache.age) \in 0..MaxAge
    BY <1>3, Ages
  <2> QED
    BY <1>3, <2>1, Ages DEF Kept, Cold
<1>7. past' \in [0..(CACHE_AGE - 1) -> SUBSET BOOLEAN] /\ proxy' \in past'[0]
  BY Bounds DEF TimePasses, TypeOK
<1>8. TypeOK' /\ RateInv'
  BY <1>4, <1>5, <1>6, <1>7 DEF TypeOK, RateInv
<1>9. ASSUME NEW a \in 0..MaxAge, NEW v, a < CACHE_AGE => v \in Within(past, a), Older(a) < CACHE_AGE
      PROVE  v \in Within(past', Older(a))
  <2>1. a \in Nat /\ Older(a) = a + 1 /\ a < CACHE_AGE
    BY <1>9, Ages, Bounds
  <2>2. v \in Within(past', a + 1)
    BY <1>9, <2>1, WithinShifts
  <2> QED
    BY <2>1, <2>2
<1>10. cache'.age < CACHE_AGE => cache'.value \in Within(past', cache'.age)
  <2> SUFFICES ASSUME cache'.age < CACHE_AGE PROVE cache'.value \in Within(past', cache'.age)
    OBVIOUS
  <2>1. cache'.age = Older(cache.age) /\ cache'.value = cache.value
    <3>1. cache' = entry \/ cache' = Cold
      BY <1>3 DEF Kept
    <3>2. cache' # Cold
      BY Ages, Bounds DEF Cold
    <3> QED
      BY <1>3, <3>1, <3>2
  <2>2. cache.value \in Within(past', Older(cache.age))
    BY <1>3, <1>9, <2>1 DEF PastInv
  <2> QED
    BY <2>1, <2>2
<1>11. ASSUME NEW c \in Client, NEW i \in 1..MAX_GETS,
              get'[c][i].at = "reply", get'[c][i].age < CACHE_AGE
       PROVE  get'[c][i].proxy \in Within(past', get'[c][i].age)
  <2>1. get'[c][i] = Aged(c, i)
    BY <1>2
  <2>2. /\ get[c][i].at = "reply" /\ get'[c][i].proxy = get[c][i].proxy
        /\ get[c][i].age \in 0..MaxAge /\ get'[c][i].age = Older(get[c][i].age)
    BY <1>1, <1>11, <2>1
  <2>3. get[c][i].proxy \in Within(past', Older(get[c][i].age))
    BY <1>9, <1>11, <2>2 DEF PastInv
  <2> QED
    BY <2>2, <2>3
<1>12. PastInv'
  BY <1>7, <1>10, <1>11 DEF PastInv
<1> QED
  BY <1>8, <1>12

LEMMA CrashStep ==
  ASSUME IInv, Crash
  PROVE  IInv'
<1> USE Bounds DEF IInv
<1>1. get' \in [Client -> [1..MAX_GETS -> Get]]
  BY DEF Crash, Get
<1>2. \A c \in Client, i \in 1..MAX_GETS : get'[c][i].at # "reply"
  BY DEF Crash, NoGet
<1>3. cache' \in [age : 0..MaxAge, value : BOOLEAN] /\ ~ (cache'.age < CACHE_AGE)
  BY Ages DEF Crash, Cold
<1>4. /\ socket' \in [Client -> {"open", "deaf", "closed"}]
      /\ queue' \in [Client -> 0..QUEUE]
  BY DEF Crash
<1>5. pass' = Idle /\ UNCHANGED <<tokens, made, row, proxy, past, shown>>
  BY DEF Crash
<1>6. TypeOK'
  BY <1>1, <1>3, <1>4, <1>5 DEF TypeOK
<1>7. PastInv'
  BY <1>2, <1>3, <1>5 DEF PastInv
<1> QED
  BY <1>5, <1>6, <1>7 DEF RateInv

-----------------------------------------------------------------------------
LEMMA StepInv == IInv /\ [Next]_vars => IInv'
<1> SUFFICES ASSUME IInv, [Next]_vars PROVE IInv'
  OBVIOUS
<1>1. CASE PublishOther
  BY <1>1, SocketStep DEF PublishOther
<1>2. CASE UNCHANGED vars
  <2>1. TypeOK' /\ RateInv'
    BY <1>2 DEF vars, IInv, TypeOK, RateInv
  <2>2. PastInv'
    BY <1>2, PastKept DEF vars, IInv, PastInv, NoReplies
  <2> QED
    BY <2>1, <2>2 DEF IInv
<1> QED
  BY <1>1, <1>2, EngineStep, SampleStep, PassEnds, SocketStep, ReplyStep, ArriveStep, ShowStep,
     TimeStep, CrashStep DEF Next

THEOREM Invariance == Spec => []IInv
BY InitInv, StepInv, PTL DEF Spec

\* Every queue, fetch, sample and figure is what its stage says, and no queue
\* holds more than it may (EventBus, asyncio.Queue(maxsize)).
THEOREM TypeCorrect == Spec => []TypeOK
<1>1. IInv => TypeOK
  BY DEF IInv
<1> QED
  BY <1>1, Invariance, PTL

\* For any counts: a restart of the engine, or a sample that was lost, never
\* makes a rate larger than what was generated (summarize).
THEOREM RatesSafe == Spec => []RatesBounded
<1>1. IInv => RatesBounded
  BY DEF IInv, RateInv, RatesBounded
<1> QED
  BY <1>1, Invariance, PTL

\* For any number of tabs and checks under way, and any ages: however late a reply
\* is, what is read from the cache was so within its age (_litellm_reachable).
THEOREM ReachabilitySafe == Spec => []ReachabilityRecent
<1>1. IInv => ReachabilityRecent
  <2> SUFFICES ASSUME IInv, cache.age < CACHE_AGE PROVE cache.value \in Within(past, CACHE_AGE - 1)
    BY DEF ReachabilityRecent
  <2>1. PICK j \in 0..(CACHE_AGE - 1) : j <= cache.age /\ cache.value \in past[j]
    BY WithinFact DEF IInv, PastInv
  <2> QED
    BY <2>1, Bounds DEF Within
<1> QED
  BY <1>1, Invariance, PTL
=============================================================================
