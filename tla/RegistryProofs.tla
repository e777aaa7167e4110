---------------------------- MODULE RegistryProofs ----------------------------
(***************************************************************************)
(* Proofs about Registry, for any people, teams, entries, deployments and  *)
(* requests: what refers to a row finds it, an entry stays while it is in  *)
(* use, sign-ins fail only in a race for a team, and no seed overwrites     *)
(* what an operator wrote.                                                 *)
(***************************************************************************)
EXTENDS Registry, TLAPS

At == {"user", "team", "new team", "commit", "answered", "failed", "cut off"}

Begun == [at : At, op : Op, holds : SUBSET (User \cup Team \cup {NoTeam}),
          seen : SUBSET (User \cup Key \cup Dep), gone : BOOLEAN]

\* A request has the fields of its stage, and only a sign-in is before a commit.
JobInv ==
  /\ job \in [Call -> {NotBegun} \cup Begun]
  /\ \A s \in Call : job[s].at \in {"user", "team", "new team"} => job[s].op.kind = "sign in"

\* What delete_spec saw is over, or was and came back.
DeleteInv ==
  \A s \in Call : Running(s) /\ job[s].op.kind = "delete" =>
    \A d \in Dep \cap job[s].seen : deps[d].made /\ (~ deps[d].active \/ deps[d].back)

\* A request that has found its entry knows when it is gone.
EntryInv ==
  \A s \in Call :
    Running(s) /\ job[s].op.kind \in {"update", "delete", "deploy"} /\ ~ job[s].gone =>
      Entry(job[s].op.key)

\* A row that refers to an entry was made.
MadeInv == \A d \in Dep : deps[d].spec # NoKey => deps[d].made

\* The rows a request holds: those of its own sign-in, and none before it has written
\* the user's; the user of a sign-in that has not written it is there.
OwnRows(s) ==
  /\ IF Running(s) /\ job[s].op.kind = "sign in"
     THEN job[s].holds \subseteq {job[s].op.user, job[s].op.team} ELSE job[s].holds = {}
  /\ job[s].at = "user" => job[s].holds = {}
  /\ Running(s) /\ job[s].op.kind = "sign in" /\ job[s].at # "user"
       /\ job[s].op.user \notin job[s].holds => users[job[s].op.user] # Absent

RowsInv ==
  /\ \A s \in Call : OwnRows(s)
  /\ \A s, t \in Call : s # t => job[s].holds \cap job[t].holds = {}

IInv == TypeOK /\ JobInv /\ DeleteInv /\ EntryInv /\ MadeInv /\ RowsInv

-----------------------------------------------------------------------------
\* The fields of a call.
LEMMA OpFields ==
  ASSUME NEW op \in Op
  PROVE  /\ op.user \in User
         /\ op.kind = "sign in" => op.role \in Role /\ op.team \in Team \cup {NoTeam}
         /\ op.kind # "sign in" => op.key \in Key
         /\ op.kind = "deploy" => op.dep \in Dep
         /\ op.kind = "update" => op.to \in Key \cup {NoKey}
         /\ op.kind \in {"sign in", "create", "update", "delete", "seed", "deploy"}
<1>1. CASE op \in [kind : {"sign in"}, user : User, role : Role, team : Team \cup {NoTeam}]
  BY <1>1
<1>2. CASE op \in [kind : {"create", "delete", "seed"}, user : User, key : Key]
  BY <1>2
<1>3. CASE op \in [kind : {"update"}, user : User, key : Key, to : Key \cup {NoKey}]
  BY <1>3
<1>4. CASE op \in [kind : {"deploy"}, user : User, key : Key, dep : Dep]
  BY <1>4
<1> QED
  BY <1>1, <1>2, <1>3, <1>4 DEF Op

\* A call of an entry is one as well when the entry has another key.
LEMMA OpRekeyed ==
  ASSUME NEW op \in Op, op.kind \in {"update", "delete", "deploy"}, NEW n \in Key
  PROVE  /\ [op EXCEPT !.key = n] \in Op
         /\ [op EXCEPT !.key = n].key = n /\ [op EXCEPT !.key = n].kind = op.kind
<1>1. CASE op \in [kind : {"sign in"}, user : User, role : Role, team : Team \cup {NoTeam}]
  BY <1>1
<1>2. CASE op \in [kind : {"create", "delete", "seed"}, user : User, key : Key]
  BY <1>2 DEF Op
<1>3. CASE op \in [kind : {"update"}, user : User, key : Key, to : Key \cup {NoKey}]
  BY <1>3 DEF Op
<1>4. CASE op \in [kind : {"deploy"}, user : User, key : Key, dep : Dep]
  BY <1>4 DEF Op
<1> QED
  BY <1>1, <1>2, <1>3, <1>4 DEF Op

\* A request that has begun has all its fields.
LEMMA BegunFields ==
  ASSUME JobInv, NEW s \in Call, job[s].at # "idle"
  PROVE  job[s] \in Begun
<1>1. job[s] \in {NotBegun} \cup Begun
  BY DEF JobInv
<1>2. NotBegun.at = "idle"
  BY DEF NotBegun
<1> QED
  BY <1>1, <1>2

LEMMA SeenType ==
  ASSUME NEW op \in Op
  PROVE  Seen(op) \in SUBSET (User \cup Key \cup Dep)
BY OpFields, RegistryAssumption DEF Seen

-----------------------------------------------------------------------------
LEMMA InitInv == Init => IInv
<1> SUFFICES ASSUME Init PROVE IInv
  OBVIOUS
<1>1. TypeOK
  <2>1. users \in [User -> {Absent} \cup [role : Role, team : Team \cup {NoTeam}]]
    BY DEF Init, Role
  <2>2. \A u \in User : users[u].team \in teams \cup {NoTeam}
    BY DEF Init, Absent
  <2>3. specs \in [Key -> {"nothing", "seed", "operator"}]
    BY DEF Init
  <2>4. deps \in [Dep -> [spec : Key \cup {NoKey}, made : BOOLEAN,
                         active : BOOLEAN, back : BOOLEAN]]
    BY DEF Init, Unmade
  <2> QED
    BY <2>1, <2>2, <2>3, <2>4 DEF Init, TypeOK, Unmade, NotBegun
<1>2. JobInv /\ DeleteInv /\ EntryInv /\ RowsInv
  BY DEF Init, JobInv, DeleteInv, EntryInv, RowsInv, OwnRows, NotBegun, Running
<1>3. MadeInv
  BY DEF Init, MadeInv, Unmade
<1> QED
  BY <1>1, <1>2, <1>3 DEF IInv

-----------------------------------------------------------------------------
\* A request moves on: it stays the call it is, and other requests stay as they are.
Moves(s, at) ==
  /\ JobInv'
  /\ \A t \in Call \ {s} : job'[t] = job[t]
  /\ job'[s].at = at
  /\ job'[s].op = job[s].op /\ job'[s].seen = job[s].seen /\ job'[s].gone = job[s].gone

LEMMA MoveJob ==
  ASSUME JobInv, NEW s \in Call, job[s].at # "idle",
         NEW at \in At, NEW holds \in SUBSET (User \cup Team \cup {NoTeam}),
         at \in {"user", "team", "new team"} => job[s].op.kind = "sign in",
         job' = [job EXCEPT ![s].at = at, ![s].holds = holds]
  PROVE  Moves(s, at) /\ job'[s].holds = holds
<1>1. job[s] \in Begun
  BY BegunFields
<1>3. job \in [Call -> {NotBegun} \cup Begun]
  BY DEF JobInv
<1>2. /\ job'[s] \in Begun
      /\ job'[s].at = at /\ job'[s].holds = holds
      /\ job'[s].op = job[s].op /\ job'[s].seen = job[s].seen /\ job'[s].gone = job[s].gone
  BY <1>1, <1>3 DEF Begun
<1>4. job' \in [Call -> {NotBegun} \cup Begun] /\ \A t \in Call \ {s} : job'[t] = job[t]
  BY <1>2, <1>3
<1> QED
  BY <1>2, <1>4 DEF JobInv, Moves

LEMMA AnswerMoves ==
  ASSUME JobInv, NEW s \in Call, job[s].at # "idle", Answer(s)
  PROVE  Moves(s, "answered") /\ job'[s].holds = {}
<1>1. "answered" \in At /\ "answered" \notin {"user", "team", "new team"}
  BY DEF At
<1>2. {} \in SUBSET (User \cup Team \cup {NoTeam})
  OBVIOUS
<1>3. job' = [job EXCEPT ![s].at = "answered", ![s].holds = {}]
  BY DEF Answer
<1> QED
  BY <1>1, <1>2, <1>3, MoveJob

LEMMA FailMoves ==
  ASSUME JobInv, NEW s \in Call, job[s].at # "idle", Fail(s)
  PROVE  Moves(s, "failed") /\ job'[s].holds = {}
<1>1. "failed" \in At /\ "failed" \notin {"user", "team", "new team"}
  BY DEF At
<1>2. {} \in SUBSET (User \cup Team \cup {NoTeam})
  OBVIOUS
<1>3. job' = [job EXCEPT ![s].at = "failed", ![s].holds = {}]
  BY DEF Fail
<1> QED
  BY <1>1, <1>2, <1>3, MoveJob

LEMMA WriteMoves ==
  ASSUME JobInv, NEW s \in Call, NEW row \in User \cup Team \cup {NoTeam}, NEW at \in At,
         job[s].at # "idle", Write(s, row, at), job[s].op.kind = "sign in"
  PROVE  Moves(s, at) /\ job'[s].holds = job[s].holds \cup {row}
<1>1. job[s].holds \cup {row} \in SUBSET (User \cup Team \cup {NoTeam})
  BY BegunFields DEF Begun
<1> QED
  BY <1>1, MoveJob DEF Write

\* Rows stay with those that hold them, when the request that moves takes only free
\* ones and the others' calls are the same, but for the key of an entry.
LEMMA RowsKept ==
  ASSUME IInv, NEW s \in Call, OwnRows(s)',
         \A row \in job'[s].holds \ job[s].holds : Free(s, row),
         \A t \in Call \ {s} :
           \/ job'[t] = job[t]
           \/ /\ job'[t].at = job[t].at /\ job'[t].holds = job[t].holds
              /\ job[t].op.kind # "sign in" /\ job'[t].op.kind # "sign in"
              /\ Running(t),
         \A u \in User : users[u] # Absent => users'[u] # Absent
  PROVE  RowsInv'
<1> USE DEF IInv
<1>1. ASSUME NEW t \in Call \ {s}, job'[t] = job[t] PROVE OwnRows(t)'
  <2>1. OwnRows(t)
    BY DEF RowsInv
  <2>2. Running(t) => job[t].op.user \in User
    BY BegunFields, OpFields DEF Running, Begun
  <2> QED
    BY <1>1, <2>1, <2>2 DEF OwnRows, Running
<1>2. ASSUME NEW t \in Call \ {s}, job'[t].at = job[t].at, job'[t].holds = job[t].holds,
             job[t].op.kind # "sign in", job'[t].op.kind # "sign in", Running(t)
      PROVE  OwnRows(t)'
  <2>1. OwnRows(t)
    BY DEF RowsInv
  <2> QED
    BY <1>2, <2>1 DEF OwnRows, Running
<1>3. \A t \in Call : OwnRows(t)'
  BY <1>1, <1>2
<1>4. \A t \in Call \ {s} : job'[t].holds = job[t].holds
  OBVIOUS
<1>5. \A t \in Call \ {s} : job'[s].holds \cap job[t].holds = {}
  BY DEF Free, RowsInv
<1>6. ASSUME NEW t \in Call, NEW u \in Call, t # u
      PROVE  job'[t].holds \cap job'[u].holds = {}
  <2>1. job[t].holds \cap job[u].holds = {}
    BY <1>6 DEF RowsInv
  <2>2. CASE t # s /\ u # s
    BY <1>4, <2>1, <2>2
  <2>3. CASE t = s
    <3>1. u \in Call \ {s} /\ job'[u].holds = job[u].holds
      BY <1>4, <1>6, <2>3
    <3> QED
      BY <1>5, <2>3, <3>1
  <2>4. CASE u = s
    <3>1. t \in Call \ {s} /\ job'[t].holds = job[t].holds
      BY <1>4, <1>6, <2>4
    <3> QED
      BY <1>5, <2>4, <3>1
  <2> QED
    BY <2>2, <2>3, <2>4
<1> QED
  BY <1>3, <1>6 DEF RowsInv

\* A request that ends gives up what it holds.
LEMMA RowsGiven ==
  ASSUME IInv, NEW s \in Call, NEW at \in {"answered", "failed"}, Moves(s, at),
         job'[s].holds = {}, \A u \in User : users[u] # Absent => users'[u] # Absent
  PROVE  RowsInv'
<1>1. OwnRows(s)'
  BY DEF OwnRows, Running, Moves
<1> QED
  BY <1>1, RowsKept DEF Moves

\* What a request that has ended, or only moved on, leaves as it was.
LEMMA MoveKeeps ==
  ASSUME IInv, NEW s \in Call, NEW at \in At, Running(s), Moves(s, at),
         UNCHANGED <<specs, deps>>
  PROVE  JobInv' /\ DeleteInv' /\ EntryInv' /\ MadeInv'
<1> USE DEF Moves
<1>1. \A t \in Call : Running(t)' => /\ Running(t) /\ job'[t].op = job[t].op
                                     /\ job'[t].seen = job[t].seen /\ job'[t].gone = job[t].gone
  BY DEF Running
<1>2. DeleteInv'
  BY <1>1 DEF IInv, DeleteInv
<1>3. EntryInv'
  BY <1>1 DEF IInv, EntryInv, Entry
<1> QED
  BY <1>2, <1>3 DEF IInv, MadeInv

\* The stages are the ones TypeOK lists.
LEMMA StageType ==
  ASSUME NEW j \in [Call -> {NotBegun} \cup Begun], NEW s \in Call
  PROVE  j[s].at \in At \cup {"idle"}
<1>1. j[s] \in {NotBegun} \cup Begun
  OBVIOUS
<1>2. NotBegun.at = "idle"
  BY DEF NotBegun
<1>3. ASSUME j[s] \in Begun PROVE j[s].at \in At
  BY <1>3 DEF Begun
<1> QED
  BY <1>1, <1>2, <1>3

\* Type correctness of a step that changes the requests only.
LEMMA TypeKept ==
  ASSUME TypeOK, JobInv', UNCHANGED <<users, teams, specs, deps>>
  PROVE  TypeOK'
<1>1. \A s \in Call : job'[s].at \in At \cup {"idle"}
  BY StageType DEF JobInv
<1> QED
  BY <1>1 DEF TypeOK, At, Entry

-----------------------------------------------------------------------------
LEMMA BeginStep ==
  ASSUME IInv, NEW s \in Call, Begin(s)
  PROVE  IInv'
<1> USE DEF IInv
<1>0. PICK op \in Ops : \E at \in Starts(op) :
        job' = [job EXCEPT ![s] =
                  [at |-> at, op |-> op, holds |-> {}, seen |-> Seen(op), gone |-> FALSE]]
  BY DEF Begin
<1>1. PICK at \in Starts(op) :
        job' = [job EXCEPT ![s] =
                  [at |-> at, op |-> op, holds |-> {}, seen |-> Seen(op), gone |-> FALSE]]
  BY <1>0
<1>2. job[s].at = "idle" /\ UNCHANGED <<users, teams, specs, deps>>
  BY DEF Begin
<1> DEFINE new == [at |-> at, op |-> op, holds |-> {}, seen |-> Seen(op), gone |-> FALSE]
<1>3. /\ op \in Op /\ at \in {"answered", "user", "team", "commit"}
      /\ at # "answered" => ~ Refused(op)
      /\ at \in {"user", "team"} => op.kind = "sign in"
      /\ at = "team" => users[op.user].role = op.role
      /\ at = "commit" => op.kind # "sign in"
  BY RegistryAssumption DEF Starts
<1>4. new \in Begun
  <2>1. at \in At
    BY <1>3 DEF At
  <2>2. Seen(op) \in SUBSET (User \cup Key \cup Dep)
    BY <1>3, SeenType
  <2> QED
    BY <1>3, <2>1, <2>2 DEF Begun
<1>5. job'[s] = new /\ \A t \in Call \ {s} : job'[t] = job[t]
  BY <1>1 DEF JobInv
<1>6. job' \in [Call -> {NotBegun} \cup Begun]
  BY <1>1, <1>4 DEF JobInv
<1>7. /\ job'[s].at = at /\ job'[s].op = op /\ job'[s].seen = Seen(op)
      /\ job'[s].gone = FALSE /\ job'[s].holds = {}
  BY <1>5
<1>8. JobInv'
  BY <1>3, <1>5, <1>6, <1>7 DEF JobInv
<1>9. ASSUME ~ Refused(op), op.kind = "delete", NEW d \in Dep \cap Seen(op)
      PROVE  deps[d].made /\ ~ deps[d].active
  <2>1. deps[d].spec = op.key
    BY <1>9 DEF Seen
  <2>2. op.key \in Key
    BY <1>3, <1>9, OpFields
  <2>3. deps[d].made
    BY <2>1, <2>2, RegistryAssumption DEF MadeInv
  <2>4. ~ deps[d].active
    BY <1>9, <2>1 DEF Refused, Live
  <2> QED
    BY <2>3, <2>4
<1>10. DeleteInv'
  <2> SUFFICES ASSUME NEW t \in Call, Running(t)', job'[t].op.kind = "delete",
                      NEW d \in Dep \cap job'[t].seen
               PROVE  deps[d].made /\ (~ deps[d].active \/ deps[d].back)
    BY <1>2 DEF DeleteInv
  <2>1. CASE t = s
    BY <1>3, <1>7, <1>9, <2>1 DEF Running
  <2>2. CASE t # s
    BY <1>5, <2>2 DEF DeleteInv, Running
  <2> QED
    BY <2>1, <2>2
<1>11. EntryInv'
  <2> SUFFICES ASSUME NEW t \in Call, Running(t)', ~ job'[t].gone,
                      job'[t].op.kind \in {"update", "delete", "deploy"}
               PROVE  Entry(job'[t].op.key)
    BY <1>2 DEF EntryInv, Entry
  <2>1. ~ Refused(op) /\ op.kind \in {"update", "delete", "deploy"} => Entry(op.key)
    BY DEF Refused
  <2>2. CASE t = s
    BY <1>3, <1>7, <2>1, <2>2 DEF Running
  <2>3. CASE t # s
    BY <1>5, <2>3 DEF EntryInv, Running
  <2> QED
    BY <2>2, <2>3
<1>12. RowsInv'
  <2>1. at = "team" => users[op.user] # Absent
    <3>1. at = "team" => op.role \in Role
      BY <1>3, OpFields
    <3>2. Absent.role \notin Role
      BY DEF Absent, Role
    <3> QED
      BY <1>3, <3>1, <3>2
  <2>2. OwnRows(s)'
    BY <1>2, <1>3, <1>7, <2>1 DEF OwnRows, Running
  <2> QED
    BY <1>2, <1>5, <1>7, <2>2, RowsKept
<1>13. TypeOK'
  BY <1>2, <1>8, TypeKept
<1> QED
  BY <1>2, <1>8, <1>10, <1>11, <1>12, <1>13 DEF MadeInv

\* Of sign-ins that wait for one another, each is in a race for a team.
LEMMA DeadlockRaces ==
  ASSUME IInv, NEW s \in Call, Deadlock(s)
  PROVE  Running(s) /\ job[s].op.kind = "sign in" /\ TeamRace(s)
<1> USE DEF IInv
<1>1. PICK t, u \in Call \ {s} :
        Wanted(s) \cap job[t].holds # {} /\ Wanted(u) \cap job[s].holds # {}
  BY DEF Deadlock
<1>2. /\ Running(s) /\ job[s].op.kind = "sign in"
      /\ job[s].at \in {"user", "new team", "commit"}
  BY <1>1 DEF Wanted, Committing, Running, JobInv
<1>3. job[s].holds # {} /\ job[s].holds \subseteq {job[s].op.user, job[s].op.team}
  BY <1>1, <1>2 DEF RowsInv, OwnRows
<1>4. job[s].at # "user"
  BY <1>3 DEF RowsInv, OwnRows
<1>5. CASE job[s].at = "new team"
  <2>1. Wanted(s) = {job[s].op.team}
    BY <1>5 DEF Wanted, Committing
  <2>2. job[s].op.team \in job[t].holds
    BY <1>1, <2>1
  <2>3. ~ Free(s, job[s].op.team)
    BY <2>2 DEF Free
  <2> QED
    BY <1>2, <1>5, <2>3 DEF TeamRace
<1>6. CASE job[s].at = "commit"
  <2>1. job[s].op.user \in job[t].holds
    BY <1>1, <1>2, <1>6 DEF Wanted, Committing
  <2>2. job[s].op.user \notin job[s].holds
    BY <2>1 DEF RowsInv
  <2> QED
    BY <1>2, <1>3, <2>1, <2>2 DEF TeamRace, Free
<1> QED
  BY <1>2, <1>4, <1>5, <1>6

\* A sign-in that moves on: what becomes of the rows it holds, and why it fails.
LEMMA SignInMoves ==
  ASSUME IInv, NEW s \in Call,
         WriteUser(s) \/ LookForTeam(s) \/ WriteTeam(s) \/ Deadlock(s)
  PROVE  \E at \in At : /\ Moves(s, at) /\ Running(s)
                        /\ at = "failed" => TeamRace(s)
                        /\ RowsInv'
<1> USE DEF IInv
<1>1. Running(s) /\ job[s].at # "idle" /\ job[s].op.kind = "sign in"
  BY DeadlockRaces DEF WriteUser, LookForTeam, WriteTeam, Running, JobInv
<1>2. job[s].op.user \in User /\ job[s].op.team \in Team \cup {NoTeam}
  BY <1>1, BegunFields, OpFields DEF Begun
<1>3. {"team", "new team", "commit", "failed"} \subseteq At
  BY DEF At
<1>4. OwnRows(s) /\ UNCHANGED users
  BY DEF RowsInv, WriteUser, LookForTeam, WriteTeam, Deadlock
<1>5. ASSUME NEW at \in {"team", "new team", "commit"}, job' = [job EXCEPT ![s].at = at]
      PROVE  Moves(s, at) /\ job'[s].holds = job[s].holds
  <2>1. job[s] \in Begun /\ job \in [Call -> {NotBegun} \cup Begun]
    BY <1>1, BegunFields DEF JobInv
  <2>2. job' = [job EXCEPT ![s].at = at, ![s].holds = job[s].holds]
    BY <1>5, <2>1 DEF Begun
  <2>3. job[s].holds \in SUBSET (User \cup Team \cup {NoTeam})
    BY <2>1 DEF Begun
  <2>4. at \in At /\ (at \in {"user", "team", "new team"} => job[s].op.kind = "sign in")
    BY <1>1, <1>3, <1>5
  <2>5. JobInv
    OBVIOUS
  <2> HIDE DEF IInv
  <2> QED
    BY <1>1, <2>2, <2>3, <2>4, <2>5, MoveJob
<1>6. CASE WriteUser(s)
  <2> DEFINE u == job[s].op.user
  <2>1. job[s].at = "user" /\ Free(s, u) /\ job[s].holds = {}
    BY <1>4, <1>6 DEF WriteUser, OwnRows
  <2>2. CASE Write(s, u, "team")
    <3>1. Moves(s, "team") /\ job'[s].holds = {u}
      BY <1>1, <1>2, <1>3, <2>1, <2>2, WriteMoves
    <3>2. OwnRows(s)'
      BY <1>1, <3>1 DEF OwnRows, Running, Moves
    <3> QED
      BY <1>1, <1>3, <1>4, <2>1, <3>1, <3>2, RowsKept DEF Moves
  <2>3. CASE users[u] # Absent /\ job' = [job EXCEPT ![s].at = "team"]
    <3>1. Moves(s, "team") /\ job'[s].holds = {}
      BY <1>5, <2>1, <2>3
    <3>2. OwnRows(s)'
      BY <1>1, <1>4, <2>3, <3>1 DEF OwnRows, Running, Moves
    <3> QED
      BY <1>1, <1>3, <1>4, <3>1, <3>2, RowsKept DEF Moves
  <2> QED
    BY <1>6, <2>2, <2>3 DEF WriteUser, LookAgain
<1>7. CASE LookForTeam(s)
  <2>1. PICK at \in {"new team", "commit"} : job' = [job EXCEPT ![s].at = at]
    BY <1>7 DEF LookForTeam
  <2>2. Moves(s, at) /\ job'[s].holds = job[s].holds
    BY <1>5, <2>1
  <2>3. OwnRows(s)'
    BY <1>1, <1>4, <1>7, <2>2 DEF OwnRows, Running, Moves, LookForTeam
  <2> QED
    BY <1>1, <1>3, <1>4, <2>2, <2>3, RowsKept DEF Moves
<1>8. CASE WriteTeam(s)
  <2>1. job[s].at = "new team" /\ Free(s, job[s].op.team)
    BY <1>8 DEF WriteTeam
  <2>2. CASE job[s].op.team \in teams
    <3>1. Fail(s)
      BY <1>8, <2>2 DEF WriteTeam
    <3>2. Moves(s, "failed") /\ job'[s].holds = {}
      BY <1>1, <3>1, FailMoves
    <3> QED
      BY <1>1, <1>3, <1>4, <2>1, <2>2, <3>2, RowsGiven DEF TeamRace
  <2>3. CASE job[s].op.team \notin teams
    <3>1. Write(s, job[s].op.team, "commit")
      BY <1>8, <2>3 DEF WriteTeam
    <3>2. Moves(s, "commit") /\ job'[s].holds = job[s].holds \cup {job[s].op.team}
      BY <1>1, <1>2, <1>3, <3>1, WriteMoves
    <3>3. OwnRows(s)'
      BY <1>1, <1>4, <2>1, <3>2 DEF OwnRows, Running, Moves
    <3> QED
      BY <1>1, <1>3, <1>4, <2>1, <3>2, <3>3, RowsKept DEF Moves
  <2> QED
    BY <2>2, <2>3
<1>9. CASE Deadlock(s)
  <2>1. Moves(s, "failed") /\ job'[s].holds = {}
    BY <1>1, <1>9, FailMoves DEF Deadlock
  <2> QED
    BY <1>1, <1>3, <1>4, <1>9, <2>1, DeadlockRaces, RowsGiven
<1> QED
  BY <1>6, <1>7, <1>8, <1>9

LEMMA SignInStepKeeps ==
  ASSUME IInv, NEW s \in Call,
         WriteUser(s) \/ LookForTeam(s) \/ WriteTeam(s) \/ Deadlock(s)
  PROVE  IInv'
<1>1. PICK at \in At : Moves(s, at) /\ Running(s) /\ RowsInv'
  BY SignInMoves
<1>2. UNCHANGED <<users, teams, specs, deps>>
  BY DEF WriteUser, LookForTeam, WriteTeam, Deadlock
<1>3. JobInv' /\ DeleteInv' /\ EntryInv' /\ MadeInv'
  BY <1>1, <1>2, MoveKeeps
<1>4. TypeOK'
  BY <1>2, <1>3, TypeKept DEF IInv
<1> QED
  BY <1>1, <1>3, <1>4 DEF IInv

LEMMA CommitUserStep ==
  ASSUME IInv, NEW s \in Call, CommitUser(s)
  PROVE  IInv'
<1> USE DEF IInv
<1> DEFINE op == job[s].op
           role == IF op.user \in job[s].holds THEN op.role ELSE users[op.user].role
           team == IF op.team = NoTeam THEN users[op.user].team ELSE op.team
<1>1. Running(s) /\ job[s].at = "commit" /\ op.kind = "sign in" /\ Answer(s)
  BY DEF CommitUser, Committing, Running
<1>2. Moves(s, "answered") /\ job'[s].holds = {}
  BY <1>1, AnswerMoves
<1>3. JobInv' /\ DeleteInv' /\ EntryInv' /\ MadeInv'
  BY <1>1, <1>2, MoveKeeps DEF CommitUser, At
<1>4. op.user \in User /\ op.role \in Role /\ op.team \in Team \cup {NoTeam}
  BY <1>1, BegunFields, OpFields DEF Begun
<1>5. /\ users' = [users EXCEPT ![op.user] = [role |-> role, team |-> team]]
      /\ teams' = teams \cup ({op.team} \ {NoTeam})
      /\ UNCHANGED <<specs, deps>>
  BY <1>4 DEF CommitUser, TypeOK
<1>6. \A c \in Call : job'[c].at \in At \cup {"idle"}
  BY <1>3, StageType DEF JobInv
<1>7. teams' \subseteq Team
  BY <1>4, <1>5 DEF TypeOK
<1>8. users[op.user].team \in teams \cup {NoTeam} /\ teams \subseteq Team
  BY <1>4 DEF TypeOK
<1>9. role \in Role
  <2>1. CASE op.user \in job[s].holds
    BY <1>4, <2>1
  <2>2. CASE op.user \notin job[s].holds
    <3>1. users[op.user] # Absent
      BY <1>1, <2>2 DEF RowsInv, OwnRows
    <3>2. users[op.user].role \in Role
      BY <1>4, <3>1 DEF TypeOK
    <3> QED
      BY <2>2, <3>2
  <2> QED
    BY <2>1, <2>2
<1>10. team \in teams' \cup {NoTeam}
  BY <1>5, <1>8
<1> HIDE DEF op, role, team
<1>11. [role |-> role, team |-> team] \in [role : Role, team : Team \cup {NoTeam}]
  BY <1>7, <1>9, <1>10
<1>12. users' \in [User -> {Absent} \cup [role : Role, team : Team \cup {NoTeam}]]
  BY <1>5, <1>11 DEF TypeOK
<1>13. \A u \in User : users'[u].team \in teams' \cup {NoTeam}
  BY <1>4, <1>5, <1>10 DEF TypeOK
<1>14. \A u \in User : users[u] # Absent => users'[u] # Absent
  BY <1>4, <1>5, <1>9 DEF TypeOK, Absent, Role
<1>15. RowsInv'
  BY <1>2, <1>14, RowsGiven
<1> QED
  BY <1>3, <1>5, <1>6, <1>7, <1>12, <1>13, <1>15 DEF TypeOK, At, Entry

\* A step of the catalog moves the request on to its answer or its failure,
\* and others stay where they are.
LEMMA CatalogMoves ==
  ASSUME IInv, NEW s \in Call, CreateSpec(s) \/ Reseed(s) \/ Deploy(s)
  PROVE  \E at \in {"answered", "failed"} : Moves(s, at) /\ Running(s) /\ job'[s].holds = {}
<1>1. Running(s) /\ job[s].at # "idle"
  BY DEF CreateSpec, Reseed, Deploy, Committing, Running
<1>2. Answer(s) \/ Fail(s)
  BY DEF CreateSpec, Reseed, Deploy
<1> QED
  BY <1>1, <1>2, AnswerMoves, FailMoves DEF IInv

\* A request of the catalog has an entry, and one that deploys a deployment.
LEMMA CatalogOp ==
  ASSUME IInv, NEW s \in Call, job[s].at = "commit", job[s].op.kind # "sign in"
  PROVE  /\ job[s].op.key \in Key
         /\ job[s].op.kind = "deploy" => job[s].op.dep \in Dep
         /\ job[s].op.kind = "update" => job[s].op.to \in Key \cup {NoKey}
<1>1. job[s].op \in Op
  BY BegunFields DEF IInv, Begun
<1> QED
  BY <1>1, OpFields

\* No step that only writes entries loses what refers to one.
LEMMA EntriesGrow ==
  ASSUME IInv, NEW s \in Call, NEW at \in {"answered", "failed"}, Running(s), Moves(s, at),
         job'[s].holds = {}, UNCHANGED <<users, teams, deps>>,
         specs' \in [Key -> {"nothing", "seed", "operator"}],
         \A k \in Key : Entry(k) => Entry(k)'
  PROVE  IInv'
<1> USE DEF IInv, Moves
<1>1. \A t \in Call : Running(t)' => /\ Running(t) /\ job'[t].op = job[t].op
                                     /\ job'[t].seen = job[t].seen /\ job'[t].gone = job[t].gone
  BY DEF Running
<1>2. DeleteInv'
  BY <1>1 DEF DeleteInv
<1>3. EntryInv'
  <2> SUFFICES ASSUME NEW t \in Call, Running(t), job[t].op.kind \in {"update", "delete", "deploy"},
                      ~ job[t].gone
               PROVE  Entry(job[t].op.key)'
    BY <1>1 DEF EntryInv, Entry
  <2>1. Entry(job[t].op.key)
    BY DEF EntryInv
  <2>2. job'[t].op = job[t].op
    OBVIOUS
  <2>3. job[t].op.key \in Key
    BY BegunFields, OpFields DEF Running, Begun
  <2> QED
    BY <2>1, <2>2, <2>3 DEF Entry
<1>4. \A c \in Call : job'[c].at \in At \cup {"idle"}
  BY StageType DEF JobInv
<1>5. (\A d \in Dep : deps[d].spec # NoKey => Entry(deps[d].spec))'
  BY ZenonT(60) DEF TypeOK, Entry
<1>6. TypeOK'
  BY <1>4, <1>5 DEF TypeOK, At, Entry
<1>7. RowsInv'
  BY RowsGiven
<1> QED
  BY <1>2, <1>3, <1>6, <1>7 DEF MadeInv

LEMMA CreateSpecStep ==
  ASSUME IInv, NEW s \in Call, CreateSpec(s)
  PROVE  IInv'
<1>1. PICK at \in {"answered", "failed"} : Moves(s, at) /\ Running(s) /\ job'[s].holds = {}
  BY CatalogMoves
<1>2. job[s].op.key \in Key
  BY CatalogOp DEF CreateSpec, Committing
<1>3. specs' = specs \/ specs' = [specs EXCEPT ![job[s].op.key] = "operator"]
  BY DEF CreateSpec
<1>4. specs' \in [Key -> {"nothing", "seed", "operator"}] /\ \A k \in Key : Entry(k) => Entry(k)'
  BY <1>2, <1>3 DEF IInv, TypeOK, Entry
<1> QED
  BY <1>1, <1>4, EntriesGrow DEF CreateSpec, At

LEMMA ReseedStep ==
  ASSUME IInv, NEW s \in Call, Reseed(s)
  PROVE  IInv'
<1>1. PICK at \in {"answered", "failed"} : Moves(s, at) /\ Running(s) /\ job'[s].holds = {}
  BY CatalogMoves
<1>2. specs' = specs \/ specs' = Seeded(job[s].seen)
  BY DEF Reseed
<1>3. specs' \in [Key -> {"nothing", "seed", "operator"}] /\ \A k \in Key : Entry(k) => Entry(k)'
  BY <1>2 DEF IInv, TypeOK, Entry, Seeded
<1> QED
  BY <1>1, <1>3, EntriesGrow DEF Reseed, At

LEMMA DeployStep ==
  ASSUME IInv, NEW s \in Call, Deploy(s)
  PROVE  IInv'
<1> USE DEF IInv
<1>1. PICK at \in {"answered", "failed"} : Moves(s, at) /\ Running(s) /\ job'[s].holds = {}
  BY CatalogMoves
<1> DEFINE k == job[s].op.key
           d == job[s].op.dep
<1>2. job[s].at = "commit" /\ job[s].op.kind = "deploy" /\ k \in Key /\ d \in Dep
  BY CatalogOp DEF Deploy, Committing
<1>3. UNCHANGED <<users, teams, specs>>
  BY DEF Deploy
<1>6. RowsInv'
  BY <1>1, <1>3, RowsGiven
<1>4. CASE UNCHANGED deps
  <2>1. JobInv' /\ DeleteInv' /\ EntryInv' /\ MadeInv'
    BY <1>1, <1>3, <1>4, MoveKeeps DEF At
  <2> QED
    BY <2>1, <1>3, <1>4, <1>6, TypeKept
<1>5. CASE /\ ~ job[s].gone /\ ~ deps[d].made
           /\ deps' = [deps EXCEPT ![d] = [spec |-> k, made |-> TRUE,
                                           active |-> TRUE, back |-> FALSE]]
  <2>1. Entry(k)
    BY <1>1, <1>2, <1>5 DEF EntryInv
  <2> DEFINE new == [spec |-> k, made |-> TRUE, active |-> TRUE, back |-> FALSE]
             DepRow == [spec : Key \cup {NoKey}, made : BOOLEAN, active : BOOLEAN, back : BOOLEAN]
  <2>2. new \in DepRow
    BY <1>2
  <2>3. /\ deps' \in [Dep -> DepRow]
        /\ deps'[d] = new
        /\ \A e \in Dep \ {d} : deps'[e] = deps[e]
    BY <1>2, <1>5, <2>2 DEF TypeOK
  <2>4. deps'[d].spec = k /\ deps'[d].made
    BY <2>3
  <2>5. MadeInv'
    BY <2>3, <2>4 DEF MadeInv
  <2>6. (\A e \in Dep : deps[e].spec # NoKey => Entry(deps[e].spec))'
    <3>1. specs[k] # "nothing" /\ specs' = specs
      BY <1>3, <2>1 DEF Entry
    <3>2. \A e \in Dep \ {d} : deps[e].spec # NoKey => specs[deps[e].spec] # "nothing"
      BY DEF TypeOK, Entry
    <3> HIDE DEF d, k, new
    <3>3. \A e \in Dep : deps'[e].spec # NoKey => specs'[deps'[e].spec] # "nothing"
      BY <2>3, <2>4, <3>1, <3>2
    <3> QED
      BY <3>3 DEF Entry
  <2>7. \A t \in Call : Running(t)' => /\ Running(t) /\ job'[t].op = job[t].op
                                       /\ job'[t].seen = job[t].seen /\ job'[t].gone = job[t].gone
    BY <1>1 DEF Running, Moves
  <2>8. DeleteInv'
    <3> SUFFICES ASSUME NEW t \in Call, Running(t), job[t].op.kind = "delete",
                        NEW e \in Dep \cap job[t].seen
                 PROVE  deps'[e].made /\ (~ deps'[e].active \/ deps'[e].back)
      BY <2>7 DEF DeleteInv
    <3>1. deps[e].made /\ (~ deps[e].active \/ deps[e].back)
      BY DEF DeleteInv
    <3>2. e # d
      BY <3>1, <1>5
    <3> QED
      BY <3>1, <3>2, <2>3
  <2>9. EntryInv'
    BY <1>3, <2>7 DEF EntryInv, Entry
  <2>10. \A c \in Call : job'[c].at \in At \cup {"idle"}
    BY <1>1, StageType DEF JobInv, Moves
  <2> HIDE DEF d, k, new
  <2>11. TypeOK'
    BY <1>3, <2>3, <2>6, <2>10 DEF TypeOK, At, Entry
  <2> QED
    BY <1>1, <1>6, <2>5, <2>8, <2>9, <2>11 DEF Moves
<1> QED
  BY <1>4, <1>5 DEF Deploy

-----------------------------------------------------------------------------
\* What an update that goes through does to the requests: those of the entry go
\* with it to its key n.
Follows(s, n) ==
  /\ JobInv'
  /\ job'[s].at = "answered" /\ job'[s].holds = job[s].holds
  /\ \A t \in Call \ {s} :
       \/ /\ job'[t] = job[t]
          /\ Running(t) /\ job[t].op.kind \in {"update", "delete", "deploy"} =>
               job[t].op.key # job[s].op.key
       \/ /\ Running(t)
          /\ job'[t].at = job[t].at /\ job'[t].holds = job[t].holds
          /\ job'[t].seen = job[t].seen /\ job'[t].gone = job[t].gone
          /\ job[t].op.kind # "sign in" /\ job'[t].op.kind = job[t].op.kind
          /\ job'[t].op.key = n

Updated(s, n) ==
  /\ n = job[s].op.key \/ ~ Entry(n)
  /\ specs' = [specs EXCEPT ![job[s].op.key] = "nothing", ![n] = "operator"]
  /\ deps' = [d \in Dep |-> IF deps[d].spec = job[s].op.key
                           THEN [deps[d] EXCEPT !.spec = n] ELSE deps[d]]

LEMMA RekeyedCall ==
  ASSUME JobInv, NEW t \in Call, Running(t), NEW n \in Key,
         job[t].op.kind \in {"update", "delete", "deploy"},
         job'[t] = [job[t] EXCEPT !.op.key = n]
  PROVE  /\ job'[t] \in Begun
         /\ job'[t].at = job[t].at /\ job'[t].holds = job[t].holds
         /\ job'[t].seen = job[t].seen /\ job'[t].gone = job[t].gone
         /\ job'[t].op.kind = job[t].op.kind /\ job'[t].op.key = n
<1>1. job[t] \in Begun
  BY BegunFields DEF Running
<1> DEFINE new == [job[t].op EXCEPT !.key = n]
<1>2. new \in Op /\ new.key = n /\ new.kind = job[t].op.kind
  BY <1>1, OpRekeyed DEF Begun
<1>3. job'[t] = [job[t] EXCEPT !.op = new]
  BY <1>1 DEF Begun
<1> HIDE DEF new
<1> QED
  BY <1>1, <1>2, <1>3 DEF Begun

\* An update fails, or is written and takes all that refers to its entry along.
LEMMA UpdateCases ==
  ASSUME IInv, NEW s \in Call, UpdateSpec(s)
  PROVE  /\ Running(s) /\ job[s].op.kind = "update" /\ job[s].op.key \in Key
         /\ UNCHANGED <<users, teams>>
         /\ \/ UNCHANGED <<specs, deps>> /\ Moves(s, "failed") /\ job'[s].holds = {}
            \/ \E n \in Key : Updated(s, n) /\ Follows(s, n)
<1> USE DEF IInv
<1> DEFINE k == job[s].op.key
           n == IF job[s].op.to = NoKey THEN k ELSE job[s].op.to
<1>1. job[s].at = "commit" /\ job[s].op.kind = "update" /\ Running(s) /\ UNCHANGED <<users, teams>>
  BY DEF UpdateSpec, Committing, Running
<1>2. k \in Key /\ n \in Key
  BY <1>1, CatalogOp
<1>3. CASE job[s].gone \/ (n # k /\ Entry(n))
  <2>1. Fail(s) /\ UNCHANGED <<specs, deps>>
    BY <1>3 DEF UpdateSpec
  <2> QED
    BY <1>1, <1>2, <2>1, FailMoves
<1>4. CASE ~ (job[s].gone \/ (n # k /\ Entry(n)))
  <2> DEFINE Hit(t) == Running(t) /\ job[t].op.kind \in {"update", "delete", "deploy"}
                         /\ job[t].op.key = k
             J(t) == IF t = s THEN [job[s] EXCEPT !.at = "answered"] ELSE Rekeyed(t, k, n)
  <2>1. Updated(s, n) /\ job' = [t \in Call |-> J(t)]
    BY <1>4 DEF UpdateSpec, Updated
  <2> HIDE DEF n
  <2>2. /\ job'[s] \in Begun
        /\ job'[s].at = "answered" /\ job'[s].holds = job[s].holds
    <3>1. job[s] \in Begun
      BY <1>1, BegunFields
    <3>2. job'[s] = [job[s] EXCEPT !.at = "answered"]
      BY <2>1
    <3> QED
      BY <3>1, <3>2 DEF Begun, At
  <2>3. ASSUME NEW t \in Call \ {s}, Hit(t)
        PROVE  /\ job'[t] \in Begun
               /\ job'[t].at = job[t].at /\ job'[t].holds = job[t].holds
               /\ job'[t].seen = job[t].seen /\ job'[t].gone = job[t].gone
               /\ job'[t].op.kind = job[t].op.kind /\ job'[t].op.key = n
    <3>1. job'[t] = [job[t] EXCEPT !.op.key = n]
      BY <2>1, <2>3 DEF Rekeyed
    <3> QED
      BY <1>2, <2>3, <3>1, RekeyedCall
  <2>4. ASSUME NEW t \in Call \ {s}, ~ Hit(t)
        PROVE  job'[t] = job[t]
    BY <2>1, <2>4 DEF Rekeyed
  <2>5. job' \in [Call -> {NotBegun} \cup Begun]
    <3>1. \A t \in Call : job'[t] \in {NotBegun} \cup Begun
      BY <2>2, <2>3, <2>4 DEF JobInv
    <3> HIDE DEF J
    <3> QED
      BY <2>1, <3>1
  <2> HIDE DEF J
  <2>6. \A t \in Call : job'[t].at \in {"user", "team", "new team"} => job'[t].op.kind = "sign in"
    BY <2>2, <2>3, <2>4 DEF JobInv
  <2>7. Follows(s, n)
    BY <2>2, <2>3, <2>4, <2>5, <2>6 DEF Follows, JobInv
  <2> QED
    BY <1>1, <1>2, <2>1, <2>7
<1> QED
  BY <1>3, <1>4

LEMMA UpdateSpecStep ==
  ASSUME IInv, NEW s \in Call, UpdateSpec(s)
  PROVE  IInv'
<1> USE DEF IInv
<1> DEFINE k == job[s].op.key
<1>1. Running(s) /\ job[s].op.kind = "update" /\ k \in Key /\ UNCHANGED <<users, teams>>
  BY UpdateCases
<1>2. CASE UNCHANGED <<specs, deps>> /\ Moves(s, "failed") /\ job'[s].holds = {}
  <2>1. JobInv' /\ DeleteInv' /\ EntryInv' /\ MadeInv'
    BY <1>1, <1>2, MoveKeeps DEF At
  <2>2. RowsInv'
    BY <1>1, <1>2, RowsGiven
  <2> QED
    BY <2>1, <2>2, <1>1, <1>2, TypeKept
<1>3. ASSUME NEW n \in Key, Updated(s, n), Follows(s, n)
      PROVE  IInv'
  <2> DEFINE DepRow == [spec : Key \cup {NoKey}, made : BOOLEAN, active : BOOLEAN, back : BOOLEAN]
  <2>1. ASSUME NEW d \in Dep
        PROVE  /\ deps'[d] \in DepRow
               /\ deps'[d].made = deps[d].made /\ deps'[d].active = deps[d].active
               /\ deps'[d].back = deps[d].back
               /\ deps'[d].spec = IF deps[d].spec = k THEN n ELSE deps[d].spec
    <3>1. deps[d] \in DepRow
      BY DEF TypeOK
    <3>2. deps'[d] = IF deps[d].spec = k THEN [deps[d] EXCEPT !.spec = n] ELSE deps[d]
      BY <1>3 DEF Updated
    <3> QED
      BY <3>1, <3>2
  <2>2. deps' \in [Dep -> DepRow]
    <3>1. deps' = [d \in Dep |-> deps'[d]]
      BY <1>3 DEF Updated
    <3> HIDE DEF DepRow
    <3> QED
      BY <2>1, <3>1
  <2>3. /\ specs' \in [Key -> {"nothing", "seed", "operator"}]
        /\ specs'[n] = "operator"
        /\ \A e \in Key \ {k, n} : specs'[e] = specs[e]
    BY <1>1, <1>3 DEF Updated, TypeOK
  <2>4. \A e \in Key \ {k} : specs[e] # "nothing" => specs'[e] # "nothing"
    BY <2>3
  <2>5. (\A d \in Dep : deps[d].spec # NoKey => Entry(deps[d].spec))'
    <3> SUFFICES ASSUME NEW d \in Dep, deps'[d].spec # NoKey
                 PROVE  specs'[deps'[d].spec] # "nothing"
      BY DEF Entry
    <3>1. CASE deps[d].spec = k
      BY <2>1, <2>3, <3>1
    <3>2. CASE deps[d].spec # k
      <4>1. deps'[d].spec = deps[d].spec
        BY <2>1, <3>2
      <4>2. deps[d].spec \in Key /\ specs[deps[d].spec] # "nothing"
        BY <4>1 DEF TypeOK, Entry
      <4> QED
        BY <2>4, <3>2, <4>1, <4>2
    <3> QED
      BY <3>1, <3>2
  <2>6. MadeInv'
    BY <1>1, <2>1, RegistryAssumption DEF MadeInv
  <2>7. \A t \in Call : Running(t)' => t # s /\ Running(t)
    BY <1>3 DEF Follows, Running
  <2>8. DeleteInv'
    <3> SUFFICES ASSUME NEW t \in Call, Running(t)', job'[t].op.kind = "delete",
                        NEW d \in Dep \cap job'[t].seen
                 PROVE  deps'[d].made /\ (~ deps'[d].active \/ deps'[d].back)
      BY DEF DeleteInv
    <3>1. Running(t) /\ job[t].op.kind = "delete" /\ job'[t].seen = job[t].seen
      BY <1>3, <2>7 DEF Follows
    <3> QED
      BY <2>1, <3>1 DEF DeleteInv
  <2>9. EntryInv'
    <3> SUFFICES ASSUME NEW t \in Call, Running(t)', ~ job'[t].gone,
                        job'[t].op.kind \in {"update", "delete", "deploy"}
                 PROVE  specs'[job'[t].op.key] # "nothing"
      BY DEF EntryInv, Entry
    <3>1. t # s /\ Running(t)
      BY <2>7
    <3>2. CASE job'[t].op.key = n
      BY <2>3, <3>2
    <3>3. CASE job'[t] = job[t] /\ job[t].op.key # k
      <4>1. specs[job[t].op.key] # "nothing"
        BY <3>1, <3>3 DEF EntryInv, Entry
      <4>2. job[t].op.key \in Key
        BY <3>1, <3>3, BegunFields, OpFields DEF Running, Begun
      <4> QED
        BY <2>4, <3>3, <4>1, <4>2
    <3> QED
      BY <1>3, <3>1, <3>2, <3>3 DEF Follows
  <2>10. \A c \in Call : job'[c].at \in At \cup {"idle"}
    BY <1>3, StageType DEF JobInv, Follows
  <2>11. TypeOK'
    BY <1>1, <2>2, <2>3, <2>5, <2>10 DEF TypeOK, At
  <2>12. RowsInv'
    <3>1. OwnRows(s)'
      BY <1>1, <1>3 DEF RowsInv, OwnRows, Running, Follows
    <3> QED
      BY <1>1, <1>3, <3>1, RowsKept DEF Follows
  <2> QED
    BY <1>3, <2>6, <2>8, <2>9, <2>11, <2>12 DEF Follows
<1> QED
  BY <1>2, <1>3, UpdateCases

-----------------------------------------------------------------------------
\* What a deletion that goes through does to the requests.
Forgets(s) ==
  /\ JobInv'
  /\ \A t \in Call : Running(t)' =>
       /\ t # s /\ Running(t) /\ job'[t].op = job[t].op /\ job'[t].seen = job[t].seen
       /\ ~ job'[t].gone => ~ job[t].gone
       /\ job[t].op.kind \in {"update", "delete", "deploy"} /\ job[t].op.key = job[s].op.key
            => job'[t].gone
  /\ job'[s].at = "answered" /\ job'[s].holds = job[s].holds
  /\ \A t \in Call \ {s} :
       \/ job'[t] = job[t]
       \/ /\ job'[t].at = job[t].at /\ job'[t].holds = job[t].holds
          /\ job[t].op.kind # "sign in" /\ job'[t].op.kind # "sign in"
          /\ Running(t)

Deleted(s) ==
  /\ ~ ReferredTo(s)
  /\ specs' = [specs EXCEPT ![job[s].op.key] = "nothing"]
  /\ deps' = [d \in Dep |-> IF d \in job[s].seen THEN [deps[d] EXCEPT !.spec = NoKey]
                           ELSE deps[d]]

\* A deletion is refused, finds its entry gone, or takes it from every request.
LEMMA DeleteCases ==
  ASSUME IInv, NEW s \in Call, DeleteSpec(s)
  PROVE  /\ Running(s) /\ job[s].op.kind = "delete" /\ job[s].op.key \in Key
         /\ UNCHANGED <<users, teams>>
         /\ \/ /\ UNCHANGED <<specs, deps>>
               /\ job'[s].holds = {} /\ \E at \in {"answered", "failed"} : Moves(s, at)
            \/ Deleted(s) /\ Forgets(s)
<1> USE DEF IInv
<1> DEFINE k == job[s].op.key
<1>1. job[s].at = "commit" /\ job[s].op.kind = "delete" /\ Running(s) /\ UNCHANGED <<users, teams>>
  BY DEF DeleteSpec, Committing, Running
<1>2. k \in Key
  BY <1>1, CatalogOp
<1>3. CASE job[s].gone
  <2>1. Answer(s) /\ UNCHANGED <<specs, deps>>
    BY <1>3 DEF DeleteSpec
  <2> QED
    BY <1>1, <1>2, <2>1, AnswerMoves
<1>4. CASE ~ job[s].gone /\ ReferredTo(s)
  <2>1. Fail(s) /\ UNCHANGED <<specs, deps>>
    BY <1>4 DEF DeleteSpec
  <2> QED
    BY <1>1, <1>2, <2>1, FailMoves
<1>5. CASE ~ job[s].gone /\ ~ ReferredTo(s)
  <2> DEFINE Hit(t) == Running(t) /\ job[t].op.kind \in {"update", "delete", "deploy"}
                         /\ job[t].op.key = k
             J(t) == IF t = s THEN [job[s] EXCEPT !.at = "answered"]
                     ELSE IF Hit(t) THEN [job[t] EXCEPT !.gone = TRUE] ELSE job[t]
  <2>1. Deleted(s) /\ job' = [t \in Call |-> J(t)]
    BY <1>5 DEF DeleteSpec, Deleted
  <2>2. ASSUME NEW t \in Call
        PROVE  job[t] \in {NotBegun} \cup Begun
    BY DEF JobInv
  <2>3. job'[s] \in Begun /\ job'[s].at = "answered" /\ job'[s].holds = job[s].holds
    <3>1. job[s] \in Begun
      BY <1>1, BegunFields
    <3>2. job'[s] = [job[s] EXCEPT !.at = "answered"]
      BY <2>1
    <3> QED
      BY <3>1, <3>2 DEF Begun, At
  <2>4. ASSUME NEW t \in Call \ {s}, Hit(t)
        PROVE  /\ job'[t] \in Begun
               /\ job'[t].at = job[t].at /\ job'[t].op = job[t].op
               /\ job'[t].seen = job[t].seen /\ job'[t].gone
               /\ job'[t].holds = job[t].holds
    <3>1. job[t] \in Begun
      BY <2>4, BegunFields DEF Running
    <3>2. job'[t] = [job[t] EXCEPT !.gone = TRUE]
      BY <2>1, <2>4
    <3> QED
      BY <3>1, <3>2 DEF Begun
  <2>5. ASSUME NEW t \in Call \ {s}, ~ Hit(t)
        PROVE  job'[t] = job[t]
    BY <2>1, <2>5
  <2>6. job' \in [Call -> {NotBegun} \cup Begun]
    <3>1. \A t \in Call : J(t) \in {NotBegun} \cup Begun
      <4> TAKE t \in Call
      <4>1. job'[t] = J(t)
        BY <2>1
      <4>2. job'[t] \in {NotBegun} \cup Begun
        BY <2>2, <2>3, <2>4, <2>5
      <4> QED
        BY <4>1, <4>2
    <3> HIDE DEF J
    <3> QED
      BY <2>1, <3>1
  <2> HIDE DEF J
  <2>7. \A t \in Call \ {s} : job'[t].at = job[t].at /\ job'[t].op = job[t].op
                              /\ job'[t].seen = job[t].seen
    BY <2>4, <2>5
  <2>8. JobInv'
    BY <2>3, <2>6, <2>7 DEF JobInv
  <2>9. \A t \in Call : Running(t)' => t # s /\ Running(t)
    BY <2>3, <2>7 DEF Running
  <2>10. \A t \in Call \ {s} : ~ job'[t].gone => ~ job[t].gone
    BY <2>4, <2>5
  <2>11. \A t \in Call \ {s} : Hit(t) => job'[t].gone
    BY <2>4
  <2>12. ASSUME NEW t \in Call \ {s}
         PROVE  \/ job'[t] = job[t]
                \/ /\ job'[t].at = job[t].at /\ job'[t].holds = job[t].holds
                   /\ job[t].op.kind # "sign in" /\ job'[t].op.kind # "sign in"
                   /\ Running(t)
    BY <2>4, <2>5
  <2>13. Forgets(s)
    BY <2>3, <2>7, <2>8, <2>9, <2>10, <2>11, <2>12 DEF Forgets
  <2> QED
    BY <1>1, <1>2, <2>1, <2>13
<1> QED
  BY <1>3, <1>4, <1>5

LEMMA DeleteSpecStep ==
  ASSUME IInv, NEW s \in Call, DeleteSpec(s)
  PROVE  IInv'
<1> USE DEF IInv
<1> DEFINE k == job[s].op.key
<1>1. Running(s) /\ job[s].op.kind = "delete" /\ k \in Key /\ UNCHANGED <<users, teams>>
  BY DeleteCases
<1>2. CASE /\ UNCHANGED <<specs, deps>>
           /\ job'[s].holds = {} /\ \E at \in {"answered", "failed"} : Moves(s, at)
  <2>1. JobInv' /\ DeleteInv' /\ EntryInv' /\ MadeInv'
    BY <1>1, <1>2, MoveKeeps DEF At
  <2>2. RowsInv'
    BY <1>1, <1>2, RowsGiven
  <2> QED
    BY <2>1, <2>2, <1>1, <1>2, TypeKept
<1>3. CASE Deleted(s) /\ Forgets(s)
  <2> DEFINE DepRow == [spec : Key \cup {NoKey}, made : BOOLEAN, active : BOOLEAN, back : BOOLEAN]
  <2>1. ASSUME NEW d \in Dep
        PROVE  /\ deps'[d] \in DepRow
               /\ deps'[d].made = deps[d].made /\ deps'[d].active = deps[d].active
               /\ deps'[d].back = deps[d].back
               /\ deps'[d].spec = NoKey \/ (deps'[d].spec = deps[d].spec /\ d \notin job[s].seen)
    <3>1. deps[d] \in DepRow
      BY DEF TypeOK
    <3>2. deps'[d] = IF d \in job[s].seen THEN [deps[d] EXCEPT !.spec = NoKey] ELSE deps[d]
      BY <1>3 DEF Deleted
    <3> QED
      BY <3>1, <3>2
  <2>2. deps' \in [Dep -> DepRow]
    <3>1. deps' = [d \in Dep |-> deps'[d]]
      BY <1>3 DEF Deleted
    <3> HIDE DEF DepRow
    <3> QED
      BY <2>1, <3>1
  <2>3. \A d \in Dep : deps'[d].spec # NoKey => deps'[d].spec = deps[d].spec /\ deps[d].spec # k
    BY <1>3, <2>1 DEF Deleted, ReferredTo
  <2>4. /\ specs' \in [Key -> {"nothing", "seed", "operator"}]
        /\ \A e \in Key \ {k} : specs'[e] = specs[e]
    BY <1>1, <1>3 DEF Deleted, TypeOK
  <2>5. (\A d \in Dep : deps[d].spec # NoKey => Entry(deps[d].spec))'
    <3> SUFFICES ASSUME NEW d \in Dep, deps'[d].spec # NoKey
                 PROVE  specs'[deps'[d].spec] # "nothing"
      BY DEF Entry
    <3>1. deps'[d].spec = deps[d].spec /\ deps[d].spec # k
      BY <2>3
    <3>2. deps[d].spec \in Key /\ specs[deps[d].spec] # "nothing"
      BY <3>1 DEF TypeOK, Entry
    <3> QED
      BY <2>4, <3>1, <3>2
  <2>6. MadeInv'
    BY <2>1, <2>3 DEF MadeInv
  <2>7. DeleteInv'
    <3> SUFFICES ASSUME NEW t \in Call, Running(t)', job'[t].op.kind = "delete",
                        NEW d \in Dep \cap job'[t].seen
                 PROVE  deps'[d].made /\ (~ deps'[d].active \/ deps'[d].back)
      BY DEF DeleteInv
    <3>1. Running(t) /\ job[t].op.kind = "delete" /\ d \in job[t].seen
      BY <1>3 DEF Forgets
    <3>2. deps[d].made /\ (~ deps[d].active \/ deps[d].back)
      BY <3>1 DEF DeleteInv
    <3> QED
      BY <2>1, <3>2
  <2>8. EntryInv'
    <3> SUFFICES ASSUME NEW t \in Call, Running(t)', ~ job'[t].gone,
                        job'[t].op.kind \in {"update", "delete", "deploy"}
                 PROVE  specs'[job'[t].op.key] # "nothing"
      BY DEF EntryInv, Entry
    <3>1. Running(t) /\ job'[t].op = job[t].op /\ ~ job[t].gone /\ job[t].op.key # k
      BY <1>3 DEF Forgets
    <3>2. specs[job[t].op.key] # "nothing"
      BY <3>1 DEF EntryInv, Entry
    <3>3. job[t].op.key \in Key
      BY <3>1, BegunFields, OpFields DEF Running, Begun
    <3> QED
      BY <2>4, <3>1, <3>2, <3>3
  <2>9. \A c \in Call : job'[c].at \in At \cup {"idle"}
    BY <1>3, StageType DEF JobInv, Forgets
  <2>10. TypeOK'
    BY <1>1, <2>2, <2>4, <2>5, <2>9 DEF TypeOK, At
  <2>11. RowsInv'
    <3>1. OwnRows(s)'
      BY <1>1, <1>3 DEF RowsInv, OwnRows, Running, Forgets
    <3> QED
      BY <1>1, <1>3, <3>1, RowsKept DEF Forgets
  <2> QED
    BY <1>3, <2>6, <2>7, <2>8, <2>10, <2>11 DEF Forgets
<1> QED
  BY <1>2, <1>3, DeleteCases

\* What a deployment refers to is settled by the row, its spec and its state.
LEMMA FinishStep ==
  ASSUME IInv, NEW d \in Dep, Finish(d)
  PROVE  IInv'
<1> USE DEF IInv
<1>1. deps' = [deps EXCEPT ![d].active = FALSE] /\ UNCHANGED <<users, teams, specs, job>>
  BY DEF Finish
<1> DEFINE DepRow == [spec : Key \cup {NoKey}, made : BOOLEAN, active : BOOLEAN, back : BOOLEAN]
<1>2. deps' \in [Dep -> DepRow]
  BY <1>1 DEF TypeOK
<1>3. \A e \in Dep : /\ deps'[e].spec = deps[e].spec /\ deps'[e].made = deps[e].made
                     /\ deps'[e].back = deps[e].back
                     /\ ~ deps[e].active => ~ deps'[e].active
  BY <1>1 DEF TypeOK
<1>4. (\A e \in Dep : deps[e].spec # NoKey => Entry(deps[e].spec))'
  BY <1>1, <1>3, ZenonT(60) DEF TypeOK, Entry
<1>5. TypeOK'
  BY <1>1, <1>2, <1>4 DEF TypeOK
<1>6. MadeInv'
  BY <1>3 DEF MadeInv
<1>7. DeleteInv'
  BY <1>1, <1>3, ZenonT(60) DEF DeleteInv, Running
<1>8. EntryInv' /\ JobInv' /\ RowsInv'
  BY <1>1 DEF EntryInv, JobInv, RowsInv, OwnRows, Running, Entry
<1> QED
  BY <1>5, <1>6, <1>7, <1>8

LEMMA ComeBackStep ==
  ASSUME IInv, NEW d \in Dep, ComeBack(d)
  PROVE  IInv'
<1> USE DEF IInv
<1>1. /\ deps' = [deps EXCEPT ![d].active = TRUE, ![d].back = TRUE]
      /\ UNCHANGED <<users, teams, specs, job>>
  BY DEF ComeBack
<1> DEFINE DepRow == [spec : Key \cup {NoKey}, made : BOOLEAN, active : BOOLEAN, back : BOOLEAN]
<1>2. deps' \in [Dep -> DepRow]
  BY <1>1 DEF TypeOK
<1>3. \A e \in Dep : /\ deps'[e].spec = deps[e].spec /\ deps'[e].made = deps[e].made
                     /\ deps'[e].back \/ (deps'[e].active = deps[e].active
                                            /\ deps'[e].back = deps[e].back)
  BY <1>1 DEF TypeOK
<1>4. (\A e \in Dep : deps[e].spec # NoKey => Entry(deps[e].spec))'
  BY <1>1, <1>3 DEF TypeOK, Entry
<1>5. TypeOK'
  BY <1>1, <1>2, <1>4 DEF TypeOK
<1>6. MadeInv'
  BY <1>3 DEF MadeInv
<1>7. DeleteInv'
  BY <1>1, <1>3, ZenonT(60) DEF DeleteInv, Running
<1>8. EntryInv' /\ JobInv' /\ RowsInv'
  BY <1>1 DEF EntryInv, JobInv, RowsInv, OwnRows, Running, Entry
<1> QED
  BY <1>5, <1>6, <1>7, <1>8

\* Nothing is running after a restart.
LEMMA RestartEnds ==
  ASSUME JobInv, Restart
  PROVE  /\ JobInv'
         /\ \A s \in Call : ~ Running(s)'
         /\ \A s \in Call : job'[s] = job[s] \/ job'[s].holds = {}
         /\ \A s \in Call : Running(s) => job'[s].at = "cut off"
<1> DEFINE J(s) == IF Running(s) THEN [job[s] EXCEPT !.at = "cut off", !.holds = {}] ELSE job[s]
<1>1. job' = [s \in Call |-> J(s)]
  BY DEF Restart
<1>2. ASSUME NEW s \in Call, Running(s)
      PROVE  job'[s] \in Begun /\ job'[s].at = "cut off" /\ job'[s].holds = {}
  <2>1. job[s] \in Begun
    BY <1>2, BegunFields DEF Running
  <2>2. job'[s] = [job[s] EXCEPT !.at = "cut off", !.holds = {}]
    BY <1>1, <1>2
  <2> QED
    BY <2>1, <2>2 DEF Begun, At
<1>3. ASSUME NEW s \in Call, ~ Running(s)
      PROVE  job'[s] = job[s]
  BY <1>1, <1>3
<1>4. \A s \in Call : job'[s] \in {NotBegun} \cup Begun
  BY <1>2, <1>3 DEF JobInv
<1> HIDE DEF J
<1>5. job' \in [Call -> {NotBegun} \cup Begun]
  BY <1>1, <1>4
<1>6. \A s \in Call : ~ Running(s)'
  BY <1>2, <1>3 DEF Running
<1>7. \A s \in Call : job'[s].at \notin {"user", "team", "new team"}
  BY <1>2, <1>3 DEF Running
<1> QED
  BY <1>2, <1>3, <1>5, <1>6, <1>7 DEF JobInv

LEMMA RestartStep ==
  ASSUME IInv, Restart
  PROVE  IInv'
<1> USE DEF IInv
<1>1. UNCHANGED <<users, teams, deps>> /\ specs' = Seeded({k \in SEED : ~ Entry(k)})
  BY DEF Restart
<1>2. JobInv' /\ \A s \in Call : ~ Running(s)' /\ (job'[s] = job[s] \/ job'[s].holds = {})
  BY RestartEnds
<1>3. specs' \in [Key -> {"nothing", "seed", "operator"}] /\ \A k \in Key : Entry(k) => Entry(k)'
  BY <1>1 DEF TypeOK, Entry, Seeded
<1>4. (\A d \in Dep : deps[d].spec # NoKey => Entry(deps[d].spec))'
  BY <1>1, <1>3 DEF TypeOK, Entry
<1>5. \A c \in Call : job'[c].at \in At \cup {"idle"}
  BY <1>2, StageType DEF JobInv
<1>6. TypeOK'
  BY <1>1, <1>3, <1>4, <1>5 DEF TypeOK, At
<1>7. DeleteInv' /\ EntryInv'
  BY <1>2 DEF DeleteInv, EntryInv
<1>8. RowsInv'
  <2>1. ASSUME NEW s \in Call PROVE job'[s].holds = {} /\ job'[s].at # "user"
    <3>1. CASE Running(s)
      BY <3>1, RestartEnds DEF Running
    <3>2. CASE ~ Running(s)
      BY <1>2, <3>2 DEF RowsInv, OwnRows, Running
    <3> QED
      BY <3>1, <3>2
  <2> QED
    BY <1>2, <2>1 DEF RowsInv, OwnRows
<1> QED
  BY <1>1, <1>2, <1>6, <1>7, <1>8 DEF MadeInv

-----------------------------------------------------------------------------
LEMMA StepInv == IInv /\ [Next]_vars => IInv'
<1> SUFFICES ASSUME IInv, [Next]_vars PROVE IInv'
  OBVIOUS
<1>1. ASSUME NEW s \in Call, Begin(s) PROVE IInv'
  BY <1>1, BeginStep
<1>2. ASSUME NEW s \in Call, SignInStep(s) PROVE IInv'
  BY <1>2, SignInStepKeeps, CommitUserStep DEF SignInStep
<1>3. ASSUME NEW s \in Call, CatalogStep(s) PROVE IInv'
  BY <1>3, CreateSpecStep, UpdateSpecStep, DeleteSpecStep, ReseedStep, DeployStep DEF CatalogStep
<1>4. ASSUME NEW d \in Dep, Finish(d) \/ ComeBack(d) PROVE IInv'
  BY <1>4, FinishStep, ComeBackStep
<1>5. CASE Restart
  BY <1>5, RestartStep
<1>6. CASE UNCHANGED vars
  BY <1>6 DEF vars, IInv, TypeOK, JobInv, DeleteInv, EntryInv, MadeInv, RowsInv, OwnRows,
              Running, Entry
<1> QED
  BY <1>1, <1>2, <1>3, <1>4, <1>5, <1>6 DEF Next

\* The invariant holds throughout: what a deletion saw is over, and a request
\* knows whether its entry is still there.
THEOREM Invariance == Spec => []IInv
BY InitInv, StepInv, PTL DEF Spec

\* Every reference finds its row, whatever requests cross and whenever the
\* control plane restarts: the teams of users, the entries of deployments.
THEOREM TypeCorrect == Spec => []TypeOK
<1>1. IInv => TypeOK
  BY DEF IInv
<1> QED
  BY <1>1, Invariance, PTL

-----------------------------------------------------------------------------
\* An entry of an operator is not in what a seed looked for and did not find.
LEMMA SeedSpares ==
  ASSUME TypeOK, NEW M, \A k \in M : ~ Entry(k), specs' = Seeded(M), NEW k \in Key,
         specs[k] = "operator"
  PROVE  specs'[k] # "seed"
BY DEF Seeded, Entry

LEMMA StepSpares ==
  ASSUME IInv, [Next]_vars, NEW k \in Key, specs[k] = "operator"
  PROVE  specs'[k] # "seed"
<1> USE DEF IInv
<1>1. CASE UNCHANGED specs
  BY <1>1
<1>2. ASSUME NEW s \in Call, CreateSpec(s) PROVE specs'[k] # "seed"
  <2>1. specs' = specs \/ specs' = [specs EXCEPT ![job[s].op.key] = "operator"]
    BY <1>2 DEF CreateSpec
  <2> QED
    BY <2>1 DEF TypeOK
<1>9. ASSUME NEW s \in Call, UpdateSpec(s) PROVE specs'[k] # "seed"
  <2>1. \/ specs' = specs
        \/ \E n \in Key : specs' = [specs EXCEPT ![job[s].op.key] = "nothing", ![n] = "operator"]
    BY <1>9, UpdateCases DEF Updated
  <2> QED
    BY <2>1 DEF TypeOK
<1>3. ASSUME NEW s \in Call, DeleteSpec(s) PROVE specs'[k] # "seed"
  <2>1. specs' = specs \/ specs' = [specs EXCEPT ![job[s].op.key] = "nothing"]
    BY <1>3, DeleteCases DEF Deleted
  <2> QED
    BY <2>1 DEF TypeOK
<1>4. ASSUME NEW s \in Call, Reseed(s) PROVE specs'[k] # "seed"
  <2>1. specs' = specs \/ (specs' = Seeded(job[s].seen) /\ \A e \in job[s].seen : ~ Entry(e))
    BY <1>4 DEF Reseed
  <2> QED
    BY <2>1, SeedSpares
<1>5. CASE Restart
  <2>1. specs' = Seeded({e \in SEED : ~ Entry(e)})
    BY <1>5 DEF Restart
  <2> QED
    BY <2>1, SeedSpares
<1>6. ASSUME NEW s \in Call, Begin(s) \/ SignInStep(s) \/ Deploy(s) PROVE UNCHANGED specs
  BY <1>6 DEF Begin, SignInStep, WriteUser, LookForTeam, WriteTeam, CommitUser, Deadlock, Deploy
<1>7. ASSUME NEW d \in Dep, Finish(d) \/ ComeBack(d) PROVE UNCHANGED specs
  BY <1>7 DEF Finish, ComeBack
<1>8. CASE UNCHANGED vars
  BY <1>1, <1>8 DEF vars
<1> QED
  BY <1>1, <1>2, <1>3, <1>4, <1>5, <1>6, <1>7, <1>8, <1>9 DEF Next, CatalogStep

\* reseed and bootstrap only fill in what is not there, although reseed writes
\* later than it looks: an operator's entry never turns into the seed's.
THEOREM SeedSparesEdits == Spec => EditsSurvive
<1>1. IInv /\ [Next]_vars => (\A k \in Key : specs[k] = "operator" => specs'[k] # "seed")
  BY StepSpares
<1> QED
  BY <1>1, Invariance, PTL DEF Spec, EditsSurvive

-----------------------------------------------------------------------------
\* A step other than a deletion and an update only adds entries, and moves no
\* deployment from the entry it refers to.
Keeps(d) ==
  deps[d].spec # NoKey =>
    /\ deps'[d].spec = deps[d].spec \/ deps'[d].spec \in {k \in Key : ~ Entry(k)}
    /\ specs'[deps'[d].spec] # "nothing"

LEMMA OthersKeep ==
  ASSUME IInv, NEW d \in Dep, UNCHANGED deps, \A k \in Key : Entry(k) => Entry(k)'
  PROVE  Keeps(d)
BY DEF Keeps, IInv, TypeOK, Entry

LEMMA DeleteKeeps ==
  ASSUME IInv, NEW s \in Call, DeleteSpec(s), NEW d \in Dep, deps[d].active, ~ deps[d].back
  PROVE  Keeps(d)
<1> USE DEF IInv
<1>1. Running(s) /\ job[s].op.kind = "delete" /\ job[s].op.key \in Key
  BY DeleteCases
<1>2. CASE UNCHANGED <<specs, deps>>
  BY <1>2, OthersKeep DEF Entry
<1>3. CASE Deleted(s)
  <2>1. d \notin job[s].seen
    BY <1>1 DEF DeleteInv
  <2>2. deps'[d] = deps[d] /\ deps[d].spec # job[s].op.key
    BY <1>3, <2>1 DEF Deleted, ReferredTo
  <2>3. deps[d].spec # NoKey => deps[d].spec \in Key /\ specs[deps[d].spec] # "nothing"
    BY DEF TypeOK, Entry
  <2>4. \A k \in Key \ {job[s].op.key} : specs'[k] = specs[k]
    BY <1>3 DEF Deleted, TypeOK
  <2> QED
    BY <2>2, <2>3, <2>4 DEF Keeps
<1> QED
  BY <1>2, <1>3, DeleteCases

\* An update takes the deployments of its entry along, to a key that was free.
LEMMA UpdateKeeps ==
  ASSUME IInv, NEW s \in Call, UpdateSpec(s), NEW d \in Dep
  PROVE  Keeps(d)
<1> USE DEF IInv
<1>1. CASE UNCHANGED <<specs, deps>>
  BY <1>1, OthersKeep DEF Entry
<1>2. ASSUME NEW n \in Key, Updated(s, n)
      PROVE  Keeps(d)
  <2>1. specs'[n] = "operator" /\ \A k \in Key \ {job[s].op.key, n} : specs'[k] = specs[k]
    BY <1>2 DEF Updated, TypeOK
  <2>2. deps'[d].spec = IF deps[d].spec = job[s].op.key THEN n ELSE deps[d].spec
    BY <1>2 DEF Updated, TypeOK
  <2>3. deps[d].spec # NoKey => deps[d].spec \in Key /\ specs[deps[d].spec] # "nothing"
    BY DEF TypeOK, Entry
  <2> QED
    BY <1>2, <2>1, <2>2, <2>3 DEF Keeps, Updated
<1> QED
  BY <1>1, <1>2, UpdateCases

LEMMA StepKeepsInUse ==
  ASSUME IInv, [Next]_vars, NEW d \in Dep, deps[d].active, ~ deps[d].back
  PROVE  Keeps(d)
<1> USE DEF IInv
<1>1. CASE UNCHANGED <<specs, deps>>
  BY <1>1, OthersKeep DEF Entry
<1>2. ASSUME NEW s \in Call, Begin(s) \/ SignInStep(s) PROVE UNCHANGED <<specs, deps>>
  BY <1>2 DEF Begin, SignInStep, WriteUser, LookForTeam, WriteTeam, CommitUser, Deadlock
<1>3. ASSUME NEW s \in Call, CreateSpec(s) PROVE Keeps(d)
  <2>1. specs' = specs \/ specs' = [specs EXCEPT ![job[s].op.key] = "operator"]
    BY <1>3 DEF CreateSpec
  <2>2. \A k \in Key : Entry(k) => Entry(k)'
    BY <2>1 DEF TypeOK, Entry
  <2> QED
    BY <1>3, <2>2, OthersKeep DEF CreateSpec
<1>4. ASSUME NEW s \in Call, Reseed(s) PROVE Keeps(d)
  <2>1. specs' = specs \/ specs' = Seeded(job[s].seen)
    BY <1>4 DEF Reseed
  <2>2. \A k \in Key : Entry(k) => Entry(k)'
    BY <2>1, ZenonT(60) DEF TypeOK, Entry, Seeded
  <2> QED
    BY <1>4, <2>2, OthersKeep DEF Reseed
<1>5. ASSUME NEW s \in Call, Deploy(s) PROVE Keeps(d)
  <2>1. /\ UNCHANGED specs
        /\ deps' = deps \/ (~ deps[job[s].op.dep].made /\ \E row : deps' = [deps EXCEPT ![job[s].op.dep] = row])
    BY <1>5 DEF Deploy
  <2>2. deps[d].spec # NoKey => deps[d].made
    BY DEF MadeInv
  <2>3. deps[d].spec # NoKey => deps'[d] = deps[d]
    BY <2>1, <2>2 DEF TypeOK
  <2> QED
    BY <2>1, <2>3 DEF Keeps, TypeOK, Entry
<1>6. ASSUME NEW e \in Dep, Finish(e) \/ ComeBack(e) PROVE Keeps(d)
  <2>1. CASE Finish(e)
    BY <2>1 DEF Finish, TypeOK, Keeps, Entry
  <2>2. CASE ComeBack(e)
    BY <2>2 DEF ComeBack, TypeOK, Keeps, Entry
  <2> QED
    BY <1>6, <2>1, <2>2
<1>7. CASE UNCHANGED vars
  BY <1>1, <1>7 DEF vars
<1>8. CASE Restart
  <2>1. specs' = Seeded({k \in SEED : ~ Entry(k)}) /\ UNCHANGED deps
    BY <1>8 DEF Restart
  <2>2. \A k \in Key : Entry(k) => Entry(k)'
    BY <2>1 DEF TypeOK, Entry, Seeded
  <2> QED
    BY <2>1, <2>2, OthersKeep
<1> QED
  BY <1>1, <1>2, <1>3, <1>4, <1>5, <1>6, <1>7, <1>8, DeleteKeeps, UpdateKeeps
     DEF Next, CatalogStep

\* delete_spec looks for running deployments once, and may commit much later;
\* the database's reference check makes up for those that were made since.
THEOREM EntriesInUseStay == Spec => InUseKept
<1>1. IInv /\ [Next]_vars =>
        (\A d \in Dep : deps[d].active /\ ~ deps[d].back /\ deps[d].spec # NoKey =>
           /\ deps'[d].spec = deps[d].spec \/ deps'[d].spec \in {k \in Key : ~ Entry(k)}
           /\ specs'[deps'[d].spec] # "nothing")
  BY StepKeepsInUse DEF Keeps
<1> QED
  BY <1>1, Invariance, PTL DEF Spec, InUseKept

-----------------------------------------------------------------------------
LEMMA StepFails ==
  ASSUME IInv, [Next]_vars, NEW s \in Call, Running(s), job[s].op.kind = "sign in",
         job'[s].at = "failed"
  PROVE  TeamRace(s)
<1> USE DEF IInv
<1>1. job[s].at # "failed" /\ job[s].at # "idle"
  BY DEF Running
<1>2. ASSUME NEW t \in Call, Begin(t) PROVE FALSE
  <2>1. t # s
    BY <1>1, <1>2 DEF Begin
  <2>2. job'[s] = job[s]
    BY <1>2, <2>1 DEF Begin, JobInv
  <2> QED
    BY <1>1, <2>2
<1>3. ASSUME NEW t \in Call, WriteUser(t) \/ LookForTeam(t) \/ WriteTeam(t) \/ Deadlock(t)
      PROVE  TeamRace(s)
  <2>1. PICK at \in At : Moves(t, at) /\ (at = "failed" => TeamRace(t))
    BY <1>3, SignInMoves
  <2> QED
    BY <1>1, <2>1 DEF Moves
<1>4. ASSUME NEW t \in Call, CommitUser(t) PROVE FALSE
  <2>1. Moves(t, "answered")
    BY <1>4, AnswerMoves DEF CommitUser, Committing
  <2> QED
    BY <1>1, <2>1 DEF Moves
<1>5. ASSUME NEW t \in Call, CreateSpec(t) \/ Reseed(t) \/ Deploy(t) PROVE FALSE
  <2>1. t # s
    BY <1>5 DEF CreateSpec, Reseed, Deploy, Committing
  <2>2. PICK at \in {"answered", "failed"} : Moves(t, at)
    BY <1>5, CatalogMoves
  <2> QED
    BY <1>1, <2>1, <2>2 DEF Moves
<1>6. ASSUME NEW t \in Call, DeleteSpec(t) PROVE FALSE
  <2>1. t # s
    BY <1>6, DeleteCases
  <2>2. job'[s].at = job[s].at
    BY <1>6, <2>1, DeleteCases DEF Moves, Forgets
  <2> QED
    BY <1>1, <2>2
<1>10. ASSUME NEW t \in Call, UpdateSpec(t) PROVE FALSE
  <2>1. t # s
    BY <1>10, UpdateCases
  <2>2. job'[s].at = job[s].at
    BY <1>10, <2>1, UpdateCases DEF Moves, Follows
  <2> QED
    BY <1>1, <2>2
<1>7. ASSUME NEW d \in Dep, Finish(d) \/ ComeBack(d) PROVE FALSE
  BY <1>1, <1>7 DEF Finish, ComeBack
<1>8. CASE Restart
  BY <1>8, RestartEnds
<1>9. CASE UNCHANGED vars
  BY <1>1, <1>9 DEF vars
<1> QED
  BY <1>2, <1>3, <1>4, <1>5, <1>6, <1>7, <1>8, <1>9, <1>10
     DEF Next, SignInStep, CatalogStep

\* "one wins, the losers look again" (upsert_user): for any number of first
\* requests of any number of people, a sign-in fails only in a race for a team that is
\* made in it, the victim of a deadlock included.
THEOREM SignInsSucceed == Spec => FirstSignInsSucceed
<1>1. IInv /\ [Next]_vars =>
        (\A s \in Call :
           Running(s) /\ job[s].op.kind = "sign in" /\ job'[s].at = "failed" => TeamRace(s))
  BY StepFails
<1> QED
  BY <1>1, Invariance, PTL DEF Spec, FirstSignInsSucceed
=============================================================================
