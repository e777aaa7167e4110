------------------------------- MODULE Registry -------------------------------
(***************************************************************************)
(* The rows people bring along: users and teams, made at the first sign-in *)
(* (auth.py, api/auth_api.py), and the model catalog, seeded at every start *)
(* and edited by deployers (api/catalog.py, services/catalog.py, bootstrap *)
(* of main.py).                                                            *)
(*                                                                         *)
(* Every handler looks first and writes later, and what it saw may no      *)
(* longer be so.  The database settles it: a row that is written is locked *)
(* until the transaction ends, a second row of one name is refused when    *)
(* the first is committed, a row that others refer to is not deleted, and  *)
(* of requests that wait for one another one is made to fail.              *)
(*                                                                         *)
(* An entry is told by its key; its id, by which rows and requests refer   *)
(* to it, follows it when an operator gives it another key.                *)
(***************************************************************************)
EXTENDS FiniteSets

CONSTANTS
  User, Team, NoTeam,
  Key,        \* keys of the catalog
  SEED,       \* the keys of the seed
  Dep,        \* deployments that may be made, each once
  Call,       \* requests, each made once
  Ops,        \* what a request may be
  Known       \* the users there are at the start, who are deployers

Role == {"viewer", "deployer"}

NoKey == "none"

\* Signing in brings a role and perhaps a team; other calls are made by a user.  An
\* update brings a key as well, which is NoKey when it is the one the entry has.
Op == [kind : {"sign in"}, user : User, role : Role, team : Team \cup {NoTeam}]
      \cup [kind : {"create", "delete", "seed"}, user : User, key : Key]
      \cup [kind : {"update"}, user : User, key : Key, to : Key \cup {NoKey}]
      \cup [kind : {"deploy"}, user : User, key : Key, dep : Dep]

ASSUME RegistryAssumption ==
  /\ NoTeam \notin Team /\ NoKey \notin Key
  /\ SEED \subseteq Key
  /\ Known \subseteq User
  /\ Ops \subseteq Op

VARIABLES
  users,   \* [User -> role and team, or Absent]
  teams,   \* the teams there are
  specs,   \* what a key's entry says: "nothing" when there is none
  deps,    \* a deployment's row: its entry, whether it is active, whether it was
           \* over before
  job      \* what each request is doing

vars == <<users, teams, specs, deps, job>>

Absent == [role |-> "none", team |-> NoTeam]
Unmade == [spec |-> NoKey, made |-> FALSE, active |-> FALSE, back |-> FALSE]

\* A request: where it is, what it is, the rows it has written and holds
\* locked, what it saw, and whether an entry it loaded was deleted.
NotBegun == [at |-> "idle", holds |-> {}]

Entry(k) == specs[k] # "nothing"

-----------------------------------------------------------------------------
Init ==
  /\ users = [u \in User |->
                IF u \in Known THEN [role |-> "deployer", team |-> NoTeam] ELSE Absent]
  /\ teams = {}
  /\ specs = [k \in Key |-> IF k \in SEED THEN "seed" ELSE "nothing"]
  /\ deps = [d \in Dep |-> Unmade]
  /\ job = [s \in Call |-> NotBegun]

Running(s) == job[s].at \notin {"idle", "answered", "failed", "cut off"}

Answer(s) == job' = [job EXCEPT ![s].at = "answered", ![s].holds = {}]

\* Faulty: a request that fails keeps its transaction open.
MutantFail(s) == job' = [job EXCEPT ![s].at = "failed"]

\* The session is closed, which rolls back what was not committed.
Fail(s) == job' = [job EXCEPT ![s].at = "failed", ![s].holds = {}]

\* A row is free when no other transaction has written it.
Free(s, row) == \A t \in Call \ {s} : row \notin job[t].holds

Write(s, row, at) == job' = [job EXCEPT ![s].at = at, ![s].holds = @ \cup {row}]

-----------------------------------------------------------------------------
\* require_deployer and the answers 404 and 409.
Live(k) == {d \in Dep : deps[d].spec = k /\ deps[d].active}

\* Faulty: an entry that is in use is not refused.
MutantRefused(op) ==
  \/ op.kind # "sign in" /\ users[op.user].role # "deployer"
  \/ op.kind = "create" /\ Entry(op.key)
  \/ op.kind \in {"update", "delete", "deploy"} /\ ~ Entry(op.key)

Refused(op) ==
  \/ op.kind # "sign in" /\ users[op.user].role # "deployer"
  \/ op.kind = "create" /\ Entry(op.key)
  \/ op.kind \in {"update", "delete", "deploy"} /\ ~ Entry(op.key)
  \/ op.kind = "delete" /\ Live(op.key) # {}

\* What a handler sees before it writes: the user, the seed's missing keys, the
\* deployments that are to be detached.
Seen(op) ==
  CASE op.kind = "sign in" -> {op.user} \ {u \in User : users[u] = Absent}
    [] op.kind = "seed"    -> {k \in SEED : ~ Entry(k)}
    [] op.kind = "delete"  -> {d \in Dep : deps[d].spec = op.key}
    [] OTHER               -> {}

\* Where a request goes from there.  A sign-in that finds the user's role, and name,
\* as it brings them has no row of the user to write.
Starts(op) ==
  IF Refused(op) THEN {"answered"}
  ELSE IF op.kind # "sign in" THEN {"commit"}
  ELSE {"user"} \cup {at \in {"team"} : users[op.user].role = op.role}

Begin(s) ==
  /\ job[s].at = "idle"
  /\ \E op \in Ops : \E at \in Starts(op) :
       job' = [job EXCEPT ![s] =
                 [at |-> at, op |-> op, holds |-> {}, seen |-> Seen(op), gone |-> FALSE]]
  /\ UNCHANGED <<users, teams, specs, deps>>

-----------------------------------------------------------------------------
\* Faulty: the second insert of a user is an error.
MutantLookAgain(s, u) == Fail(s)

\* "one wins, the losers look again", and write what they find otherwise.
LookAgain(s, u) ==
  \/ Write(s, u, "team")
  \/ users[u].role = job[s].op.role /\ job' = [job EXCEPT ![s].at = "team"]

\* upsert_user inserts or updates the user; an insert waits for another one of
\* the same user.
WriteUser(s) ==
  /\ job[s].at = "user"
  /\ LET u == job[s].op.user IN
     /\ Free(s, u)
     /\ IF u \notin job[s].seen /\ users[u] # Absent THEN LookAgain(s, u)
        ELSE Write(s, u, "team")
  /\ UNCHANGED <<users, teams, specs, deps>>

LookForTeam(s) ==
  /\ job[s].at = "team"
  /\ job' = [job EXCEPT ![s].at =
               IF job[s].op.team \in teams \cup {NoTeam} THEN "commit" ELSE "new team"]
  /\ UNCHANGED <<users, teams, specs, deps>>

\* A new team is inserted; nothing catches the error of the second insert.
WriteTeam(s) ==
  /\ job[s].at = "new team"
  /\ LET t == job[s].op.team IN
     /\ Free(s, t)
     /\ IF t \in teams THEN Fail(s) ELSE Write(s, t, "commit")
  /\ UNCHANGED <<users, teams, specs, deps>>

Committing(s, kind) == job[s].at = "commit" /\ job[s].op.kind = kind

\* A sign-in without a team leaves the user's, and the role is written with the row.
CommitUser(s) ==
  /\ Committing(s, "sign in")
  /\ LET op == job[s].op IN
     /\ op.team \notin {NoTeam, users[op.user].team} => Free(s, op.user)
     /\ users' = [users EXCEPT ![op.user] =
                    [role |-> IF op.user \in job[s].holds THEN op.role ELSE @.role,
                     team |-> IF op.team = NoTeam THEN @.team ELSE op.team]]
     /\ teams' = teams \cup ({op.team} \ {NoTeam})
  /\ Answer(s)
  /\ UNCHANGED <<specs, deps>>

\* The rows a sign-in cannot go on without while another request holds them.
Wanted(s) ==
  CASE job[s].at = "user"         -> {job[s].op.user}
    [] job[s].at = "new team"     -> {job[s].op.team}
    [] Committing(s, "sign in")   -> {job[s].op.user}
    [] OTHER                      -> {}

\* Requests that wait for one another in a ring: the database ends one of them.
Deadlock(s) ==
  /\ \E ring \in SUBSET Call :
       /\ s \in ring
       /\ \A t \in ring : /\ \E u \in ring \ {t} : Wanted(t) \cap job[u].holds # {}
                         /\ \E u \in ring \ {t} : Wanted(u) \cap job[t].holds # {}
  /\ Fail(s)
  /\ UNCHANGED <<users, teams, specs, deps>>

-----------------------------------------------------------------------------
\* create_spec: the key may have been taken since.
CreateSpec(s) ==
  /\ Committing(s, "create")
  /\ LET k == job[s].op.key IN
     IF Entry(k) THEN Fail(s) /\ UNCHANGED specs
     ELSE specs' = [specs EXCEPT ![k] = "operator"] /\ Answer(s)
  /\ UNCHANGED <<users, teams, deps>>

\* Entry k has key n from now on, for those that refer to it.
Rekeyed(t, k, n) ==
  IF Running(t) /\ job[t].op.kind \in {"update", "delete", "deploy"} /\ job[t].op.key = k
  THEN [job[t] EXCEPT !.op.key = n] ELSE job[t]

\* update_spec: the entry may be gone, and the new key, if it brings one, taken.
UpdateSpec(s) ==
  /\ Committing(s, "update")
  /\ LET k == job[s].op.key
         n == IF job[s].op.to = NoKey THEN k ELSE job[s].op.to IN
     IF job[s].gone \/ (n # k /\ Entry(n)) THEN Fail(s) /\ UNCHANGED <<specs, deps>>
     ELSE /\ specs' = [specs EXCEPT ![k] = "nothing", ![n] = "operator"]
          /\ deps' = [d \in Dep |-> IF deps[d].spec = k THEN [deps[d] EXCEPT !.spec = n]
                                   ELSE deps[d]]
          /\ job' = [t \in Call |-> IF t = s THEN [job[s] EXCEPT !.at = "answered"]
                                   ELSE Rekeyed(t, k, n)]
  /\ UNCHANGED <<users, teams>>

\* Faulty: the database does not look at the rows that refer to an entry.
MutantReferredTo(s) == FALSE

\* A deployment that delete_spec did not see refers to its entry by now.
ReferredTo(s) == \E d \in Dep \ job[s].seen : deps[d].spec = job[s].op.key

\* delete_spec detaches the deployments it saw, which were finished, and deletes
\* the entry unless another deployment refers to it by now.
DeleteSpec(s) ==
  /\ Committing(s, "delete")
  /\ LET k == job[s].op.key IN
         IF job[s].gone THEN Answer(s) /\ UNCHANGED <<specs, deps>>
         ELSE IF ReferredTo(s) THEN Fail(s) /\ UNCHANGED <<specs, deps>>
         ELSE /\ specs' = [specs EXCEPT ![k] = "nothing"]
              /\ deps' = [d \in Dep |-> IF d \in job[s].seen THEN [deps[d] EXCEPT !.spec = NoKey]
                                       ELSE deps[d]]
              /\ job' = [t \in Call |->
                           IF t = s THEN [job[s] EXCEPT !.at = "answered"]
                           ELSE IF Running(t) /\ job[t].op.kind \in {"update", "delete", "deploy"}
                                   /\ job[t].op.key = k
                           THEN [job[t] EXCEPT !.gone = TRUE] ELSE job[t]]
  /\ UNCHANGED <<users, teams>>

\* Faulty: the seed is written whether the entry is there or not.
MutantSeeded(missing) == [k \in Key |-> IF k \in SEED THEN "seed" ELSE specs[k]]

Seeded(missing) == [k \in Key |-> IF k \in missing THEN "seed" ELSE specs[k]]

\* reseed: one entry that was added since, and none is.
Reseed(s) ==
  /\ Committing(s, "seed")
  /\ IF \E k \in job[s].seen : Entry(k) THEN Fail(s) /\ UNCHANGED specs
     ELSE specs' = Seeded(job[s].seen) /\ Answer(s)
  /\ UNCHANGED <<users, teams, deps>>

\* A deployment is made from an entry, which may be gone when its row is written.
Deploy(s) ==
  /\ Committing(s, "deploy")
  /\ LET d == job[s].op.dep IN
     IF job[s].gone \/ deps[d].made THEN Fail(s) /\ UNCHANGED deps
     ELSE /\ deps' = [deps EXCEPT ![d] = [spec |-> job[s].op.key, made |-> TRUE,
                                          active |-> TRUE, back |-> FALSE]]
          /\ Answer(s)
  /\ UNCHANGED <<users, teams, specs>>

\* A deployment is stopped or fails.
Finish(d) ==
  /\ deps[d].active
  /\ deps' = [deps EXCEPT ![d].active = FALSE]
  /\ UNCHANGED <<users, teams, specs, job>>

\* A stop that fails makes a failed deployment degraded, and a launch writes its
\* status over a stop's.
ComeBack(d) ==
  /\ deps[d].made /\ ~ deps[d].active /\ ~ deps[d].back
  /\ deps' = [deps EXCEPT ![d].active = TRUE, ![d].back = TRUE]
  /\ UNCHANGED <<users, teams, specs, job>>

\* The control plane restarts, which seeds the catalog before it serves.
Restart ==
  /\ \E s \in Call : Running(s)
  /\ specs' = Seeded({k \in SEED : ~ Entry(k)})
  /\ job' = [s \in Call |-> IF Running(s) THEN [job[s] EXCEPT !.at = "cut off", !.holds = {}]
                            ELSE job[s]]
  /\ UNCHANGED <<users, teams, deps>>

SignInStep(s)  == \/ WriteUser(s) \/ LookForTeam(s) \/ WriteTeam(s) \/ CommitUser(s)
                  \/ Deadlock(s)
CatalogStep(s) == CreateSpec(s) \/ UpdateSpec(s) \/ DeleteSpec(s) \/ Reseed(s) \/ Deploy(s)

Next ==
  \/ \E s \in Call : Begin(s) \/ SignInStep(s) \/ CatalogStep(s)
  \/ \E d \in Dep : Finish(d) \/ ComeBack(d)
  \/ Restart

Spec == Init /\ [][Next]_vars

\* Requests that have begun go on.
FairSpec == Spec /\ \A s \in Call : WF_vars(SignInStep(s) \/ CatalogStep(s))

-----------------------------------------------------------------------------
TypeOK ==
  /\ users \in [User -> {Absent} \cup [role : Role, team : Team \cup {NoTeam}]]
  /\ teams \subseteq Team
  /\ \A u \in User : users[u].team \in teams \cup {NoTeam}
  /\ specs \in [Key -> {"nothing", "seed", "operator"}]
  /\ deps \in [Dep -> [spec : Key \cup {NoKey}, made : BOOLEAN,
                       active : BOOLEAN, back : BOOLEAN]]
  /\ \A d \in Dep : deps[d].spec # NoKey => Entry(deps[d].spec)
  /\ \A s \in Call : job[s].at \in {"idle", "user", "team", "new team", "commit",
                                 "answered", "failed", "cut off"}

\* A team that two sign-ins make at once: another has made it since s looked, or is
\* making it, or s is and somebody else has written the user's row.
TeamRace(s) ==
  LET t == job[s].op.team IN
    \/ job[s].at = "new team" /\ (t \in teams \/ ~ Free(s, t))
    \/ t \in job[s].holds /\ ~ Free(s, job[s].op.user)

\* However many first requests of one person arrive together, none fails for
\* the others ("one wins, the losers look again", upsert_user), and no sign-in
\* fails but in a race for a team that is made in it.
FirstSignInsSucceed ==
  [][\A s \in Call :
       Running(s) /\ job[s].op.kind = "sign in" /\ job'[s].at = "failed" => TeamRace(s)]_vars

\* An active deployment keeps its entry, whatever deletions cross its making and
\* its end ("A running one means this is still in use", delete_spec), unless it
\* was over and came back while an entry was being deleted.  The entry may take
\* another key, which is one that no entry had.
InUseKept ==
  [][\A d \in Dep : deps[d].active /\ ~ deps[d].back /\ deps[d].spec # NoKey =>
       /\ deps'[d].spec = deps[d].spec \/ deps'[d].spec \in {k \in Key : ~ Entry(k)}
       /\ specs'[deps'[d].spec] # "nothing"]_vars

\* No restart and no reseed puts the seed's text in the place of an operator's.
EditsSurvive ==
  [][\A k \in Key : specs[k] = "operator" => specs'[k] # "seed"]_vars

\* Every request is answered or fails: nobody waits for ever for a row that
\* another request has written.
EveryCallEnds == \A s \in Call : Running(s) ~> ~ Running(s)
=============================================================================
