-------------------------------- MODULE Prompts --------------------------------
(***************************************************************************)
(* Prompt management: PostgresPromptRepository and                         *)
(* RepositoryActivePromptProvider (packages/backoffice), for one           *)
(* configuration.                                                          *)
(*                                                                         *)
(* A creation and an activation send BEGIN, two writes and COMMIT as four  *)
(* separate queries, and each query takes whichever connection of the pool *)
(* is free (PgSqlExecutor.query): the statements between BEGIN and COMMIT  *)
(* may run on other connections, and those of another administrator inside *)
(* the transaction.  The coach reads the configuration and its versions in *)
(* two queries of its own.                                                 *)
(***************************************************************************)
EXTENDS Integers, FiniteSets, FiniteSetsExt

CONSTANTS Admin, Coach, Conn,
          MaxVersions, MaxFaults  \* bounds

VARIABLES stored,   \* what is committed: [active, status], status by version
          tx,       \* the transaction open on each connection
          admin,    \* the request of each administrator: [at, op, version, began]
          coach,    \* the read of each coach: [at, active, served]
          chosen,   \* versions an administrator created active or asked to activate
          answered, \* some creation or activation was answered with the configuration
          strayed,  \* a transaction lost a statement or took in a foreign one
          faults

vars == <<stored, tx, admin, coach, chosen, answered, strayed, faults>>

Closed  == [open |-> FALSE]
Opened  == [open |-> TRUE, ok |-> TRUE, active |-> 0, status |-> << >>]
Idle    == [at |-> "idle"]
Nothing == [at |-> "idle", active |-> 0, served |-> 0]

\* A table of statuses with the rows of `written' over those of `status'.
Over(written, status) ==
  [v \in DOMAIN written \cup DOMAIN status |->
     IF v \in DOMAIN written THEN written[v] ELSE status[v]]

\* What a statement on connection c reads: what is committed and its own writes.
Seen(c) ==
  IF tx[c].open
  THEN [active |-> IF tx[c].active = 0 THEN stored.active ELSE tx[c].active,
        status |-> Over(tx[c].status, stored.status)]
  ELSE stored

Init ==
  /\ stored = [active |-> 0, status |-> << >>]
  /\ tx = [c \in Conn |-> Closed]
  /\ admin = [a \in Admin |-> Idle]
  /\ coach = [k \in Coach |-> Nothing]
  /\ chosen = {} /\ answered = FALSE /\ strayed = FALSE /\ faults = 0

----------------------------------------------------------------------------
(* A statement of administrator a on connection c.                         *)

Become(a, next) == admin' = [admin EXCEPT ![a] = next]

\* A failed statement aborts the transaction it ran in, and so does every
\* later one there until it is rolled back.
Runs(c) == tx[c].open => tx[c].ok

WriteStatus(c, status) ==
  IF tx[c].open
  THEN tx' = [tx EXCEPT ![c].status = Over(status, tx[c].status)] /\ UNCHANGED stored
  ELSE stored' = [stored EXCEPT !.status = Over(status, stored.status)] /\ UNCHANGED tx

WriteActive(c, version) ==
  IF tx[c].open
  THEN tx' = [tx EXCEPT ![c].active = version] /\ UNCHANGED stored
  ELSE stored' = [stored EXCEPT !.active = version] /\ UNCHANGED tx

\* Rows another open transaction wrote are locked.
StatusFree(c) == \A d \in Conn \ {c} : tx[d].open => tx[d].status = << >>
ActiveFree(c) == \A d \in Conn \ {c} : tx[d].open => tx[d].active = 0

Strays(a, c) == strayed' = (strayed \/ admin[a].began # c)

Begun == {a \in Admin : admin[a].at \in {"versions", "config", "commit", "rollback"}}

\* create, and activateVersion once the version was found.
Create(a) ==
  /\ admin[a] = Idle /\ stored.active = 0
  /\ Become(a, [at |-> "begin", op |-> "create", version |-> 1])
  /\ UNCHANGED <<stored, tx, coach, chosen, answered, strayed, faults>>

Activate(a, c, v) ==
  /\ admin[a] = Idle /\ Runs(c) /\ v \in DOMAIN Seen(c).status
  /\ chosen' = chosen \cup {v}
  /\ Become(a, [at |-> "begin", op |-> "activate", version |-> v])
  /\ strayed' = (strayed \/ tx[c].open)
  /\ UNCHANGED <<stored, tx, coach, answered, faults>>

\* BEGIN inside a transaction is a warning.
Begin(a, c) ==
  /\ admin[a].at = "begin" /\ Runs(c)
  /\ tx' = [tx EXCEPT ![c] = IF @.open THEN @ ELSE Opened]
  /\ strayed' = (strayed \/ tx[c].open \/ Begun # {})
  /\ Become(a, [at |-> IF admin[a].op = "create" THEN "config" ELSE "versions",
                op |-> admin[a].op, version |-> admin[a].version, began |-> c])
  /\ UNCHANGED <<stored, coach, chosen, answered, faults>>

NoArchive(status, v) ==                                         \* mutant of Approve
  [w \in DOMAIN status |-> IF w = v THEN "approved" ELSE status[w]]

\* The version asked for is approved and the one that was is archived.
Approve(status, v) ==
  [w \in DOMAIN status |-> IF w = v THEN "approved"
                           ELSE IF status[w] = "approved" THEN "archived" ELSE status[w]]

\* A first version refers to its configuration, which must be there to see.  One
\* that another creation stored meanwhile is not told apart from its own.
Refers(a, c) == admin[a].op = "create" => Seen(c).active # 0

Versions(a, c) ==
  /\ admin[a].at = "versions" /\ Runs(c) /\ StatusFree(c) /\ Refers(a, c)
  /\ IF admin[a].op = "create"
     THEN WriteStatus(c, [v \in {1} |-> "approved"]) /\ chosen' = chosen \cup {1}
     ELSE WriteStatus(c, Approve(Seen(c).status, admin[a].version)) /\ UNCHANGED chosen
  /\ Strays(a, c)
  /\ Become(a, [admin[a] EXCEPT !.at = IF @ = "versions" /\ admin[a].op = "create"
                                       THEN "commit" ELSE "config"])
  /\ UNCHANGED <<coach, answered, faults>>

\* The configuration is unique: a second creation fails.
Config(a, c) ==
  /\ admin[a].at = "config" /\ Runs(c) /\ ActiveFree(c)
  /\ admin[a].op = "create" => Seen(c).active = 0
  /\ WriteActive(c, admin[a].version)
  /\ Strays(a, c)
  /\ Become(a, [admin[a] EXCEPT !.at = IF admin[a].op = "create" THEN "versions" ELSE "commit"])
  /\ UNCHANGED <<coach, chosen, answered, faults>>

\* COMMIT without a transaction is a warning; of an aborted one, a rollback.
Commit(a, c) ==
  /\ admin[a].at = "commit"
  /\ stored' = IF Runs(c) THEN Seen(c) ELSE stored
  /\ tx' = [tx EXCEPT ![c] = Closed]
  /\ Strays(a, c)
  /\ Become(a, [admin[a] EXCEPT !.at = "reread"])
  /\ UNCHANGED <<coach, chosen, answered, faults>>

\* findById: a creation that is not found is answered as failed.
Reread(a, c) ==
  /\ admin[a].at = "reread" /\ Runs(c)
  /\ answered' = (answered \/ Seen(c).active # 0)
  /\ Become(a, Idle)
  /\ UNCHANGED <<stored, tx, coach, chosen, strayed, faults>>

\* A statement after BEGIN failed: by itself, on an aborted connection, by the
\* unique key of a configuration or by the reference of a version to it.
FailStatement(a, c) ==
  /\ admin[a].at \in {"versions", "config", "commit"}
  /\ \/ faults < MaxFaults /\ faults' = faults + 1
     \/ ~Runs(c) /\ admin[a].at # "commit" /\ UNCHANGED faults
     \/ admin[a].at = "config" /\ admin[a].op = "create" /\ Seen(c).active # 0
        /\ UNCHANGED faults
     \/ admin[a].at = "versions" /\ ~Refers(a, c) /\ UNCHANGED faults
  /\ tx' = IF tx[c].open THEN [tx EXCEPT ![c].ok = FALSE] ELSE tx
  /\ Strays(a, c)
  /\ Become(a, [admin[a] EXCEPT !.at = "rollback"])
  /\ UNCHANGED <<stored, coach, chosen, answered>>

Rollback(a, c) ==
  /\ admin[a].at = "rollback"
  /\ tx' = [tx EXCEPT ![c] = Closed]
  /\ Strays(a, c)
  /\ Become(a, Idle)
  /\ UNCHANGED <<stored, coach, chosen, answered, faults>>

\* BEGIN and findById are outside the try block: the request just ends.
RequestFails(a, c) ==
  /\ admin[a].at \in {"begin", "reread"}
  /\ \/ faults < MaxFaults /\ faults' = faults + 1
     \/ ~Runs(c) /\ UNCHANGED faults
  /\ tx' = IF tx[c].open THEN [tx EXCEPT ![c].ok = FALSE] ELSE tx
  /\ strayed' = (strayed \/ tx[c].open)
  /\ Become(a, Idle)
  /\ UNCHANGED <<stored, coach, chosen, answered>>

\* createVersion: one statement, a draft after the last version.
CreateVersion(a, c) ==
  /\ admin[a] = Idle /\ Runs(c) /\ StatusFree(c) /\ Seen(c).active # 0
  /\ LET next == Max({0} \cup DOMAIN Seen(c).status) + 1 IN
       next <= MaxVersions /\ WriteStatus(c, [v \in {next} |-> "draft"])
  /\ strayed' = (strayed \/ tx[c].open)
  /\ UNCHANGED <<admin, coach, chosen, answered, faults>>

----------------------------------------------------------------------------
(* RepositoryActivePromptProvider.getActivePrompt: the configurations, then *)
(* the versions.                                                            *)

ReadConfig(k, c) ==
  /\ coach[k].at = "idle" /\ Runs(c) /\ Seen(c).active # 0
  /\ coach' = [coach EXCEPT ![k] = [at |-> "read", active |-> Seen(c).active, served |-> 0]]
  /\ UNCHANGED <<stored, tx, admin, chosen, answered, strayed, faults>>

ReadVersions(k, c) ==
  /\ coach[k].at = "read" /\ Runs(c)
  /\ LET v == coach[k].active
         served == IF v \in DOMAIN Seen(c).status /\ Seen(c).status[v] = "approved" THEN v ELSE 0
     IN  coach' = [coach EXCEPT ![k] = [at |-> "idle", active |-> 0, served |-> served]]
  /\ UNCHANGED <<stored, tx, admin, chosen, answered, strayed, faults>>

Next ==
  \E c \in Conn :
    \/ \E a \in Admin :
         \/ Create(a) \/ \E v \in 1..MaxVersions : Activate(a, c, v)
         \/ Begin(a, c) \/ Versions(a, c) \/ Config(a, c) \/ Commit(a, c)
         \/ Reread(a, c) \/ FailStatement(a, c) \/ RequestFails(a, c)
         \/ Rollback(a, c) \/ CreateVersion(a, c)
    \/ \E k \in Coach : ReadConfig(k, c) \/ ReadVersions(k, c)

Spec == Init /\ [][Next]_vars

----------------------------------------------------------------------------
TypeOK ==
  /\ stored.active \in 0..MaxVersions /\ DOMAIN stored.status \subseteq 1..MaxVersions
  /\ \A v \in DOMAIN stored.status : stored.status[v] \in {"draft", "approved", "archived"}
  /\ chosen \subseteq 1..MaxVersions /\ answered \in BOOLEAN /\ strayed \in BOOLEAN
  /\ faults \in 0..MaxFaults

Approved == {v \in DOMAIN stored.status : stored.status[v] = "approved"}

\* The coach is only ever given a version an administrator chose, even while
\* activations run and fail; and as long as no transaction lost a statement to
\* another connection or overlapped another one, the committed active version
\* is the only approved one, also after a failure.
OnlyChosenIsServed ==
  /\ \A k \in Coach : coach[k].served \in chosen \cup {0}
  /\ ~strayed /\ stored.active # 0 => Approved = {stored.active}

=============================================================================
