--------------------------- MODULE ConnectorRuntime ---------------------------
(***************************************************************************)
(* packages/knowledge/src/index.ts around a connector's synchronisation:   *)
(* the definition a starting process seeds and schedules, the wrappers     *)
(* that resolve secrets and retry a fetch, the catalogues that normalise   *)
(* what was fetched, and the row that tells how the run went.              *)
(*                                                                         *)
(* Several processes start beside one another and beside the back office,  *)
(* which changes the definition; a process may stop in the middle of a     *)
(* run.  What a run writes into the knowledge base is ConnectorSync, which *)
(* process may run it ConnectorLease.                                      *)
(***************************************************************************)
EXTENDS Integers, FiniteSets, Sequences

CONSTANTS Pod,
          Kind,          \* the catalogue of the connector
          Record,        \* what the source may deliver: the fields that are filled
          UrlSet,        \* the environment names the source's URL
          MaxAttempts,   \* ConnectorRetryPolicy.maxAttempts
          MaxRuns, MaxEdits, MaxCrashes  \* bounds

VARIABLES definition,  \* the row of knowledge_connectors: [made, enabled, scheduled, edited]
          runs,        \* knowledge_connector_runs by start: [status, attempts, cause]
          pod,         \* where the start of each process is, and its timer
          work,        \* the run a process makes: [at, run]
          edits,       \* changes by the back office
          raced,       \* a process seeded a definition made after it had looked
          lost         \* runs whose process stopped or whose end was not saved

vars == <<definition, runs, pod, work, edits, raced, lost>>

NoDefinition == [made |-> FALSE, enabled |-> FALSE, scheduled |-> FALSE, edited |-> FALSE]
Down == [at |-> "down", timer |-> FALSE]
Rest == [at |-> "rest", run |-> 0]

----------------------------------------------------------------------------
(* The catalogues.                                                         *)

TitleFields ==
  CASE Kind = "vacancy" -> {"title", "position"}
    [] Kind \in {"education", "subsidy", "event"} -> {"title", "name"}
    [] OTHER -> {"title", "question"}

BodyFields ==
  CASE Kind = "education" -> {"body", "description", "institution", "level"}
    [] Kind = "subsidy"   -> {"body", "description", "amount", "audience"}
    [] Kind = "event"     -> {"body", "description", "startsAt", "startDate", "location"}
    [] Kind = "vacancy"   -> {"body", "description", "employer", "region"}
    [] OTHER              -> {"body", "answer"}

\* A record without a title or a text is an error of the run.
Normalisable(record) == record \cap TitleFields # {} /\ record \cap BodyFields # {}

----------------------------------------------------------------------------
Init ==
  /\ definition = NoDefinition
  /\ runs = << >>
  /\ pod = [p \in Pod |-> Down] /\ work = [p \in Pod |-> Rest]
  /\ edits = 0 /\ raced = FALSE /\ lost = {}

(* The start of a process: seedDomainConnectorDefinitions, then the         *)
(* scheduler's.                                                             *)

Start(p) ==
  /\ pod[p].at = "down"
  /\ pod' = [pod EXCEPT ![p].at = "look"]
  /\ UNCHANGED <<definition, runs, work, edits, raced, lost>>

Always(d) == TRUE                                               \* mutant of Missing

\* Only a definition that does not exist is seeded.
Missing(d) == ~d.made

Look(p) ==
  /\ pod[p].at = "look"
  /\ pod' = [pod EXCEPT ![p].at = IF Missing(definition) THEN "seed" ELSE "schedule"]
  /\ UNCHANGED <<definition, runs, work, edits, raced, lost>>

\* ON CONFLICT (connector_key) DO UPDATE: what another process seeded, and the
\* back office may have changed since, is overwritten.
Seed(p) ==
  /\ pod[p].at = "seed"
  /\ raced' = (raced \/ \E q \in Pod \ {p} : pod[q].at = "seed")
  /\ definition' = [made |-> TRUE, enabled |-> UrlSet, scheduled |-> TRUE, edited |-> FALSE]
  /\ pod' = [pod EXCEPT ![p].at = "schedule"]
  /\ UNCHANGED <<runs, work, edits, lost>>

\* The timers are those of the definitions as they are now; a later change
\* neither starts nor stops one.
Schedule(p) ==
  /\ pod[p].at = "schedule"
  /\ pod' = [pod EXCEPT ![p] = [at |-> "up", timer |-> definition.enabled /\ definition.scheduled]]
  /\ UNCHANGED <<definition, runs, work, edits, raced, lost>>

\* POST /v1/backoffice/connectors.
Edit(p, enabled, scheduled) ==
  /\ pod[p].at = "up" /\ edits < MaxEdits
  /\ edits' = edits + 1
  /\ definition' = [made |-> TRUE, enabled |-> enabled, scheduled |-> scheduled, edited |-> TRUE]
  /\ UNCHANGED <<runs, pod, work, raced, lost>>

----------------------------------------------------------------------------
(* A run, of the timer or asked for in the back office.                    *)

Finish(p, status, cause) ==
  /\ runs' = [runs EXCEPT ![work[p].run].status = status, ![work[p].run].cause = cause]
  /\ work' = [work EXCEPT ![p] = Rest]

\* The definition is read again: a connector that is off is skipped.
Synchronise(p) ==
  /\ pod[p].at = "up" /\ work[p] = Rest /\ definition.made /\ Len(runs) < MaxRuns
  /\ runs' = Append(runs, [status |-> IF definition.enabled THEN "running" ELSE "skipped",
                           attempts |-> 0, cause |-> "none"])
  /\ work' = [work EXCEPT ![p] = IF definition.enabled
                                 THEN [at |-> "fetch", run |-> Len(runs) + 1] ELSE Rest]
  /\ UNCHANGED <<definition, pod, edits, raced, lost>>

\* SecretResolvingKnowledgeConnector and HttpJsonKnowledgeConnector: a secret
\* that is not set, an answer that is not ok, a payload without records and a
\* timeout all fail the attempt.
Fetched(p) ==
  /\ work[p].at = "fetch"
  /\ runs' = [runs EXCEPT ![work[p].run].attempts = @ + 1]
  /\ work' = [work EXCEPT ![p].at = "normalise"]
  /\ UNCHANGED <<definition, pod, edits, raced, lost>>

\* RetryingKnowledgeConnector.fetch.
AttemptFails(p) ==
  /\ work[p].at = "fetch"
  /\ LET attempt == runs[work[p].run].attempts + 1 IN
       /\ runs' = [runs EXCEPT ![work[p].run].attempts = attempt]
       /\ work' = [work EXCEPT ![p].at = IF attempt < MaxAttempts THEN "fetch" ELSE "give up"]
  /\ UNCHANGED <<definition, pod, edits, raced, lost>>

GiveUp(p) ==
  /\ work[p].at = "give up"
  /\ Finish(p, "failed", "fetch")
  /\ UNCHANGED <<definition, pod, edits, raced, lost>>

\* The first record that cannot be normalised ends the run; those before it
\* were stored.
Normalise(p) ==
  /\ work[p].at = "normalise"
  /\ \E delivered \in SUBSET Record :
       IF \A record \in delivered : Normalisable(record)
       THEN Finish(p, "succeeded", "none") ELSE Finish(p, "failed", "record")
  /\ UNCHANGED <<definition, pod, edits, raced, lost>>

\* The end of the run cannot be saved: synchronize throws.
EndNotSaved(p) ==
  /\ work[p].at \in {"give up", "normalise"} /\ Cardinality(lost) < MaxCrashes
  /\ lost' = lost \cup {work[p].run}
  /\ work' = [work EXCEPT ![p] = Rest]
  /\ UNCHANGED <<definition, runs, pod, edits, raced>>

\* The process stops; its timers go with it and its run stays as it is.
Crash(p) ==
  /\ pod[p].at # "down" /\ Cardinality(lost) < MaxCrashes
  /\ lost' = lost \cup {work[p].run}
  /\ pod' = [pod EXCEPT ![p] = Down]
  /\ work' = [work EXCEPT ![p] = Rest]
  /\ UNCHANGED <<definition, runs, edits, raced>>

Next ==
  \E p \in Pod :
    \/ Start(p) \/ Look(p) \/ Seed(p) \/ Schedule(p)
    \/ \E enabled, scheduled \in BOOLEAN : Edit(p, enabled, scheduled)
    \/ Synchronise(p) \/ Fetched(p) \/ AttemptFails(p) \/ GiveUp(p) \/ Normalise(p)
    \/ EndNotSaved(p) \/ Crash(p)

Spec == Init /\ [][Next]_vars

----------------------------------------------------------------------------
TypeOK ==
  /\ definition \in [made : BOOLEAN, enabled : BOOLEAN, scheduled : BOOLEAN, edited : BOOLEAN]
  /\ \A i \in DOMAIN runs : runs[i].status \in {"running", "skipped", "succeeded", "failed"}
                            /\ runs[i].attempts \in 0..MaxAttempts
  /\ \A p \in Pod : work[p].run \in 0..Len(runs)
  /\ edits \in 0..MaxEdits /\ raced \in BOOLEAN

\* Starting processes leave a definition as the back office made it, unless two
\* of them found none and seeded one over the other; a run blames its source
\* only after every attempt has failed; and a run that still says it is running
\* is being made, or its process stopped or could not save how it ended.
DefinitionsAndRunsKept ==
  /\ edits > 0 /\ ~raced => definition.edited
  /\ \A i \in DOMAIN runs :
       /\ runs[i].cause = "fetch" => runs[i].attempts = MaxAttempts
       /\ runs[i].status = "running" => i \in lost \/ \E p \in Pod : work[p].run = i
=============================================================================
