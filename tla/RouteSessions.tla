---------------------------- MODULE RouteSessions ----------------------------
(***************************************************************************)
(* The route questionnaire: RouteEngine.evaluate (packages/domain,         *)
(* route-engine.ts), RouteFlowService (packages/parity-flows) and          *)
(* PostgresRouteSessionRepository (packages/parity-persistence).           *)
(*                                                                         *)
(* A session is one row with the answers chosen so far and the result of   *)
(* evaluating them.  An answer reads the row, is checked against the       *)
(* question stored in it, and writes the whole row back: clients that hold *)
(* the same session (two tabs, a double click) overwrite one another.      *)
(***************************************************************************)
EXTENDS Integers, FiniteSets, SequencesExt

CONSTANTS Questions,        \* the questions, by `sort': [answers, published]
          Needs,            \* Needs[a]: the answers of which one must be given before a
          PublishedAnswers,
          Routes,           \* [requires, published]
          Session, Client,
          MaxFaults         \* bound: failures of a statement

VARIABLES sessions,  \* route_sessions
          client,    \* the request of each client: [at, session, row]
          faults

vars == <<sessions, client, faults>>

Idle  == [at |-> "idle"]
NoRow == [status |-> "none"]

----------------------------------------------------------------------------
(* RouteEngine.evaluate.                                                   *)

Eligible(a, selected) == Needs[a] = {} \/ Needs[a] \cap selected # {}

HasSelection(q, selected) == Questions[q].answers \cap selected # {}

EveryQuestion(selected) ==                                      \* mutant of Unanswered
  {q \in DOMAIN Questions : Questions[q].published
     /\ \E a \in Questions[q].answers : Eligible(a, selected) /\ a \notin selected}

\* The published questions that are not answered and have an answer that
\* may be given, published or not.
Unanswered(selected) ==
  {q \in DOMAIN Questions : Questions[q].published /\ ~HasSelection(q, selected)
     /\ \E a \in Questions[q].answers : Eligible(a, selected)}

Offered(q, selected) ==
  {a \in Questions[q].answers \cap PublishedAnswers : Eligible(a, selected)}

Matched(selected) ==
  {r \in Routes : r.published /\ r.requires # {} /\ r.requires \subseteq selected}

\* The most specific routes first; the answers a route does not require are
\* fewer exactly when it is more specific, and the title decides the rest.
Best(selected) ==
  {r \in Matched(selected) :
     \A s \in Matched(selected) : Cardinality(s.requires) <= Cardinality(r.requires)}

Evaluate(selected) ==
  LET open == Unanswered(selected)
  IN  [completed |-> open = {},
       offered   |-> IF open = {} THEN {} ELSE Offered(Min(open), selected),
       best      |-> Best(selected)]

Row(path) == LET result == Evaluate(ToSet(path))
             IN  [path |-> path, result |-> result,
                  status |-> IF result.completed THEN "completed" ELSE "active"]

----------------------------------------------------------------------------
(* RouteFlowService.                                                       *)

Init ==
  /\ sessions = [s \in Session |-> NoRow]
  /\ client = [c \in Client |-> Idle]
  /\ faults = 0

\* start: nothing is selected; the session gets a new id.
Start(c, s) ==
  /\ client[c] = Idle
  /\ sessions[s] = NoRow /\ \A d \in Client : client[d] # Idle => client[d].session # s
  /\ client' = [client EXCEPT ![c] = [at |-> "save", session |-> s, row |-> Row(<<>>)]]
  /\ UNCHANGED <<sessions, faults>>

\* answer: findById, then the answer must be one of the stored next question.
Answer(c, s, a) ==
  /\ client[c] = Idle
  /\ sessions[s] # NoRow /\ a \in sessions[s].result.offered
  /\ client' = [client EXCEPT ![c] =
       [at |-> "save", session |-> s, row |-> Row(Append(sessions[s].path, a))]]
  /\ UNCHANGED <<sessions, faults>>

\* save: INSERT .. ON CONFLICT (id) DO UPDATE.
Save(c) ==
  /\ client[c].at = "save"
  /\ sessions' = [sessions EXCEPT ![client[c].session] = client[c].row]
  /\ client' = [client EXCEPT ![c] = Idle]
  /\ UNCHANGED faults

SaveFails(c) ==
  /\ client[c].at = "save" /\ faults < MaxFaults
  /\ faults' = faults + 1
  /\ client' = [client EXCEPT ![c] = Idle]
  /\ UNCHANGED sessions

Next == \E c \in Client :
          \/ \E s \in Session : \/ Start(c, s)
                                \/ \E a \in DOMAIN Needs : Answer(c, s, a)
          \/ Save(c) \/ SaveFails(c)

Spec == Init /\ [][Next]_vars

----------------------------------------------------------------------------

TypeOK ==
  /\ \A s \in Session : sessions[s] # NoRow =>
       /\ sessions[s].path \in Seq(DOMAIN Needs)
       /\ sessions[s].status \in {"active", "completed"}
  /\ \A c \in Client : client[c].at \in {"idle", "save"}

(***************************************************************************)
(* Whoever else answers in the session, and whichever write is the last,   *)
(* the stored path is one a single client could have taken: it answers no  *)
(* question twice, every answer on it was allowed by an earlier one, the   *)
(* candidate can go on while the session is active, and a completed        *)
(* session has left no question that can be asked.                         *)
(***************************************************************************)
PathsFollowTheQuestions ==
  \A s \in Session : sessions[s] # NoRow =>
    LET path == sessions[s].path
    IN  /\ \A q \in DOMAIN Questions : \A i, j \in DOMAIN path :
             path[i] \in Questions[q].answers /\ path[j] \in Questions[q].answers => i = j
        /\ \A i \in DOMAIN path : path[i] \in PublishedAnswers /\
             (Needs[path[i]] = {} \/ \E j \in 1..(i - 1) : path[j] \in Needs[path[i]])
        /\ sessions[s].status = "active" => sessions[s].result.offered # {}
        /\ sessions[s].status = "completed" =>
             \A q \in DOMAIN Questions :
               \/ ToSet(path) \cap Questions[q].answers # {}
               \/ ~Questions[q].published
               \/ \A a \in Questions[q].answers :
                    Needs[a] # {} /\ Needs[a] \cap ToSet(path) = {}
===============================================================================
