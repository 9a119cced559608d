------------------------------- MODULE Coaching -------------------------------
(***************************************************************************)
(* packages/chat, packages/chat-persistence and the chat routes of         *)
(* apps/api/src/server.ts: the turns of one candidate with the coaches,    *)
(* and the phase transitions that the personal coach proposes and the      *)
(* candidate accepts or rejects.                                           *)
(*                                                                         *)
(* A turn reads the profile once and works from what it read; accepting a  *)
(* transition writes the mutation, the profile and the journey in three    *)
(* statements.  Turns and confirmations run side by side and a statement   *)
(* may fail, at most MaxFaults times.  All turns are in one conversation.  *)
(* At most MaxOpen turns are under way, the preference changes at most     *)
(* MaxSwitches times.  The graph context, the prompt and the draft are     *)
(* read-only: see Answering.                                               *)
(***************************************************************************)
EXTENDS PhaseRules

CONSTANTS Turn,          \* chat requests of the candidate
          PersonalTurn,  \* those for the personal coach
          Client,        \* clients of the candidate that confirm
          Scope,         \* scopes of a preference, most specific first
          Facts,         \* what is known of the candidate besides the phases
          DefaultPhase, DefaultSystem, NoSystem,
          MaxOpen, MaxSwitches, MaxFaults

Mutation == PersonalTurn   \* a turn proposes at most one

VARIABLES profile,     \* profiles.current_phase_key
          journey,     \* the row of journey_states, NoPhase before the first
          preference,  \* phase_system_preferences
          conversation, messages, evaluations, snapshots,
          turn,        \* [at, read, phase] of each request
          mutations,   \* pending_mutations
          client,      \* [at, mutation, decision] of each confirmation
          switches, faults,
          disturbed    \* history: the journey may lag behind the profile

vars == <<profile, journey, preference, conversation, messages, evaluations,
          snapshots, turn, mutations, client, switches, faults, disturbed>>
stored == <<profile, journey, preference, conversation, messages, evaluations, snapshots>>

NoMutation == [status |-> "none"]
Idle       == [at |-> "idle"]
NoJourney  == [system |-> NoSystem, current |-> NoPhase, completed |-> <<>>]

CurrentPhase == IF profile = NoPhase THEN DefaultPhase ELSE profile

Init ==
  /\ profile = NoPhase /\ journey = NoJourney
  /\ preference = [s \in ToSet(Scope) |-> NoSystem]
  /\ conversation = FALSE /\ messages = {} /\ evaluations = {} /\ snapshots = {}
  /\ turn = [t \in Turn |-> Idle]
  /\ mutations = [m \in Mutation |-> NoMutation]
  /\ client = [c \in Client |-> Idle]
  /\ switches = 0 /\ faults = 0 /\ disturbed = FALSE

----------------------------------------------------------------------------
(* The preference for a phase system.                                      *)

SavePreference(s, sys) ==
  /\ switches < MaxSwitches /\ preference[s] # sys
  /\ preference' = [preference EXCEPT ![s] = sys]
  /\ switches' = switches + 1
  /\ UNCHANGED <<profile, journey, conversation, messages, evaluations,
                 snapshots, turn, mutations, client, faults, disturbed>>

\* PhaseSystemPreferenceResolver.resolve; a disabled preference is NoSystem.
ResolvedSystem ==
  LET set == {i \in DOMAIN Scope : preference[Scope[i]] # NoSystem}
  IN  IF set = {} THEN DefaultSystem ELSE preference[Scope[Min(set)]]

----------------------------------------------------------------------------
(* A turn.                                                                 *)

Open(t) == turn[t].at \notin {"idle", "answered", "failed"}
Goto(t, at) == turn' = [turn EXCEPT ![t].at = at]

\* PostgresChatContextProvider.getContext.
Context == [phase |-> CurrentPhase,
            facts |-> Facts \cup {<<"phase_completed", p>> : p \in ToSet(journey.completed)}]

\* The request comes in; the personal coach reads the context first.
TurnStarts(t) ==
  /\ turn[t] = Idle /\ Cardinality({u \in Turn : Open(u)}) < MaxOpen
  /\ turn' = [turn EXCEPT ![t] = [at |-> "conversation", read |-> Context, phase |-> NoPhase]]
  /\ UNCHANGED <<stored, mutations, client, switches, faults, disturbed>>

\* ChatPersistence.ensureConversation looks the conversation up ...
FindConversation(t) ==
  /\ turn[t].at = "conversation"
  /\ Goto(t, IF conversation THEN "question" ELSE "create")
  /\ UNCHANGED <<stored, mutations, client, switches, faults, disturbed>>

\* ... and inserts it, which fails when another turn was first.
CreateConversation(t) ==
  /\ turn[t].at = "create"
  /\ conversation' = TRUE
  /\ Goto(t, IF conversation THEN "failed" ELSE "question")
  /\ UNCHANGED <<profile, journey, preference, messages, evaluations, snapshots,
                 mutations, client, switches, faults, disturbed>>

\* The question is stored; the general coach has no phase to evaluate.
AppendQuestion(t) ==
  /\ turn[t].at = "question"
  /\ messages' = messages \cup {<<t, "user">>}
  /\ Goto(t, IF t \in PersonalTurn THEN "evaluate" ELSE "answer")
  /\ UNCHANGED <<profile, journey, preference, conversation, evaluations, snapshots,
                 mutations, client, switches, faults, disturbed>>

\* AdaptivePhaseDetector.evaluate, with the preference as it is now and the
\* profile as it was read: an unknown phase fails the turn.
Evaluate(t) ==
  /\ turn[t].at = "evaluate"
  /\ LET sys == ResolvedSystem
         r   == turn[t].read
     IN  IF r.phase \in Codes(sys)
         THEN turn' = [turn EXCEPT ![t].at = "save",
                                   ![t].phase = EvaluatePhase(sys, r.phase, r.facts)]
         ELSE Goto(t, "failed")
  /\ UNCHANGED <<stored, mutations, client, switches, faults, disturbed>>

\* savePhaseEvaluation, then saveDetectorSnapshot.
SaveEvaluation(t) ==
  /\ turn[t].at = "save"
  /\ LET p == turn[t].phase
     IN  evaluations' = evaluations \cup
           {<<t, p, DetectPhase(DetectorPhase(p.system, p.current), turn[t].read.facts)>>}
  /\ Goto(t, "snapshot")
  /\ UNCHANGED <<profile, journey, preference, conversation, messages, snapshots,
                 mutations, client, switches, faults, disturbed>>

SaveSnapshot(t) ==
  /\ turn[t].at = "snapshot"
  /\ snapshots' = snapshots \cup {<<t, turn[t].read, turn[t].phase>>}
  /\ Goto(t, "answer")
  /\ UNCHANGED <<profile, journey, preference, conversation, messages, evaluations,
                 mutations, client, switches, faults, disturbed>>

AppendAnswer(t) ==
  /\ turn[t].at = "answer"
  /\ messages' = messages \cup {<<t, "assistant">>}
  /\ Goto(t, "register")
  /\ UNCHANGED <<profile, journey, preference, conversation, evaluations, snapshots,
                 mutations, client, switches, faults, disturbed>>

\* buildMutations and registerMutations: one pending transition, if allowed.
RegisterMutations(t) ==
  /\ turn[t].at = "register"
  /\ IF t \in PersonalTurn /\ turn[t].phase.allowed
     THEN mutations' = [mutations EXCEPT ![t] =
            [status |-> "pending", system |-> turn[t].phase.system,
             from |-> turn[t].phase.current, to |-> turn[t].phase.proposed]]
     ELSE UNCHANGED mutations
  /\ Goto(t, "answered")
  /\ UNCHANGED <<stored, client, switches, faults, disturbed>>

\* A statement of the turn fails: the request answers 500.
TurnFails(t) ==
  /\ Open(t) /\ faults < MaxFaults
  /\ faults' = faults + 1
  /\ Goto(t, "failed")
  /\ UNCHANGED <<stored, mutations, client, switches, disturbed>>

----------------------------------------------------------------------------
(* A confirmation: MutationApplicationService.resolve.                     *)

Confirm(c, m, decision) ==
  /\ client[c] = Idle /\ mutations[m] # NoMutation
  /\ client' = [client EXCEPT ![c] = [at |-> "resolve", mutation |-> m, decision |-> decision]]
  /\ UNCHANGED <<stored, turn, mutations, switches, faults, disturbed>>

\* PostgresPendingMutationStore.resolve: only a pending mutation is resolved.
Resolve(c) ==
  /\ client[c].at = "resolve"
  /\ LET m == client[c].mutation
     IN  IF mutations[m].status = "pending"
         THEN /\ mutations' = [mutations EXCEPT ![m].status = client[c].decision]
              /\ client' = IF client[c].decision = "accepted"
                           THEN [client EXCEPT ![c].at = "profile"]
                           ELSE [client EXCEPT ![c] = Idle]
         ELSE UNCHANGED mutations /\ client' = [client EXCEPT ![c] = Idle]
  /\ UNCHANGED <<stored, turn, switches, faults, disturbed>>

Accepted(c) == mutations[client[c].mutation]

\* applyPhaseTransition, first the profile: a compare-and-set on its phase.
Unchecked(m)   == TRUE                                        \* mutant of PhaseIsFrom
PhaseIsFrom(m) == profile \in {NoPhase, m.from}

ApplyToProfile(c) ==
  /\ client[c].at = "profile"
  /\ LET m == Accepted(c)
     IN  IF PhaseIsFrom(m)
         THEN /\ profile' = m.to
              /\ client' = [client EXCEPT ![c].at = "journey"]
              /\ disturbed' = (disturbed \/ \E d \in Client : client[d].at = "journey")
         ELSE /\ client' = [client EXCEPT ![c] = Idle]
              /\ UNCHANGED <<profile, disturbed>>
  /\ UNCHANGED <<journey, preference, conversation, messages, evaluations, snapshots,
                 turn, mutations, switches, faults>>

\* ... then the journey, whatever it says by now.
AddCompleted(m) ==                                            \* mutant of JourneyRow
  [journey EXCEPT !.system = m.system, !.completed = Append(@, m.from)]
JourneyRow(m) ==
  [system |-> m.system, current |-> m.to, completed |-> Append(journey.completed, m.from)]

ApplyToJourney(c) ==
  /\ client[c].at = "journey"
  /\ journey' = JourneyRow(Accepted(c))
  /\ client' = [client EXCEPT ![c] = Idle]
  /\ UNCHANGED <<profile, preference, conversation, messages, evaluations, snapshots,
                 turn, mutations, switches, faults, disturbed>>

\* A statement of the confirmation fails, or the process stops before it.
ConfirmFails(c) ==
  /\ client[c] # Idle /\ faults < MaxFaults
  /\ faults' = faults + 1
  /\ client' = [client EXCEPT ![c] = Idle]
  /\ disturbed' = (disturbed \/ client[c].at = "journey")
  /\ UNCHANGED <<stored, turn, mutations, switches>>

TurnStep(t) ==
  \/ TurnStarts(t) \/ FindConversation(t) \/ CreateConversation(t) \/ AppendQuestion(t)
  \/ Evaluate(t) \/ SaveEvaluation(t) \/ SaveSnapshot(t) \/ AppendAnswer(t)
  \/ RegisterMutations(t) \/ TurnFails(t)

ClientStep(c) ==
  \/ \E m \in Mutation, d \in {"accepted", "rejected"} : Confirm(c, m, d)
  \/ Resolve(c) \/ ApplyToProfile(c) \/ ApplyToJourney(c) \/ ConfirmFails(c)

Next ==
  \/ \E s \in ToSet(Scope), sys \in PhaseSystem : SavePreference(s, sys)
  \/ \E t \in Turn : TurnStep(t)
  \/ \E c \in Client : ClientStep(c)

Spec == Init /\ [][Next]_vars

----------------------------------------------------------------------------

Phases == UNION {Codes(sys) : sys \in PhaseSystem}

TypeOK ==
  /\ profile \in Phases \cup {NoPhase}
  /\ journey \in [system : PhaseSystem \cup {NoSystem}, current : Phases \cup {NoPhase},
                  completed : Seq(Phases)]
  /\ \A m \in Mutation : mutations[m].status \in {"none", "pending", "accepted", "rejected"}
  /\ \A c \in Client : client[c].at \in {"idle", "resolve", "profile", "journey"}
  /\ messages \subseteq Turn \X {"user", "assistant"}

(***************************************************************************)
(* A candidate moves from a phase to the phase that follows it, and never  *)
(* back or over one: every turn in a phase leaves another transition to    *)
(* accept, made from a profile that was read before, and one that is       *)
(* accepted when the candidate has moved on is refused by the              *)
(* compare-and-set of applyPhaseTransition.                                *)
(***************************************************************************)
MovesOn ==
  profile' # profile =>
    \E sys \in PhaseSystem :
      /\ CurrentPhase \in Codes(sys)
      /\ profile' = PhaseOf(sys, CurrentPhase).next

NeverMovesBack == [][MovesOn]_vars

(***************************************************************************)
(* When no confirmation is between its two statements, the journey row is  *)
(* at the phase of the profile and has completed exactly the phases the    *)
(* candidate left, in their order; unless a statement failed in between    *)
(* or two transitions were applied at the same time.                       *)
(***************************************************************************)
JourneyFollowsProfile ==
  disturbed \/ (\E c \in Client : client[c].at = "journey") \/
    /\ journey.current = profile
    /\ \A i \in DOMAIN journey.completed :
          PhaseOf(journey.system, journey.completed[i]).next =
            (journey.completed \o <<profile>>)[i + 1]
===============================================================================
