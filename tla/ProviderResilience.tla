------------------------- MODULE ProviderResilience -------------------------
(***************************************************************************)
(* Calls of one outside provider (packages/integrations/src/index.ts): the *)
(* circuit breaker, the fetch client that retries, the dead letters of the *)
(* calls it gave up, and the back office that replays, closes and purges   *)
(* them (apps/api/src/provider-routes.ts).                                 *)
(*                                                                         *)
(* All calls of a process share one breaker and run interleaved at every   *)
(* await.  A call's time limit is set once, before its first attempt, so   *)
(* when it has passed the later attempts fail before they are sent.        *)
(***************************************************************************)
EXTENDS Integers, FiniteSets

CONSTANTS Request,     \* calls, each with the letter it may leave
          Admin,       \* back-office requests that replay a letter
          MaxAttempts, \* PROVIDER_MAX_ATTEMPTS
          Threshold,   \* PROVIDER_FAILURE_THRESHOLD
          MaxCrashes   \* bound: process restarts

ASSUME AttemptsAssumption  == MaxAttempts \in Nat \ {0}
ASSUME ThresholdAssumption == Threshold \in Nat \ {0}
ASSUME CrashesAssumption   == MaxCrashes \in Nat

VARIABLES breaker,     \* [state, failures, cooled]: CircuitBreaker
          call,        \* [at, attempt, expired]: where each call is
          letter,      \* provider_dead_letters: "none", "open", "resolved", "purged"
          replay,      \* [at, of]: the replay of each administrator
          replayed,    \* history: letters whose replay the provider accepted
          closed,      \* history: letters closed by hand
          lost,        \* history: calls whose letter could not be written
          crashes

vars == <<breaker, call, letter, replay, replayed, closed, lost, crashes>>

Fresh == [state |-> "closed", failures |-> 0, cooled |-> FALSE]
Idle  == [at |-> "idle"]

Init == /\ breaker = Fresh
        /\ call = [r \in Request |-> [at |-> "new", attempt |-> 0, expired |-> FALSE]]
        /\ letter = [r \in Request |-> "none"]
        /\ replay = [a \in Admin |-> Idle]
        /\ replayed = {} /\ closed = {} /\ lost = {}
        /\ crashes = 0

Goto(r, at) == call' = [call EXCEPT ![r].at = at]

(* ------------------------------ the breaker ----------------------------- *)

\* getState: an open circuit whose reset time has passed is half open.
Current(b) == IF b.state = "open" /\ b.cooled THEN [b EXCEPT !.state = "half-open"] ELSE b

Success(b) == Fresh

Failure(b) ==
    LET n == b.failures + 1 IN
    IF b.state = "half-open" \/ n >= Threshold
    THEN [state |-> "open", failures |-> n, cooled |-> FALSE]
    ELSE [b EXCEPT !.failures = n]

\* The reset time of an open circuit passes.
Cool == /\ breaker.state = "open" /\ ~breaker.cooled
        /\ breaker' = [breaker EXCEPT !.cooled = TRUE]
        /\ UNCHANGED <<call, letter, replay, replayed, closed, lost, crashes>>

(* ---------------------------- one fetch call ---------------------------- *)

\* beforeRequest is asked once, before the first attempt.
Begin(r) ==
    /\ call[r].at = "new"
    /\ breaker' = Current(breaker)
    /\ Goto(r, IF breaker'.state = "open" THEN "refused" ELSE "send")
    /\ UNCHANGED <<letter, replay, replayed, closed, lost, crashes>>

\* The time limit of the call passes while it is sent or waits to retry.
Expire(r) ==
    /\ call[r].at \in {"send", "wait"} /\ ~call[r].expired
    /\ call' = [call EXCEPT ![r].expired = TRUE]
    /\ UNCHANGED <<breaker, letter, replay, replayed, closed, lost, crashes>>

\* Any answer but 408, 429 and 5xx ends the call: a refusal (4xx) counts as a
\* success of the provider, its adapter then raises.
Answer(r) ==
    /\ call[r].at = "send" /\ ~call[r].expired
    /\ breaker' = Success(breaker)
    /\ \E answer \in {"answered", "rejected"} : Goto(r, answer)
    /\ UNCHANGED <<letter, replay, replayed, closed, lost, crashes>>

Failed(r) ==
    /\ breaker' = Failure(breaker)
    /\ call' = [call EXCEPT ![r].attempt = @ + 1,
                            ![r].at = IF @ = "send" /\ call[r].attempt + 1 < MaxAttempts
                                      THEN "wait" ELSE "append"]

\* A retryable status, a broken connection, or the time limit.
AttemptFails(r) ==
    /\ call[r].at = "send"
    /\ Failed(r)
    /\ UNCHANGED <<letter, replay, replayed, closed, lost, crashes>>

\* The back-off has passed; the breaker is not asked again.
Retry(r) ==
    /\ call[r].at = "wait"
    /\ Goto(r, "send")
    /\ UNCHANGED <<breaker, letter, replay, replayed, closed, lost, crashes>>

\* The letter of a call given up; a failing append replaces its error.
AppendLetter(r) ==
    /\ call[r].at = "append"
    /\ letter' = [letter EXCEPT ![r] = "open"]
    /\ Goto(r, "failed")
    /\ UNCHANGED <<breaker, replay, replayed, closed, lost, crashes>>

AppendFails(r) ==
    /\ call[r].at = "append"
    /\ crashes < MaxCrashes /\ crashes' = crashes + 1
    /\ lost' = lost \cup {r}
    /\ Goto(r, "failed")
    /\ UNCHANGED <<breaker, letter, replay, replayed, closed>>

\* The process restarts: the breaker is new, running calls and replays end.
Running == {"send", "wait", "append"}
Crash ==
    /\ crashes < MaxCrashes /\ crashes' = crashes + 1
    /\ breaker' = Fresh
    /\ lost' = lost \cup {r \in Request : call[r].at \in Running}
    /\ call' = [r \in Request |-> IF call[r].at \in Running
                                  THEN [call[r] EXCEPT !.at = "failed"] ELSE call[r]]
    /\ replay' = [a \in Admin |-> Idle]
    /\ UNCHANGED <<letter, replayed, closed>>

(* ---------------------------- the dead letters -------------------------- *)

Exists(r) == letter[r] \in {"open", "resolved"}

\* DeadLetterRetryService.retry: find, check that it is open, send, resolve.
FindLetter(a, r) ==
    /\ replay[a] = Idle
    /\ letter[r] = "open"
    /\ replay' = [replay EXCEPT ![a] = [at |-> "send", of |-> r]]
    /\ UNCHANGED <<breaker, call, letter, replayed, closed, lost, crashes>>

\* Replays are sent by a plain client: no retry, no breaker.
SendLetter(a) ==
    /\ replay[a].at = "send"
    /\ replay' = [replay EXCEPT ![a].at = "resolve"]
    /\ replayed' = replayed \cup {replay[a].of}
    /\ UNCHANGED <<breaker, call, letter, closed, lost, crashes>>

ReplayFails(a) ==
    /\ replay[a].at \in {"send", "resolve"}
    /\ replay' = [replay EXCEPT ![a] = Idle]
    /\ UNCHANGED <<breaker, call, letter, replayed, closed, lost, crashes>>

\* UPDATE .. SET resolved_at = COALESCE(resolved_at, now) WHERE id: no row
\* when the letter was purged in the meantime.
Resolved(r) == IF Exists(r) THEN [letter EXCEPT ![r] = "resolved"] ELSE letter

ResolveReplayed(a) ==
    /\ replay[a].at = "resolve"
    /\ letter' = Resolved(replay[a].of)
    /\ replay' = [replay EXCEPT ![a] = Idle]
    /\ UNCHANGED <<breaker, call, replayed, closed, lost, crashes>>

\* POST .../resolve
ResolveByHand(r) ==
    /\ Exists(r)
    /\ letter' = Resolved(r)
    /\ closed' = closed \cup {r}
    /\ UNCHANGED <<breaker, call, replay, replayed, lost, crashes>>

\* A mutant of Purgeable: old letters go whether they are resolved or not.
PurgeOld == {r \in Request : Exists(r)}

\* purgeResolved: at start, every day, and DELETE .../resolved; the letters
\* resolved before a moment, so any of the resolved ones.
Purgeable == {r \in Request : letter[r] = "resolved"}
Purge ==
    /\ \E old \in SUBSET Purgeable \ {{}} :
         letter' = [r \in Request |-> IF r \in old THEN "purged" ELSE letter[r]]
    /\ UNCHANGED <<breaker, call, replay, replayed, closed, lost, crashes>>

Next == \/ \E r \in Request : \/ Begin(r) \/ Expire(r) \/ Answer(r) \/ AttemptFails(r)
                              \/ Retry(r) \/ AppendLetter(r) \/ AppendFails(r)
                              \/ ResolveByHand(r)
        \/ \E a \in Admin : \/ \E r \in Request : FindLetter(a, r)
                            \/ SendLetter(a) \/ ReplayFails(a) \/ ResolveReplayed(a)
        \/ Cool \/ Crash \/ Purge

Spec == Init /\ [][Next]_vars

(* ------------------------------ properties ------------------------------ *)

\* The breaker, the calls, the letters and the replays have the code's shape.
TypeOK ==
    /\ breaker \in [state : {"closed", "open", "half-open"}, failures : Nat, cooled : BOOLEAN]
    /\ call \in [Request -> [at : {"new", "refused", "send", "wait", "append", "answered",
                                   "rejected", "failed"},
                             attempt : 0 .. MaxAttempts, expired : BOOLEAN]]
    /\ letter \in [Request -> {"none", "open", "resolved", "purged"}]
    /\ replay \in [Admin -> {Idle} \cup [at : {"send", "resolve"}, of : Request]]
    /\ replayed \subseteq Request /\ closed \subseteq Request /\ lost \subseteq Request
    /\ crashes \in 0 .. MaxCrashes

\* The breaker is shared by calls that began before it opened, by retries that
\* never ask it again and by every caller a half-open circuit lets through:
\* still it is closed only while it counts fewer failures than its threshold,
\* and half open only when it was open.
ClosedBelowThreshold ==
    /\ breaker.state = "closed" => breaker.failures < Threshold
    /\ breaker.state # "closed" => breaker.failures > 0

\* No call is given up in silence and no letter goes away unattended: a failed
\* call has its letter (unless the process or the insert failed), only a failed
\* call has one, and a letter leaves the list of open ones only when the
\* provider has accepted its replay or an administrator has closed it,
\* however replays, resolutions and purges cross one another.
LettersAreAccounted ==
    \A r \in Request :
      /\ call[r].at = "failed" => letter[r] # "none" \/ r \in lost
      /\ letter[r] # "none" => call[r].at = "failed"
      /\ letter[r] \in {"resolved", "purged"} => r \in replayed \cup closed
=============================================================================
