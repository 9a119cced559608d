-------------------------- MODULE CandidateServices --------------------------
(***************************************************************************)
(* The candidate's own services over PostgreSQL (packages/parity-          *)
(* persistence, apps/api/src/parity-flow-routes.ts): the talent test, the  *)
(* education events and the appointments.                                  *)
(*                                                                         *)
(* Each request is a series of separate statements without a transaction,  *)
(* and the requests of several callers interleave: a test result is stored *)
(* before the profile shows it, a refresh writes one event at a time while *)
(* candidates save events, an appointment is stored before its invitation  *)
(* is sent.                                                                *)
(***************************************************************************)
EXTENDS Integers, FiniteSets, SequencesExt

CONSTANTS User, Caller,
          TestQuestions,   \* TestQuestions[q]: the sectors of each option of q
          Sectors,         \* the sectors, in the order ties are broken in
          Event,           \* the events: url, title and start, the fingerprint
          Offers,          \* Offers[i]: the events the i-th source may list
          MaxTests, MaxAppointments, MaxRefreshes, MaxFaults  \* bounds

VARIABLES results,       \* talent_test_results: [user, stamp, primary]
          profile,       \* per user: [result, sector]
          events,        \* scraped_events by fingerprint
          saved,         \* saved_external_events: [user, id, event]
          appointments,  \* how many appointments are stored
          invited,       \* the appointments an invitation was sent for
          call,          \* the request of each caller
          clock,         \* tests and refreshes started, ids given, faults
          contested      \* users with an interrupted or overlapping test

vars == <<results, profile, events, saved, appointments, invited, call, clock, contested>>

Idle    == [at |-> "idle"]
NoEvent == [id |-> 0, fresh |-> FALSE]
Unset   == "unset"

----------------------------------------------------------------------------
(* The score of the talent test.                                           *)

Submissions == {a \in [DOMAIN TestQuestions -> SUBSET Range(Sectors)] :
                  \A q \in DOMAIN TestQuestions : a[q] \in TestQuestions[q]}

Score(answers, sector) == Cardinality({q \in DOMAIN answers : sector \in answers[q]})

PrimarySector(answers) ==
  LET top == {i \in DOMAIN Sectors : \A j \in DOMAIN Sectors :
                Score(answers, Sectors[j]) <= Score(answers, Sectors[i])}
  IN  Sectors[Min(top)]

----------------------------------------------------------------------------
Init ==
  /\ results = {}
  /\ profile = [u \in User |-> [result |-> 0, sector |-> Unset]]
  /\ events = [e \in Event |-> NoEvent]
  /\ saved = {}
  /\ appointments = 0 /\ invited = {}
  /\ call = [k \in Caller |-> Idle]
  /\ clock = [tests |-> 0, refreshes |-> 0, ids |-> 0, faults |-> 0]
  /\ contested = {}

Become(k, next) == call' = [call EXCEPT ![k] = next]

Testing(u) == {k \in Caller : call[k].at \in {"result", "profile"} /\ call[k].user = u}

(* PostgresTalentTestService.submit.                                       *)

\* The scores and the time of completion are settled before anything is
\* stored; an incomplete submission is refused.
SubmitTest(k, u, answers) ==
  /\ call[k] = Idle /\ clock.tests < MaxTests
  /\ clock' = [clock EXCEPT !.tests = @ + 1]
  /\ Become(k, [at |-> "result", user |-> u, stamp |-> clock.tests + 1,
                primary |-> PrimarySector(answers)])
  /\ contested' = IF Testing(u) = {} THEN contested ELSE contested \cup {u}
  /\ UNCHANGED <<results, profile, events, saved, appointments, invited>>

StoreResult(k) ==
  /\ call[k].at = "result"
  /\ results' = results \cup {[user |-> call[k].user, stamp |-> call[k].stamp,
                               primary |-> call[k].primary]}
  /\ Become(k, [call[k] EXCEPT !.at = "profile"])
  /\ UNCHANGED <<profile, events, saved, appointments, invited, clock, contested>>

\* The result replaces the one the profile shows; a sector that was chosen
\* before is kept.
ShowResult(k) ==
  /\ call[k].at = "profile"
  /\ profile' = [profile EXCEPT
       ![call[k].user] = [result |-> call[k].stamp,
                          sector |-> IF @.sector = Unset THEN call[k].primary ELSE @.sector]]
  /\ Become(k, Idle)
  /\ UNCHANGED <<results, events, saved, appointments, invited, clock, contested>>

\* PostgresTalentTestService.findByUserId.
Latest(u) == Max({r.stamp : r \in {x \in results : x.user = u}} \cup {0})

----------------------------------------------------------------------------
(* PostgresEventService.                                                   *)

\* refresh: an unexpired event makes a refresh that is not forced answer from
\* the table.
StartRefresh(k, force) ==
  /\ call[k] = Idle /\ clock.refreshes < MaxRefreshes
  /\ force \/ \A e \in Event : ~events[e].fresh
  /\ clock' = [clock EXCEPT !.refreshes = @ + 1]
  /\ Become(k, [at |-> "scrape", source |-> 1])
  /\ UNCHANGED <<results, profile, events, saved, appointments, invited, contested>>

\* JsonEventScraper.scrape: one request to the source, which lists what it likes.
Scrape(k) ==
  /\ call[k].at = "scrape" /\ call[k].source <= Len(Offers)
  /\ \E listed \in SUBSET Offers[call[k].source] :
       Become(k, [at |-> "upsert", source |-> call[k].source, listed |-> listed])
  /\ UNCHANGED <<results, profile, events, saved, appointments, invited, clock, contested>>

NewId(e) == clock.ids + 1                                       \* mutant of EventId

\* ON CONFLICT (fingerprint): the row keeps its id.
EventId(e) == IF events[e] = NoEvent THEN clock.ids + 1 ELSE events[e].id

StoreEvent(k) ==
  /\ call[k].at = "upsert"
  /\ \E e \in call[k].listed :
       /\ events' = [events EXCEPT ![e] = [id |-> EventId(e), fresh |-> TRUE]]
       /\ clock' = [clock EXCEPT !.ids = IF EventId(e) > @ THEN EventId(e) ELSE @]
       /\ Become(k, [call[k] EXCEPT !.listed = @ \ {e}])
  /\ UNCHANGED <<results, profile, saved, appointments, invited, contested>>

NextSource(k) ==
  /\ \/ call[k].at = "upsert" /\ call[k].listed = {}
        /\ Become(k, [at |-> "scrape", source |-> call[k].source + 1])
     \/ call[k].at = "scrape" /\ call[k].source > Len(Offers) /\ Become(k, Idle)
  /\ UNCHANGED <<results, profile, events, saved, appointments, invited, clock, contested>>

\* Twelve hours after the refresh that stored it.
Expire(e) ==
  /\ events[e].fresh
  /\ events' = [events EXCEPT ![e].fresh = FALSE]
  /\ UNCHANGED <<results, profile, saved, appointments, invited, call, clock, contested>>

\* save: nothing is ever stored in the table `events', so the insert from it
\* takes no row and the scraped event is read, whether it has expired or not.
ReadEvent(k, u, e) ==
  /\ call[k] = Idle /\ events[e] # NoEvent
  /\ Become(k, [at |-> "snapshot", user |-> u, id |-> events[e].id, event |-> e])
  /\ UNCHANGED <<results, profile, events, saved, appointments, invited, clock, contested>>

SaveSnapshot(k) ==
  /\ call[k].at = "snapshot"
  /\ saved' = {s \in saved : ~(s.user = call[k].user /\ s.id = call[k].id)}
              \cup {[user |-> call[k].user, id |-> call[k].id, event |-> call[k].event]}
  /\ Become(k, Idle)
  /\ UNCHANGED <<results, profile, events, appointments, invited, clock, contested>>

Unsave(k, u, id) ==
  /\ call[k] = Idle
  /\ \E s \in saved : s.user = u /\ s.id = id
  /\ saved' = {s \in saved : ~(s.user = u /\ s.id = id)}
  /\ UNCHANGED <<results, profile, events, appointments, invited, call, clock, contested>>

----------------------------------------------------------------------------
(* Appointments: scheduleAppointment, then the invitation; the route        *)
(* answers {sent: false} when sending fails and nobody sends it again.      *)

StoreAppointment(k) ==
  /\ call[k] = Idle /\ appointments < MaxAppointments
  /\ appointments' = appointments + 1
  /\ Become(k, [at |-> "invite", appointment |-> appointments + 1])
  /\ UNCHANGED <<results, profile, events, saved, invited, clock, contested>>

Invite(k) ==
  /\ call[k].at = "invite"
  /\ invited' = invited \cup {call[k].appointment}
  /\ Become(k, Idle)
  /\ UNCHANGED <<results, profile, events, saved, appointments, clock, contested>>

----------------------------------------------------------------------------
\* A statement, a scrape or the provider fails, or the process stops: the
\* request ends where it is and what it has stored stays.
Fail(k) ==
  /\ call[k] # Idle /\ clock.faults < MaxFaults
  /\ clock' = [clock EXCEPT !.faults = @ + 1]
  /\ contested' = IF call[k].at \in {"result", "profile"}
                  THEN contested \cup {call[k].user} ELSE contested
  /\ Become(k, Idle)
  /\ UNCHANGED <<results, profile, events, saved, appointments, invited>>

Next ==
  \/ \E k \in Caller :
       \/ \E u \in User, answers \in Submissions : SubmitTest(k, u, answers)
       \/ StoreResult(k) \/ ShowResult(k)
       \/ \E force \in BOOLEAN : StartRefresh(k, force)
       \/ Scrape(k) \/ StoreEvent(k) \/ NextSource(k)
       \/ \E u \in User, e \in Event : ReadEvent(k, u, e)
       \/ SaveSnapshot(k)
       \/ \E u \in User, s \in saved : Unsave(k, u, s.id)
       \/ StoreAppointment(k) \/ Invite(k)
       \/ Fail(k)
  \/ \E e \in Event : Expire(e)

Spec == Init /\ [][Next]_vars

----------------------------------------------------------------------------
TypeOK ==
  /\ \A r \in results : r.user \in User /\ r.stamp \in 1..MaxTests
                        /\ r.primary \in Range(Sectors)
  /\ \A u \in User : profile[u].result \in 0..MaxTests
                     /\ profile[u].sector \in Range(Sectors) \cup {Unset}
  /\ \A e \in Event : events[e].id \in Nat /\ events[e].fresh \in BOOLEAN
  /\ \A s \in saved : s.user \in User /\ s.event \in Event
  /\ appointments \in 0..MaxAppointments /\ invited \subseteq 1..appointments
  /\ contested \subseteq User

\* A saved event can still be found: its id is the id of the same event in the
\* table, after every refresh, so unsave and the page name one event.  The
\* profile shows a stored test result, the latest one once no test is under
\* way, unless two tests of the user overlapped or one was interrupted.
ShownIsStored ==
  /\ \A s \in saved : events[s.event].id = s.id
  /\ \A u \in User :
       /\ profile[u].result = 0 \/ \E r \in results : r.user = u /\ r.stamp = profile[u].result
       /\ Testing(u) = {} /\ u \notin contested => profile[u].result = Latest(u)
=============================================================================
