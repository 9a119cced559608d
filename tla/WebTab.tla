------------------------------- MODULE WebTab -------------------------------
(***************************************************************************)
(* One browser tab of the web client (apps/web/src/main.ts): the session,  *)
(* the view, the data the tab keeps between renderings, and the calls it   *)
(* has in flight.  JavaScript runs one handler at a time; the interleaving *)
(* is in the awaits: an answer arrives when the visitor may already be on  *)
(* another view, signed out, or signed in as someone else.                 *)
(***************************************************************************)
EXTENDS Naturals, BagsExt, Bags

CONSTANTS User,        \* the accounts used in this tab
          Staff,       \* those whose roles open the back office
          MaxCalls,    \* bound: calls in flight at once
          MaxSignIns,  \* bound: sign-ins and page loads
          MaxFaults    \* bound: calls that fail

None == "none"

Views == {"public", "personal", "journey", "profile", "list", "route",
          "talent", "advisor", "backoffice", "account"}
             \* "list" stands for the knowledge, event and vacancy views

Loading == {"journey", "list", "route", "talent", "advisor", "backoffice"}
             \* the views whose containers start as "laden..."

Kinds == {"me", "login", "chat", "profile", "save", "route", "answer",
          "questions", "talent", "journey", "create", "change", "advisor",
          "send", "reload", "list", "relist", "refresh", "backoffice", "edit"}

VARIABLES token,     \* the stored access token, as the user it is for
          user,      \* state.user
          view,      \* state.view
          screen,    \* the view on screen and the user it was rendered for
          content,   \* what its containers show: loading, loaded, failed, or
                     \* "partly": the table of the back office says that loading
                     \* failed, its other containers still say "laden..."
          profile,   \* whose profile state.profile holds
          route,     \* whose session state.routeSession holds
          questions, \* state.talentQuestions has been filled
          busy,      \* state.busy
          calls,     \* the calls in flight: a bag of kinds and callers
          streams,   \* advisor streams that are open
          controller,\* advisorStreamController: none, open or ended
          stranded,  \* creating the journey failed since the last rendering
          signIns, faults

state   == <<profile, route, questions, busy>>
advisor == <<streams, controller>>
bounds  == <<signIns, faults>>
vars    == <<token, user, view, screen, content, state, calls, advisor,
             stranded, bounds>>

Call(kind, who) == [kind |-> kind, user |-> who]

Sent(kind, who) == BagAdd(calls, Call(kind, who))

Answered(kind, who) == BagRemove(calls, Call(kind, who))

Room == BagCardinality(calls) < MaxCalls

Opened(v) == screen.view = v /\ screen.user # None

-----------------------------------------------------------------------------
(* Rendering *)

(* What the binding of a view asks the server for; a signed-out visitor of a
   protected view sees the account form and nothing is loaded, and no binding
   asks for two things.  The profile, the route and the questions are those the
   handler leaves. *)
Loads(v, who) ==
    CASE v = "list" -> {"list"}
      [] v = "backoffice" /\ who \in Staff -> {"backoffice"}
      [] v \in {"journey", "advisor"} /\ who # None -> {v}
      [] v = "profile" /\ who # None /\ profile' = None -> {v}
      [] v = "route" /\ who # None /\ route' = None -> {v}
      [] v = "talent" /\ who # None /\ ~questions' -> {"questions"}
      [] OTHER -> {}

(* Leaving the advisor view aborts the stream the controller is for. *)
Abort == /\ controller' = "none"
         /\ streams' = IF controller = "open" THEN streams - 1 ELSE streams

KeepOrAbort(v) == IF v = "advisor" THEN UNCHANGED advisor ELSE Abort

(* render(): `others` are the calls left in flight. *)
Render(v, who, others) ==
    /\ KeepOrAbort(v)
    /\ screen' = [view |-> v, user |-> who]
    /\ stranded' = FALSE
    /\ content' = IF v \in Loading /\ Loads(v, who) # {} THEN "loading" ELSE "loaded"
    /\ \/ Loads(v, who) = {} /\ calls' = others
       \/ \E k \in Loads(v, who) : calls' = BagAdd(others, Call(k, who))
    /\ BagCardinality(calls') <= MaxCalls

Load(token0) ==
    /\ user' = None /\ view' = "public" /\ content' = "loaded"
    /\ profile' = None /\ route' = None /\ questions' = FALSE /\ busy' = FALSE
    /\ screen' = [view |-> IF token0 = None THEN "public" ELSE None, user |-> None]
    /\ calls' = SetToBag({Call("me", who) : who \in {token0} \ {None}})
    /\ streams' = 0 /\ controller' = "none" /\ stranded' = FALSE

Init ==
    /\ token = None /\ user = None /\ view = "public" /\ content = "loaded"
    /\ profile = None /\ route = None /\ questions = FALSE /\ busy = FALSE
    /\ screen = [view |-> "public", user |-> None]
    /\ calls = SetToBag({})
    /\ streams = 0 /\ controller = "none" /\ stranded = FALSE
    /\ signIns = 0 /\ faults = 0

(* A page load: everything but the stored token starts again, and the first
   rendering waits for restoreSession. *)
Reload ==
    /\ signIns < MaxSignIns /\ signIns' = signIns + 1
    /\ Load(token)
    /\ UNCHANGED <<token, faults>>

(* The click handler of every [data-view] element. *)
Navigate(v) ==
    /\ screen.view # None
    /\ v = "backoffice" => screen.user \in Staff
    /\ view' = v
    /\ UNCHANGED <<token, user, state, bounds>>
    /\ Render(v, user, calls)

-----------------------------------------------------------------------------
(* The session *)

SignIn(who) ==
    /\ screen = [view |-> "account", user |-> None]
    /\ Room /\ signIns < MaxSignIns /\ signIns' = signIns + 1
    /\ calls' = Sent("login", who)
    /\ UNCHANGED <<token, user, view, screen, content, state, advisor,
                   stranded, faults>>

SignedIn(who) ==
    /\ BagIn(Call("login", who), calls)
    /\ token' = who /\ user' = who /\ view' = "profile"
    /\ UNCHANGED <<state, bounds>>
    /\ Render("profile", who, Answered("login", who))

(* clearSession leaves the route session, the talent questions and the
   advisor conversation of the tab. *)
ClearSession == token' = None /\ user' = None /\ profile' = None

Logout ==
    /\ screen.view = "account" /\ screen.user # None
    /\ ClearSession
    /\ view' = "public"
    /\ UNCHANGED <<route, questions, busy, bounds>>
    /\ Render("public", None, calls)

Restored(who) ==
    /\ BagIn(Call("me", who), calls)
    /\ user' = who
    /\ UNCHANGED <<token, view, state, bounds>>
    /\ Render(view, who, Answered("me", who))

-----------------------------------------------------------------------------
(* Calls the visitor starts *)

Start(kind, v) ==
    /\ Room
    /\ Opened(v)
    /\ user # None
    /\ calls' = Sent(kind, user)

(* bindChat: one question at a time over both coaches. *)
Ask ==
    /\ Room /\ ~busy
    /\ screen.view = "public" \/ (screen.view = "personal" /\ user # None)
    /\ busy' = TRUE
    /\ calls' = Sent("chat", IF screen.view = "public" THEN None ELSE user)
    /\ UNCHANGED <<token, user, view, screen, content, profile, route,
                   questions, advisor, stranded, bounds>>

AskSignedOut ==
    /\ screen.view = "personal" /\ user = None /\ ~busy
    /\ view' = "account"
    /\ UNCHANGED <<token, user, state, bounds>>
    /\ Render("account", None, calls)

(* Saving the profile, answering a route question, sending in the test, a
   change to the journey or the back office, a message to the advisor. *)
Submit ==
    /\ \/ Start("save", "profile")
       \/ route # None /\ content = "loaded" /\ Start("answer", "route")
       \/ content = "loaded" /\ Start("talent", "talent")
       \/ content = "loaded" /\ Start("change", "journey")
       \/ Start("send", "advisor") /\ content = "loaded"
       \/ Start("edit", "backoffice") /\ user \in Staff
    /\ UNCHANGED <<token, user, view, screen, content, state, advisor,
                   stranded, bounds>>

(* "Opnieuw beginnen" under a finished route. *)
RestartRoute ==
    /\ route # None /\ content = "loaded"
    /\ Start("route", "route")
    /\ route' = None
    /\ UNCHANGED <<token, user, view, screen, content, profile, questions,
                   busy, advisor, stranded, bounds>>

(* The search forms, and the refresh buttons of the events and dashboards; that
   of the events and of the journey is bound after the first load. *)
Refresh ==
    /\ Room
    /\ \/ screen.view = "list" /\ calls' = Sent("relist", user)
       \/ screen.view = "list" /\ content # "loading" /\ calls' = Sent("refresh", user)
       \/ content # "loading" /\ Start("journey", "journey")
       \/ Start("backoffice", "backoffice") /\ user \in Staff
    /\ UNCHANGED <<token, user, view, screen, content, state, advisor,
                   stranded, bounds>>

-----------------------------------------------------------------------------
(* Answers *)

(* An answer is written into its container, which is on screen if its view
   is; there may be a newer rendering in it, or none. *)
FillWhenLoaded(v, result) ==
    content' = IF Opened(v) /\ result = "loaded" THEN result ELSE content

Fill(v, result) == content' = IF Opened(v) \/ (v = "list" /\ screen.view = v)
                              THEN result ELSE content

Shows(kind) == CASE kind \in {"list", "relist", "refresh"} -> "list"
                 [] kind = "questions" -> "talent"
                 [] kind \in {"answer", "route"} -> "route"
                 [] kind \in {"advisor", "reload"} -> "advisor"
                 [] OTHER -> kind

(* Answers that leave the tab's state alone and only fill a container. *)
Listed(kind, who) ==
    /\ kind \in {"list", "relist", "refresh", "journey", "reload", "backoffice"}
    /\ BagIn(Call(kind, who), calls)
    /\ calls' = Answered(kind, who)
    /\ Fill(Shows(kind), "loaded")
    /\ UNCHANGED <<token, user, view, screen, state, advisor, stranded, bounds>>

ChatAnswered(who) ==
    /\ BagIn(Call("chat", who), calls)
    /\ calls' = Answered("chat", who)
    /\ busy' = FALSE
    /\ UNCHANGED <<token, user, view, screen, content, profile, route,
                   questions, advisor, stranded, bounds>>

(* bindProfile: the profile form is put on screen whatever the view is now. *)
ProfileArrives(who) ==
    /\ BagIn(Call("profile", who), calls)
    /\ calls' = Answered("profile", who)
    /\ profile' = who
    /\ screen' = [view |-> "profile", user |-> user]
    /\ content' = "loaded"
    /\ UNCHANGED <<token, user, view, route, questions, busy, advisor,
                   stranded, bounds>>

ProfileSaved(who) ==
    /\ BagIn(Call("save", who), calls)
    /\ profile' = who
    /\ UNCHANGED <<token, user, view, route, questions, busy, bounds>>
    /\ Render(view, user, Answered("save", who))

RouteArrives(kind, who) ==
    /\ kind \in {"route", "answer"}
    /\ BagIn(Call(kind, who), calls)
    /\ calls' = Answered(kind, who)
    /\ route' = who
    /\ Fill("route", "loaded")
    /\ UNCHANGED <<token, user, view, screen, profile, questions, busy,
                   advisor, stranded, bounds>>

QuestionsArrive(who) ==
    /\ BagIn(Call("questions", who), calls)
    /\ calls' = Answered("questions", who)
    /\ questions' = TRUE
    /\ Fill("talent", "loaded")
    /\ UNCHANGED <<token, user, view, screen, profile, route, busy, advisor,
                   stranded, bounds>>

(* The test's result is shown below the form. *)
TestSaved(who) ==
    /\ BagIn(Call("talent", who), calls)
    /\ calls' = Answered("talent", who)
    /\ UNCHANGED <<token, user, view, screen, content, state, advisor,
                   stranded, bounds>>

(* Changes that load the view again when they are answered, for whoever is
   signed in by then. *)
Reloads == [kind \in {"change", "create", "edit", "send"} |->
              CASE kind \in {"change", "create"} -> "journey"
                [] kind = "edit" -> "backoffice"
                [] kind = "send" -> "reload"]

MayLoad(kind) == user # None /\ (kind = "backoffice" => user \in Staff)

Changed(kind, who) ==
    /\ kind \in DOMAIN Reloads
    /\ BagIn(Call(kind, who), calls)
    /\ calls' = IF MayLoad(Reloads[kind]) \/ kind = "send"
                THEN BagAdd(Answered(kind, who), Call(Reloads[kind], user))
                ELSE Answered(kind, who)
    /\ UNCHANGED <<token, user, view, screen, content, state, advisor,
                   stranded, bounds>>

(* loadJourneyDashboard: a user without a journey gets one, after which the
   dashboard is loaded again. *)
JourneyMissing(who) ==
    /\ BagIn(Call("journey", who), calls)
    /\ calls' = IF user = None THEN Answered("journey", who)
                ELSE BagAdd(Answered("journey", who), Call("create", user))
    /\ UNCHANGED <<token, user, view, screen, content, state, advisor,
                   stranded, bounds>>

(* bindAdvisorChat, after its first load (OpenStream): the stream of an earlier binding
   is closed and a new one opened, whatever the view is now. *)
OpenBesides == controller' = "open" /\ streams' = streams + 1

OpenStream == /\ controller' = "open"
              /\ streams' = IF controller = "open" THEN streams ELSE streams + 1

AdvisorLoaded(who) ==
    /\ BagIn(Call("advisor", who), calls)
    /\ calls' = Answered("advisor", who)
    /\ Fill("advisor", "loaded")
    /\ OpenStream
    /\ UNCHANGED <<token, user, view, screen, state, stranded, bounds>>

(* The server or the network ends the stream; the client does not reopen it. *)
StreamEnds ==
    /\ controller = "open"
    /\ controller' = "ended" /\ streams' = streams - 1
    /\ UNCHANGED <<token, user, view, screen, content, state, calls,
                   stranded, bounds>>

-----------------------------------------------------------------------------
(* Calls that fail *)

Fault == faults < MaxFaults /\ faults' = faults + 1 /\ signIns' = signIns

(* The answer is an error shown in the view's own container: the lists (a
   second attempt is made first), journey, route, questions.  The advisor's
   conversation is rendered with what is known and streamed. *)
LoadFails(kind, who) ==
    /\ kind \in {"list", "journey", "route", "questions", "advisor"}
    /\ BagIn(Call(kind, who), calls)
    /\ Fault
    /\ calls' = IF kind = "list" THEN BagAdd(Answered(kind, who), Call("relist", who))
                ELSE Answered(kind, who)
    /\ IF kind = "advisor"
       THEN Fill("advisor", "loaded") /\ OpenStream
       ELSE /\ IF kind = "list" THEN content' = content
               ELSE Fill(Shows(kind), "failed")
            /\ UNCHANGED advisor
    /\ UNCHANGED <<token, user, view, screen, state, stranded>>

(* loadBackoffice fails as a whole when one of its calls does, and then writes
   into the candidate table alone: alerts, executions, runs, connectors,
   providers, dead letters and prompts stay as they were. *)
BackofficeFails(who) ==
    /\ BagIn(Call("backoffice", who), calls)
    /\ Fault
    /\ calls' = Answered("backoffice", who)
    /\ content' = IF Opened("backoffice") /\ content = "loading" THEN "partly" ELSE content
    /\ UNCHANGED <<token, user, view, screen, state, advisor, stranded>>

(* The second attempt of a list, or a search, says the list is unavailable. *)
RelistFails(who) ==
    /\ BagIn(Call("relist", who), calls)
    /\ Fault
    /\ calls' = Answered("relist", who)
    /\ Fill("list", "failed")
    /\ UNCHANGED <<token, user, view, screen, state, advisor, stranded>>

(* A failed sign-in, saved profile or test renders the current view again. *)
SubmitFails(kind, who) ==
    /\ kind \in {"login", "save", "talent"}
    /\ BagIn(Call(kind, who), calls)
    /\ Fault
    /\ UNCHANGED <<token, user, view, state>>
    /\ Render(view, user, Answered(kind, who))

(* No handler: the error is lost and the screen stays as it was. *)
Unheard(kind, who) ==
    /\ kind \in {"answer", "change", "send", "edit", "profile", "create", "refresh"}
    /\ BagIn(Call(kind, who), calls)
    /\ Fault
    /\ calls' = Answered(kind, who)
    /\ stranded' = (stranded \/ kind = "create")
    /\ UNCHANGED <<token, user, view, screen, content, state, advisor>>

ChatFails(who) ==
    /\ BagIn(Call("chat", who), calls)
    /\ Fault
    /\ calls' = Answered("chat", who)
    /\ busy' = FALSE
    /\ UNCHANGED <<token, user, view, screen, content, profile, route,
                   questions, advisor, stranded>>

(* restoreSession forgets the session on any error, then renders. *)
RestoreFails(who) ==
    /\ BagIn(Call("me", who), calls)
    /\ Fault
    /\ ClearSession
    /\ UNCHANGED <<view, route, questions, busy>>
    /\ Render(view, None, Answered("me", who))

-----------------------------------------------------------------------------
Answer(who) ==
    \/ \E kind \in Kinds : Listed(kind, who) \/ Changed(kind, who) \/ RouteArrives(kind, who)
    \/ ChatAnswered(who) \/ ProfileArrives(who) \/ ProfileSaved(who)
    \/ QuestionsArrive(who) \/ TestSaved(who) \/ JourneyMissing(who)
    \/ AdvisorLoaded(who)

Failing(who) ==
    \/ \E kind \in Kinds : LoadFails(kind, who) \/ SubmitFails(kind, who) \/ Unheard(kind, who)
    \/ BackofficeFails(who) \/ RelistFails(who) \/ ChatFails(who)

Next ==
    \/ Reload \/ Logout \/ Ask \/ AskSignedOut \/ Submit \/ RestartRoute
    \/ Refresh \/ StreamEnds
    \/ \E v \in Views : Navigate(v)
    \/ \E who \in User : SignIn(who) \/ SignedIn(who) \/ Restored(who) \/ RestoreFails(who)
    \/ \E who \in User \cup {None} : Answer(who) \/ Failing(who)

Spec == Init /\ [][Next]_vars

-----------------------------------------------------------------------------
TypeOK ==
    /\ {token, user, profile, route} \subseteq User \cup {None}
    /\ view \in Views
    /\ screen \in [view : Views \cup {None}, user : User \cup {None}]
    /\ content \in {"loading", "loaded", "failed", "partly"}
    /\ {questions, busy, stranded} \subseteq BOOLEAN
    /\ IsABag(calls) /\ BagToSet(calls) \subseteq [kind : Kinds, user : User \cup {None}]
    /\ streams \in Nat /\ controller \in {"none", "open", "ended"}

(* However often the advisor view is left and entered while its first load
   is under way, the tab never listens to two streams, and it holds the
   controller of the one it listens to, so that leaving the view ends it
   (bindAdvisorChat and render in main.ts). *)
OneStream == streams = IF controller = "open" THEN 1 ELSE 0

(* When nothing is in flight every view has been filled or says what failed,
   but for two that the code leaves saying that they are loading: the
   dashboard of a user whose journey could not be created, whose error nobody
   catches, and the back office after a load that failed, of which only the
   candidate table is told.  Whatever was left, entered, signed out of or
   refused while the answers were under way, no other view is left so. *)
NothingLeftLoading ==
    DOMAIN calls = {} =>
        \/ content \in {"loaded", "failed"}
        \/ content = "loading" /\ screen.view = "journey" /\ stranded
        \/ content = "partly" /\ screen.view = "backoffice"
=============================================================================
