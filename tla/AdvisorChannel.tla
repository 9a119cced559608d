---------------------------- MODULE AdvisorChannel ----------------------------
(***************************************************************************)
(* The conversation of a candidate with a human advisor: AdvisorChatService*)
(* (packages/chat), the routes of apps/api/src/server.ts, the PostgreSQL   *)
(* LISTEN/NOTIFY broker (packages/realtime) of one API instance, and the   *)
(* page of the web client that shows it.                                   *)
(*                                                                         *)
(* Each viewer opens the page once and may send one message.  A message is *)
(* stored and then published; the broker connects when it is first used,   *)
(* and its two clients answer asynchronously: `queue' holds the LISTEN and *)
(* UNLISTEN statements under way, `wire' the notifications.                *)
(***************************************************************************)
EXTENDS Integers, FiniteSets, SequencesExt

CONSTANTS Viewer,      \* browser pages, each with the message it may send
          TooLong,     \* viewers whose message is beyond the 8000 bytes of pg_notify
          TwoLines,    \* viewers whose message holds an empty line
          MaxFaults

VARIABLES broker,       \* PostgresRealtimeBroker: "new", "connecting", "started"
          conversation, history,    \* the stored conversation and its messages
          request,      \* where the message of each viewer is
          stream,       \* where the stream request of each viewer is
          handlers,     \* the handlers of the channel
          queue, listening, wire,
          written,      \* what each stream wrote and the page has not read
          buffer,       \* what the page read and could not split yet
          known,        \* the messages the page shows
          faults,
          heard, owed,  \* history: written to a stream; published while it was open
          deaf          \* history: a LISTEN failed and its handler stayed

vars == <<broker, conversation, history, request, stream, handlers, queue, listening,
          wire, written, buffer, known, faults, heard, owed, deaf>>
store  == <<conversation, history>>
wires  == <<queue, listening, wire, written, heard, owed, deaf>>
page   == <<buffer, known>>

Init ==
  /\ broker = "new" /\ conversation = FALSE /\ history = <<>>
  /\ request = [v \in Viewer |-> "idle"] /\ stream = [v \in Viewer |-> "none"]
  /\ handlers = {} /\ queue = <<>> /\ listening = FALSE /\ wire = <<>>
  /\ written = [v \in Viewer |-> <<>>] /\ buffer = [v \in Viewer |-> <<>>]
  /\ known = [v \in Viewer |-> {}]
  /\ faults = 0 /\ deaf = FALSE
  /\ heard = [v \in Viewer |-> {}] /\ owed = [v \in Viewer |-> {}]

Ask(v, at)    == request' = [request EXCEPT ![v] = at]
Follow(v, at) == stream' = [stream EXCEPT ![v] = at]

----------------------------------------------------------------------------
(* PostgresRealtimeBroker.start, called by publish and by subscribe.  Only *)
(* the first call connects; pg refuses a second connect of a client, and   *)
(* after a failed one no later call succeeds.                              *)

Starting(v, goto(_, _), connecting, next, failed, at) ==
  /\ at = "start"
  /\ broker' = IF broker = "new" THEN "connecting" ELSE broker
  /\ goto(v, CASE broker = "started" -> next [] broker = "new" -> connecting
               [] OTHER -> failed)

StartToPublish(v) ==
  /\ Starting(v, Ask, "connecting", "publish", "failed", request[v])
  /\ UNCHANGED <<store, stream, handlers, wires, page, faults>>

StartToSubscribe(v) ==
  /\ Starting(v, Follow, "connecting", "subscribe", "stuck", stream[v])
  /\ UNCHANGED <<store, request, handlers, wires, page, faults>>

Connected(v) ==
  /\ \/ request[v] = "connecting" /\ Ask(v, "publish") /\ UNCHANGED stream
     \/ stream[v] = "connecting" /\ Follow(v, "subscribe") /\ UNCHANGED request
  /\ broker' = "started"
  /\ UNCHANGED <<store, handlers, wires, page, faults>>

ConnectFails(v) ==
  /\ faults < MaxFaults /\ faults' = faults + 1
  /\ \/ request[v] = "connecting" /\ Ask(v, "failed") /\ UNCHANGED stream
     \/ stream[v] = "connecting" /\ Follow(v, "stuck") /\ UNCHANGED request
  /\ UNCHANGED <<broker, store, handlers, wires, page>>

----------------------------------------------------------------------------
(* POST /v1/chat/candidate and /v1/chat/advisor.                           *)

Send(v) ==
  /\ request[v] = "idle" /\ stream[v] # "none"
  /\ Ask(v, "find")
  /\ UNCHANGED <<broker, store, stream, handlers, wires, page, faults>>

\* ensureConversation: found, or inserted, which fails when another was first.
EnsureConversation(v) ==
  /\ \/ request[v] = "find" /\ Ask(v, IF conversation THEN "append" ELSE "create")
        /\ UNCHANGED conversation
     \/ request[v] = "create" /\ Ask(v, IF conversation THEN "failed" ELSE "append")
        /\ conversation' = TRUE
  /\ UNCHANGED <<broker, history, stream, handlers, wires, page, faults>>

AppendMessage(v) ==
  /\ request[v] = "append"
  /\ history' = Append(history, v)
  /\ Ask(v, "start")
  /\ UNCHANGED <<broker, conversation, stream, handlers, wires, page, faults>>

\* A stream that is open, with no LISTEN of its channel under way.
Attends(v) == stream[v] = "open" /\ ~Contains(queue, "LISTEN")

\* publishAdvisorMessage: pg_notify.  The message stays stored if it fails.
Publish(v) ==
  /\ request[v] = "publish"
  /\ IF v \in TooLong
     THEN Ask(v, "failed") /\ UNCHANGED <<wire, owed>>
     ELSE /\ Ask(v, "published")
          /\ wire' = IF listening THEN Append(wire, v) ELSE wire
          /\ owed' = [w \in Viewer |-> owed[w] \cup IF Attends(w) THEN {v} ELSE {}]
  /\ UNCHANGED <<broker, store, stream, handlers, queue, listening, written, heard,
                 deaf, page, faults>>

\* The page that sent it loads the history again.
Reload(v) ==
  /\ request[v] = "published"
  /\ Ask(v, "sent")
  /\ known' = [known EXCEPT ![v] = @ \cup ToSet(history)]
  /\ UNCHANGED <<broker, store, stream, handlers, wires, buffer, faults>>

----------------------------------------------------------------------------
(* GET /v1/conversations/:id/stream.                                       *)

\* The page loads the history, then asks for the stream.
OpenPage(v) ==
  /\ stream[v] = "none"
  /\ known' = [known EXCEPT ![v] = ToSet(history)]
  /\ Follow(v, "start")
  /\ UNCHANGED <<broker, store, request, handlers, wires, buffer, faults>>

\* subscribe: the first handler sends LISTEN and waits for it, others do not.
Subscribe(v) ==
  /\ stream[v] = "subscribe"
  /\ handlers' = handlers \cup {v}
  /\ IF handlers = {}
     THEN queue' = Append(queue, "LISTEN") /\ Follow(v, "listen")
     ELSE UNCHANGED queue /\ Follow(v, "open")
  /\ UNCHANGED <<broker, store, request, listening, wire, written, heard, owed, deaf,
                 page, faults>>

\* unsubscribe, when the page closes an open stream.
AnyHandler(v)  == TRUE                                       \* mutant of LastHandler
LastHandler(v) == handlers \subseteq {v}

Close(v) ==
  /\ stream[v] = "open"
  /\ handlers' = handlers \ {v}
  /\ queue' = IF LastHandler(v) THEN Append(queue, "UNLISTEN") ELSE queue
  /\ Follow(v, "closed")
  /\ UNCHANGED <<broker, store, request, listening, wire, written, heard, owed, deaf,
                 page, faults>>

\* The page closes while the route awaits subscribe: the close handler comes
\* too late and the handler stays.
CloseEarly(v) ==
  /\ stream[v] = "listen"
  /\ Follow(v, "leaked")
  /\ UNCHANGED <<broker, store, request, handlers, wires, page, faults>>

\* PostgreSQL takes the next statement of the subscriber client.
Execute ==
  /\ queue # <<>>
  /\ queue' = Tail(queue)
  /\ listening' = (Head(queue) = "LISTEN")
  /\ stream' = [v \in Viewer |-> IF Head(queue) = "LISTEN" /\ stream[v] = "listen"
                                 THEN "open" ELSE stream[v]]
  /\ UNCHANGED <<broker, store, request, handlers, wire, written, heard, owed, deaf,
                 page, faults>>

\* The LISTEN fails: its stream is stuck, its handler stays.
ListenFails ==
  /\ queue # <<>> /\ Head(queue) = "LISTEN" /\ faults < MaxFaults
  /\ faults' = faults + 1 /\ deaf' = TRUE
  /\ queue' = Tail(queue)
  /\ stream' = [v \in Viewer |-> IF stream[v] = "listen" THEN "stuck" ELSE stream[v]]
  /\ UNCHANGED <<broker, store, request, handlers, listening, wire, written, heard, owed, page>>

\* What a stream writes: the event, its data, an empty line.
Frame(m) == <<"event: message", "newline", "data: ", m>>
              \o (IF m \in TwoLines THEN <<"\\n", "\\n">> ELSE <<>>) \o <<"newline", "newline">>

\* A notification arrives: every handler of the channel writes it.
Notify ==
  /\ wire # <<>>
  /\ wire' = Tail(wire)
  /\ written' = [v \in Viewer |-> IF v \in handlers /\ stream[v] = "open"
                                  THEN written[v] \o Frame(Head(wire)) ELSE written[v]]
  /\ heard' = [v \in Viewer |-> heard[v] \cup IF v \in handlers THEN {Head(wire)} ELSE {}]
  /\ UNCHANGED <<broker, store, request, stream, handlers, queue, listening, owed, deaf,
                 page, faults>>

(***************************************************************************)
(* subscribeAdvisorMessages: the page splits what it read at "\\n\\n" and  *)
(* each event at "\\n", a backslash and an n, and shows the first line     *)
(* that starts with "data: ".                                              *)
(***************************************************************************)
LineEnd == "\\n"
SplitsAt(s, i) == s[i] = LineEnd /\ s[i + 1] = LineEnd

Lines(event) ==
  LET starts == {1} \cup {i + 1 : i \in {j \in DOMAIN event : event[j] = LineEnd}}
  IN  {SubSeq(event, i, Len(event)) : i \in starts}

Shown(event) ==
  {l[2] : l \in {k \in Lines(event) : Len(k) > 1 /\ k[1] = "data: "}}

Read(v) ==
  /\ written[v] # <<>> /\ stream[v] = "open"
  /\ written' = [written EXCEPT ![v] = <<>>]
  /\ LET text == buffer[v] \o written[v]
         ends == {i \in 1..(Len(text) - 1) : SplitsAt(text, i)}
         starts == {1} \cup {i + 2 : i \in ends}
         EventAt(i) == SubSeq(text, i, Min({e \in ends : e >= i}) - 1)
     IN  /\ buffer' = [buffer EXCEPT ![v] = SubSeq(text, Max(starts), Len(text))]
         /\ known' = [known EXCEPT ![v] = @ \cup
              UNION {Shown(EventAt(i)) : i \in starts \ {Max(starts)}}]
  /\ UNCHANGED <<broker, store, request, stream, handlers, queue, listening, wire,
                 heard, owed, deaf, faults>>

Next ==
  \/ \E v \in Viewer :
       \/ StartToPublish(v) \/ StartToSubscribe(v) \/ Connected(v) \/ ConnectFails(v)
       \/ Send(v) \/ EnsureConversation(v) \/ AppendMessage(v) \/ Publish(v) \/ Reload(v)
       \/ OpenPage(v) \/ Subscribe(v) \/ Close(v) \/ CloseEarly(v) \/ Read(v)
  \/ Execute \/ ListenFails \/ Notify

Spec == Init /\ [][Next]_vars

----------------------------------------------------------------------------

TypeOK ==
  /\ broker \in {"new", "connecting", "started"}
  /\ request \in [Viewer -> {"idle", "find", "create", "append", "start", "connecting",
                             "publish", "published", "sent", "failed"}]
  /\ stream \in [Viewer -> {"none", "start", "connecting", "subscribe", "listen", "open",
                            "closed", "leaked", "stuck"}]
  /\ handlers \subseteq Viewer /\ ToSet(history) \subseteq Viewer
  /\ queue \in Seq({"LISTEN", "UNLISTEN"}) /\ ToSet(wire) \subseteq Viewer
  /\ known \in [Viewer -> SUBSET Viewer]

(***************************************************************************)
(* A stream that stays open is written every message that is published     *)
(* while it is open, whoever subscribes and leaves around it: LISTEN and   *)
(* UNLISTEN are sent for the channel, not for the stream, and execute      *)
(* later.  It does not cover what is published while a LISTEN is under     *)
(* way, which a second subscriber does not wait for, nor a channel whose   *)
(* LISTEN failed.                                                          *)
(***************************************************************************)
OpenStreamsHear ==
  (wire = <<>> /\ ~deaf) =>
     \A v \in Viewer : stream[v] = "open" => owed[v] \subseteq heard[v]

(***************************************************************************)
(* docs/PROVIDER_RESILIENCE_AND_REALTIME_CHAT.md:54: the web client        *)
(* processes new messages without a refresh.  A page that has read all its *)
(* stream wrote shows every message that was written to it.                *)
(***************************************************************************)
ShownWithoutRefresh ==
  \A v \in Viewer :
     stream[v] = "open" /\ written[v] = <<>> => heard[v] \subseteq known[v]
===============================================================================
