----------------------------- MODULE WebConsole -----------------------------
(***************************************************************************)
(* The web front end: pages that draw the graph of event types and actors, *)
(* their terminals, and the WebSocket that tells them of dirty types.      *)
(*                                                                         *)
(* On the server: EventActorManager's types with their dirty flags, the    *)
(* periodic DomainStatusSender of WebSocketMonitorServlet, one             *)
(* WebSocketMonitor per page, and the threads that answer requests.  In    *)
(* each page: the scripts, which run one after the other and between which *)
(* and after which callbacks run, one at a time: deraDrawing.js, then      *)
(* deraTerm.js and deraAjax.js, at last deraWebSocketMonitor.js.           *)
(***************************************************************************)
EXTENDS Naturals, FiniteSets

CONSTANTS Types,
          Actors,   \* the registered actors, which do not change here
          ActorType, \* their types, as EventActor.getType() says
          Links,    \* their inputs and outputs: pairs of an actor and a type
          Browsers,
          Consoles, \* the pages whose terminal somebody uses
          Closing,  \* the pages somebody may close
          None

ASSUME ActorTypeAssumption == ActorType \in [Actors -> {"Action", "Barrier", "Condition", "Trigger", "Timer", "EventLogger", "SimpleEventBridge"}]
ASSUME LinksAssumption == Links \subseteq Actors \X Types
ASSUME NoneAssumption == None \notin Types \cup Browsers

VARIABLES
  types, dirty,     \* the types in the registry, and those with the flag set
  session,          \* WebSocketMonitor.session, "unset" and "null" being null
  listeners,        \* WebSocketMonitorServlet.listeners
  sender, visiting, \* DomainStatusSender, and the clients it has yet to visit
  sending,          \* the client it has found open
  page,             \* how far each page has loaded
  events, actors,   \* its two requests for the initial graph
  snapshot,         \* the types the first of them was answered with
  painted,          \* what became of the graph: "no", "half" or "full"
  adding,           \* the type the terminal waits for to be added
  resets,           \* the types that a page's request to reset the flags has yet to visit
  told,             \* history: the types a page has been told of
  late              \* history: the types added after the snapshot, not in it

registry == <<types, dirty>>
monitor == <<session, listeners, sender, visiting, sending>>
graph == <<events, actors, snapshot, painted>>
history == <<told, late>>
vars == <<registry, monitor, page, graph, adding, resets, history>>

TypeOK ==
  /\ types \subseteq Types /\ dirty \subseteq types
  /\ session \in [Browsers -> {"unset", "open", "shut", "null"}]
  /\ listeners \subseteq Browsers /\ visiting \subseteq Browsers
  /\ sender \in {"idle", "round", "dead"} /\ sending \in Browsers \cup {None}
  /\ sending # None => sender = "round" /\ sending \notin visiting
  /\ page \in [Browsers -> {"none", "drawing", "ready", "closed"}]
  /\ {events, actors} \subseteq [Browsers -> {"none", "sent", "answered"}]
  /\ snapshot \in [Browsers -> SUBSET Types]
  /\ painted \in [Browsers -> {"no", "half", "full"}]
  /\ adding \in [Browsers -> Types \cup {None}]
  /\ resets \in [Browsers -> SUBSET Types]
  /\ {told, late} \subseteq [Browsers -> SUBSET Types]

(* The domain may have been filled before the server is started.  A type is
   dirty from its creation. *)
Init ==
  /\ types \in SUBSET Types /\ dirty = types
  /\ session = [b \in Browsers |-> "unset"] /\ listeners = {}
  /\ sender = "idle" /\ visiting = {} /\ sending = None
  /\ page = [b \in Browsers |-> "none"]
  /\ events = [b \in Browsers |-> "none"] /\ actors = [b \in Browsers |-> "none"]
  /\ snapshot = [b \in Browsers |-> {}] /\ painted = [b \in Browsers |-> "no"]
  /\ adding = [b \in Browsers |-> None] /\ resets = [b \in Browsers |-> {}]
  /\ told = [b \in Browsers |-> {}] /\ late = [b \in Browsers |-> {}]

(* drawActor() knows the actors of these types only; no actor of the engine has
   the type "EventActor", and an "Action" is not drawn. *)
Drawable == {a \in Actors : ActorType[a] \in {"Barrier", "Condition", "EventActor", "Trigger"}}

(* The types a page shows, its actors, and the lines between them. *)
EventNodes(b) == IF painted[b] = "no" THEN {} ELSE snapshot[b]
ActorNodes(b) == IF painted[b] = "full" THEN Drawable ELSE {}
Edges(b) == Links \cap (ActorNodes(b) \X EventNodes(b))

-----------------------------------------------------------------------------
(* The registry and the server's answers. *)

(* addEvent(): a type that exists is refused, another is dirty from the start. *)
Added(t) ==
  /\ types' = types \cup {t}
  /\ dirty' = IF t \in types THEN dirty ELSE dirty \cup {t}
  /\ IF t \in types THEN UNCHANGED history
       ELSE /\ told' = [b \in Browsers |-> told[b] \ {t}]
            /\ late' = [b \in Browsers |->
                          IF events[b] = "answered" /\ t \notin snapshot[b] THEN late[b] \cup {t} ELSE late[b]]

(* A program adds a type. *)
AddEvent(t) == Added(t) /\ UNCHANGED <<monitor, page, graph, adding, resets>>

(* Faulty variant: the command to add what exists is not answered. *)
HandleEventCommandSilently(b) ==
  /\ adding[b] \notin types \cup {None} /\ Added(adding[b])
  /\ adding' = [adding EXCEPT ![b] = None]
  /\ UNCHANGED <<monitor, page, graph, resets>>

(* POST domain/events/cmd: either way there is an answer. *)
HandleEventCommand(b) ==
  /\ adding[b] # None /\ Added(adding[b])
  /\ adding' = [adding EXCEPT ![b] = None]
  /\ UNCHANGED <<monitor, page, graph, resets>>

(* Faulty variant: the set of dirty types is kept apart and forgotten. *)
RemoveEventKeepsFlag(t) ==
  /\ t \in types /\ types' = types \ {t}
  /\ UNCHANGED <<dirty, monitor, page, graph, adding, resets, history>>

RemoveEvent(t) ==
  /\ t \in types /\ types' = types \ {t} /\ dirty' = dirty \ {t}
  /\ UNCHANGED <<monitor, page, graph, adding, resets, history>>

(* GET domain/events/nodirty: the loop comes to each place of the map once, in
   some order, and clears the flag of the type that is there by then, if any;
   types are added and removed meanwhile. *)
ResetDirtyEvents(b, t) ==
  /\ t \in resets[b] /\ resets' = [resets EXCEPT ![b] = @ \ {t}]
  /\ dirty' = dirty \ {t}
  /\ UNCHANGED <<types, monitor, page, graph, adding, history>>

(* Faulty variant: the graph is drawn from the types that are dirty. *)
AnswerEventsDirty(b) ==
  /\ events[b] = "sent" /\ events' = [events EXCEPT ![b] = "answered"]
  /\ snapshot' = [snapshot EXCEPT ![b] = dirty]
  /\ UNCHANGED <<registry, monitor, page, actors, painted, adding, resets, history>>

(* GET /domain/events: the names are read in one step here. *)
AnswerEvents(b) ==
  /\ events[b] = "sent" /\ events' = [events EXCEPT ![b] = "answered"]
  /\ snapshot' = [snapshot EXCEPT ![b] = types]
  /\ UNCHANGED <<registry, monitor, page, actors, painted, adding, resets, history>>

(* GET /domain/actors. *)
AnswerActors(b) ==
  /\ actors[b] = "sent" /\ actors' = [actors EXCEPT ![b] = "answered"]
  /\ UNCHANGED <<registry, monitor, page, events, snapshot, painted, adding, resets, history>>

Serve(b) == HandleEventCommand(b) \/ \E t \in Types : ResetDirtyEvents(b, t)

-----------------------------------------------------------------------------
(* The monitor's server side. *)

MonitorUnchanged == UNCHANGED <<registry, page, graph, adding, late>>

(* Faulty variant: the listener is added before it has its session. *)
OnConnectListensFirst(b) ==
  /\ \/ page[b] = "ready" /\ b \notin listeners /\ session[b] = "unset"
        /\ listeners' = listeners \cup {b} /\ UNCHANGED session
     \/ b \in listeners /\ session[b] = "unset"
        /\ session' = [session EXCEPT ![b] = IF page[b] = "ready" THEN "open" ELSE "shut"]
        /\ UNCHANGED listeners
  /\ UNCHANGED <<sender, visiting, sending, told, resets>> /\ MonitorUnchanged

(* onConnect() is called when the page has asked for the WebSocket; once called
   it adds the listener, even if the page is closed meanwhile. *)
OnConnect(b) ==
  /\ \/ page[b] = "ready" /\ session[b] = "unset"
        /\ session' = [session EXCEPT ![b] = "open"] /\ UNCHANGED listeners
     \/ b \notin listeners /\ session[b] \in {"open", "shut"}
        /\ listeners' = listeners \cup {b} /\ UNCHANGED session
  /\ UNCHANGED <<sender, visiting, sending, told, resets>> /\ MonitorUnchanged

(* Jetty calls onClose() after onConnect(). *)
OnClose(b) ==
  /\ page[b] = "closed" /\ b \in listeners
  /\ \/ session[b] = "shut"
        /\ session' = [session EXCEPT ![b] = "null"] /\ UNCHANGED listeners
     \/ session[b] = "null"
        /\ listeners' = listeners \ {b} /\ UNCHANGED session
  /\ UNCHANGED <<sender, visiting, sending, told, resets>> /\ MonitorUnchanged

(* run(): the loop goes over the listeners there are when it begins. *)
BeginRound ==
  /\ sender = "idle" /\ listeners # {}
  /\ sender' = "round" /\ visiting' = listeners
  /\ UNCHANGED <<session, listeners, sending, told, resets>> /\ MonitorUnchanged

(* isOpen() of a null session: the exception leaves run(), and the scheduled
   executor never runs the task again. *)
CheckOpen(b) ==
  /\ sender = "round" /\ sending = None /\ b \in visiting
  /\ CASE session[b] \in {"unset", "null"} -> sender' = "dead" /\ visiting' = {} /\ UNCHANGED sending
       [] session[b] = "shut" -> visiting' = visiting \ {b} /\ UNCHANGED <<sender, sending>>
       [] session[b] = "open" -> visiting' = visiting \ {b} /\ sending' = b /\ UNCHANGED sender
  /\ UNCHANGED <<session, listeners, told, resets>> /\ MonitorUnchanged

(* The server says "EventType" where the page expects "Event": onmessage
   mentions the update in the log, and handleDirtyEvents(), which would reset
   the flags, is never called. *)
StatusType == "EventType"

OnMessage(b, D) ==
  /\ told' = [told EXCEPT ![b] = @ \cup D]
  /\ resets' = IF StatusType = "Event" THEN [resets EXCEPT ![b] = Types] ELSE resets

Transmit ==
  IF dirty # {} /\ session[sending] = "open" THEN OnMessage(sending, dirty) ELSE UNCHANGED <<told, resets>>

(* Faulty variant: one client per round is served. *)
SendStatusToOne ==
  /\ sending # None /\ Transmit
  /\ sending' = None /\ visiting' = {}
  /\ UNCHANGED <<session, listeners, sender>> /\ MonitorUnchanged

(* sendMessage() asks the session once more; that it has become null in the
   meantime is caught here.  That a page handles the message later than it is
   sent makes no difference, since all it does is to mention it. *)
SendStatus ==
  /\ sending # None /\ Transmit
  /\ sending' = None
  /\ UNCHANGED <<session, listeners, sender, visiting>> /\ MonitorUnchanged

EndRound ==
  /\ sender = "round" /\ visiting = {} /\ sending = None /\ sender' = "idle"
  /\ UNCHANGED <<session, listeners, visiting, sending, told, resets>> /\ MonitorUnchanged

SenderStep == BeginRound \/ (\E b \in Browsers : CheckOpen(b)) \/ SendStatus \/ EndRound

-----------------------------------------------------------------------------
(* The pages. *)

PageUnchanged == UNCHANGED <<registry, listeners, sender, visiting, sending>>

(* A script that sends a synchronous request blocks its page. *)
Free(b) == page[b] # "closed" /\ adding[b] = None

(* drawInitialGraph() sends two requests. *)
LoadDrawing(b) ==
  /\ page[b] = "none" /\ page' = [page EXCEPT ![b] = "drawing"]
  /\ events' = [events EXCEPT ![b] = "sent"] /\ actors' = [actors EXCEPT ![b] = "sent"]
  /\ UNCHANGED <<session, snapshot, painted, adding, resets, history>> /\ PageUnchanged

(* Faulty variant: the flags are reset as soon as that can be asked for. *)
LoadRestResets(b) ==
  /\ page[b] = "drawing" /\ page' = [page EXCEPT ![b] = "ready"]
  /\ resets' = [resets EXCEPT ![b] = Types]
  /\ UNCHANGED <<session, graph, adding, history>> /\ PageUnchanged

(* deraTerm.js, deraAjax.js and deraWebSocketMonitor.js: from now on there are
   a terminal and resetDirtyEvents(), and the WebSocket is asked for. *)
LoadRest(b) ==
  /\ page[b] = "drawing" /\ page' = [page EXCEPT ![b] = "ready"]
  /\ UNCHANGED <<session, graph, adding, resets, history>> /\ PageUnchanged

(* When both requests are answered the events are drawn, the flags are reset,
   then the actors and their links are drawn, to those events that are.  As
   long as deraAjax.js is not loaded the reset raises an error in between. *)
DrawGraph(b) ==
  /\ Free(b) /\ events[b] = "answered" /\ actors[b] = "answered" /\ painted[b] = "no"
  /\ IF page[b] = "drawing"
       THEN painted' = [painted EXCEPT ![b] = "half"] /\ UNCHANGED resets
       ELSE painted' = [painted EXCEPT ![b] = "full"] /\ resets' = [resets EXCEPT ![b] = Types]
  /\ UNCHANGED <<page, session, events, actors, snapshot, adding, history>> /\ PageUnchanged

(* "add Event t" in the terminal.  The other commands of the terminal either
   fail at the server ("add" of an actor) or do not ask it. *)
ExecuteAdd(b, t) ==
  /\ b \in Consoles /\ Free(b) /\ page[b] = "ready"
  /\ adding' = [adding EXCEPT ![b] = t]
  /\ UNCHANGED <<page, session, graph, resets, history>> /\ PageUnchanged

(* What is under way is still served. *)
Close(b) ==
  /\ b \in Closing /\ page[b] \in {"drawing", "ready"} /\ page' = [page EXCEPT ![b] = "closed"]
  /\ session' = [session EXCEPT ![b] = IF @ = "open" THEN "shut" ELSE @]
  /\ UNCHANGED <<graph, adding, resets, history>> /\ PageUnchanged

-----------------------------------------------------------------------------
Next ==
  \/ SenderStep
  \/ \E b \in Browsers :
       \/ Serve(b) \/ AnswerEvents(b) \/ AnswerActors(b) \/ OnConnect(b) \/ OnClose(b)
       \/ LoadDrawing(b) \/ LoadRest(b) \/ DrawGraph(b) \/ Close(b)
       \/ \E t \in Types : ExecuteAdd(b, t)
  \/ \E t \in Types : AddEvent(t) \/ RemoveEvent(t)

(* The scheduled executor runs the sender, the server serves the commands and a
   page its callbacks.  Nobody has to open or close a page, and the two
   requests for the graph may fail, which nothing handles. *)
Fairness ==
  /\ WF_vars(SenderStep)
  /\ \A b \in Browsers : WF_vars(HandleEventCommand(b)) /\ SF_vars(DrawGraph(b))

Spec == Init /\ [][Next]_vars /\ Fairness

-----------------------------------------------------------------------------
(* Properties. *)

(* A link between an actor and a type that a page shows no line for, although
   both exist, is one to a type that was added after the page had asked for the
   types: the two requests are answered at different moments. *)
MissingLinksAreLate ==
  \A b \in Browsers : \A a \in ActorNodes(b) : \A t \in types :
    <<a, t>> \in Links => <<a, t>> \in Edges(b) \/ t \in late[b]

(* The status sender ends for all only because some page was closed. *)
DiesOnlyByClosing == sender = "dead" => \E b \in Browsers : page[b] = "closed" /\ session[b] = "null"

(* Whenever the flag of a type that exists is cleared, some page shows the type
   or has lost it between its snapshot and its reset. *)
SeenBeforeCleared ==
  [][\A t \in (dirty \ dirty') \cap types' : \E b \in Browsers : t \in EventNodes(b) \cup late[b]]_vars

Connected(b) == page[b] = "ready" /\ b \in listeners

(* Every page that is connected is told of a type that stays dirty, as long as
   the sender lives. *)
Informed ==
  \A b \in Browsers, t \in Types :
    (Connected(b) /\ t \in dirty) ~> (t \in told[b] \/ t \notin dirty \/ ~Connected(b) \/ sender = "dead")

(* A page whose two requests are answered draws, whatever its terminal waits
   for at that moment. *)
GraphDrawn ==
  \A b \in Browsers :
    (events[b] = "answered" /\ actors[b] = "answered") ~> (painted[b] # "no" \/ page[b] = "closed")
=============================================================================
