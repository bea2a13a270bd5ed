-------------------------- MODULE WebConsoleProofs --------------------------
(***************************************************************************)
(* Theorems about WebConsole for all sets of types, actors, links and      *)
(* pages, whoever opens, uses and closes them.                             *)
(***************************************************************************)
EXTENDS WebConsole, TLAPS

(* Actions, by where they run. *)
ServerStep ==
  \/ \E b \in Browsers : Serve(b) \/ AnswerEvents(b) \/ AnswerActors(b)
  \/ \E t \in Types : AddEvent(t) \/ RemoveEvent(t)

MonitorStep == SenderStep \/ \E b \in Browsers : OnConnect(b) \/ OnClose(b)

PageStep ==
  \E b \in Browsers : \/ LoadDrawing(b) \/ LoadRest(b) \/ DrawGraph(b) \/ Close(b)
                      \/ \E t \in Types : ExecuteAdd(b, t)

LEMMA NextSplit == Next <=> ServerStep \/ MonitorStep \/ PageStep
  BY DEF Next, ServerStep, MonitorStep, PageStep

-----------------------------------------------------------------------------
(* Types. *)
LEMMA TypeInit == Init => TypeOK
  BY DEF Init, TypeOK

LEMMA AddedType ==
  ASSUME TypeOK, NEW t \in Types, Added(t)
  PROVE  /\ types' \subseteq Types /\ dirty' \subseteq types'
         /\ {told', late'} \subseteq [Browsers -> SUBSET Types]
  <1>1. types' \subseteq Types /\ dirty' \subseteq types'
        BY DEF Added, TypeOK
  <1>2. CASE t \in types
        BY <1>1, <1>2 DEF Added, TypeOK, history
  <1>3. CASE t \notin types
        <2>1. told' \in [Browsers -> SUBSET Types]
              BY <1>3 DEF Added, TypeOK
        <2>2. late' \in [Browsers -> SUBSET Types]
              BY <1>3 DEF Added, TypeOK
        <2> QED BY <1>1, <2>1, <2>2
  <1> QED BY <1>2, <1>3

LEMMA TypeServer == TypeOK /\ ServerStep => TypeOK'
  <1> SUFFICES ASSUME TypeOK, ServerStep PROVE TypeOK'
      OBVIOUS
  <1> USE DEF registry, monitor, graph, history
  <1>1. ASSUME NEW b \in Browsers, HandleEventCommand(b) PROVE TypeOK'
        <2>1. adding[b] \in Types
              BY <1>1 DEF HandleEventCommand, TypeOK
        <2>2. adding' \in [Browsers -> Types \cup {None}]
              BY <1>1 DEF HandleEventCommand, TypeOK
        <2> QED BY <1>1, <2>1, <2>2, AddedType DEF HandleEventCommand, TypeOK
  <1>2. ASSUME NEW b \in Browsers, AnswerEvents(b) \/ AnswerActors(b) PROVE TypeOK'
        BY <1>2 DEF AnswerEvents, AnswerActors, TypeOK
  <1>3. ASSUME NEW t \in Types, AddEvent(t) PROVE TypeOK'
        BY <1>3, AddedType DEF AddEvent, TypeOK
  <1>4. ASSUME NEW t \in Types, RemoveEvent(t) PROVE TypeOK'
        BY <1>4 DEF RemoveEvent, TypeOK
  <1>5. ASSUME NEW b \in Browsers, NEW t \in Types, ResetDirtyEvents(b, t) PROVE TypeOK'
        BY <1>5 DEF ResetDirtyEvents, TypeOK
  <1> QED BY <1>1, <1>2, <1>3, <1>4, <1>5 DEF ServerStep, Serve

LEMMA TypeMonitor == TypeOK /\ MonitorStep => TypeOK'
  <1> SUFFICES ASSUME TypeOK, MonitorStep PROVE TypeOK'
      OBVIOUS
  <1> USE DEF MonitorUnchanged, registry, graph
  <1>1. ASSUME NEW b \in Browsers, OnConnect(b) \/ OnClose(b) PROVE TypeOK'
        BY <1>1 DEF OnConnect, OnClose, TypeOK
  <1>2. CASE BeginRound \/ EndRound
        BY <1>2 DEF BeginRound, EndRound, TypeOK
  <1>3. ASSUME NEW b \in Browsers, CheckOpen(b) PROVE TypeOK'
        BY <1>3 DEF CheckOpen, TypeOK
  <1>4. CASE SendStatus
        <2>1. sending \in Browsers /\ sending' = None
              BY <1>4 DEF SendStatus, TypeOK
        <2>2. told' \in [Browsers -> SUBSET Types] /\ resets' \in [Browsers -> SUBSET Types]
              BY <1>4, <2>1 DEF SendStatus, Transmit, OnMessage, TypeOK
        <2> QED BY <1>4, <2>1, <2>2 DEF SendStatus, TypeOK
  <1> QED BY <1>1, <1>2, <1>3, <1>4 DEF MonitorStep, SenderStep

LEMMA TypePage == TypeOK /\ PageStep => TypeOK'
  <1> SUFFICES ASSUME TypeOK, PageStep PROVE TypeOK'
      OBVIOUS
  <1> USE DEF PageUnchanged, registry, graph, history
  <1>1. ASSUME NEW b \in Browsers, LoadDrawing(b) \/ LoadRest(b) PROVE TypeOK'
        BY <1>1 DEF LoadDrawing, LoadRest, TypeOK
  <1>2. ASSUME NEW b \in Browsers, DrawGraph(b) PROVE TypeOK'
        BY <1>2 DEF DrawGraph, TypeOK
  <1>3. ASSUME NEW b \in Browsers, Close(b) PROVE TypeOK'
        BY <1>3 DEF Close, TypeOK
  <1>4. ASSUME NEW b \in Browsers, NEW t \in Types, ExecuteAdd(b, t) PROVE TypeOK'
        BY <1>4 DEF ExecuteAdd, TypeOK
  <1> QED BY <1>1, <1>2, <1>3, <1>4 DEF PageStep

LEMMA TypeStep == TypeOK /\ [Next]_vars => TypeOK'
  <1>1. TypeOK /\ UNCHANGED vars => TypeOK'
        BY DEF TypeOK, vars, registry, monitor, graph, history
  <1> QED BY <1>1, NextSplit, TypeServer, TypeMonitor, TypePage

(* Every variable keeps its type; in particular only types that exist are
   dirty, although types are removed while requests reset the flags. *)
THEOREM TypeCorrect == Spec => []TypeOK
  BY TypeInit, TypeStep, PTL DEF Spec

-----------------------------------------------------------------------------
(* The sender.  A session is shut or lost only when its page is closed, and who
   is a listener has had one. *)
Sessions ==
  /\ \A b \in Browsers : session[b] \in {"shut", "null"} => page[b] = "closed"
  /\ \A b \in listeners \cup visiting : session[b] # "unset"

SenderInv == Sessions /\ DiesOnlyByClosing

LEMMA SenderStepInv == TypeOK /\ SenderInv /\ [Next]_vars => SenderInv'
  <1> SUFFICES ASSUME TypeOK, SenderInv, [Next]_vars PROVE SenderInv'
      OBVIOUS
  <1> USE DEF SenderInv, Sessions, DiesOnlyByClosing
  <1>1. CASE UNCHANGED <<session, listeners, sender, visiting, page>>
        BY <1>1
  <1>2. CASE ServerStep \/ UNCHANGED vars \/ SendStatus \/ \E b \in Browsers : DrawGraph(b) \/ \E t \in Types : ExecuteAdd(b, t)
        BY <1>1, <1>2 DEF ServerStep, Serve, HandleEventCommand, ResetDirtyEvents, AnswerEvents, AnswerActors,
           AddEvent, RemoveEvent, SendStatus, MonitorUnchanged, DrawGraph, ExecuteAdd, PageUnchanged, vars,
           monitor, graph
  <1>3. ASSUME NEW b \in Browsers, OnConnect(b) \/ OnClose(b) PROVE SenderInv'
        BY <1>3 DEF OnConnect, OnClose, MonitorUnchanged, TypeOK
  <1>4. CASE BeginRound \/ EndRound
        BY <1>4 DEF BeginRound, EndRound, MonitorUnchanged, TypeOK
  <1>5. ASSUME NEW b \in Browsers, CheckOpen(b) PROVE SenderInv'
        BY <1>5 DEF CheckOpen, MonitorUnchanged, TypeOK
  <1>6. ASSUME NEW b \in Browsers, LoadDrawing(b) \/ LoadRest(b) \/ Close(b) PROVE SenderInv'
        <2>1. /\ session' \in [Browsers -> {"unset", "open", "shut", "null"}]
              /\ UNCHANGED <<listeners, sender, visiting>>
              /\ page[b] # "closed" /\ \A c \in Browsers \ {b} : page'[c] = page[c] /\ session'[c] = session[c]
              BY <1>6 DEF LoadDrawing, LoadRest, Close, PageUnchanged, TypeOK
        <2>2. \/ session'[b] = session[b]
              \/ session[b] = "open" /\ session'[b] = "shut" /\ page'[b] = "closed"
              BY <1>6 DEF LoadDrawing, LoadRest, Close, TypeOK
        <2>3. session[b] \notin {"shut", "null"}
              BY <2>1
        <2> QED BY <2>1, <2>2, <2>3 DEF TypeOK
  <1> QED BY <1>2, <1>3, <1>4, <1>5, <1>6, NextSplit DEF MonitorStep, SenderStep, PageStep

(* The status sender ends for all pages only because one was closed between the
   sender's look at the listeners and its look at that page's session
   (WebSocketMonitor.onClose, isOpen). *)
THEOREM SenderLives == Spec => []DiesOnlyByClosing
  <1>1. Init => SenderInv
        BY DEF Init, SenderInv, Sessions, DiesOnlyByClosing
  <1>2. SenderInv => DiesOnlyByClosing
        BY DEF SenderInv
  <1> QED BY <1>1, <1>2, TypeInit, TypeStep, SenderStepInv, PTL DEF Spec

-----------------------------------------------------------------------------
(* The graph.  Every type that exists when a page has its snapshot is in it or
   was added since; nothing is painted without a snapshot. *)
GraphInv ==
  \A b \in Browsers :
    /\ events[b] = "answered" => types \subseteq snapshot[b] \cup late[b]
    /\ painted[b] # "no" => events[b] = "answered"
    /\ page[b] = "none" => events[b] = "none"

LEMMA GraphAdded ==
  ASSUME TypeOK, GraphInv, NEW t \in Types, Added(t), UNCHANGED <<page, graph>>
  PROVE  GraphInv'
  <1>1. UNCHANGED <<page, events, snapshot, painted>> /\ types' = types \cup {t}
        BY DEF graph, Added
  <1>2. CASE t \in types
        BY <1>1, <1>2 DEF Added, history, GraphInv
  <1>3. CASE t \notin types
        <2>1. \A b \in Browsers :
                late'[b] = IF events[b] = "answered" /\ t \notin snapshot[b] THEN late[b] \cup {t} ELSE late[b]
              BY <1>3 DEF Added
        <2> QED BY <1>1, <2>1 DEF GraphInv
  <1> QED BY <1>2, <1>3

LEMMA GraphStep == TypeOK /\ GraphInv /\ [Next]_vars => GraphInv'
  <1> SUFFICES ASSUME TypeOK, GraphInv, [Next]_vars PROVE GraphInv'
      OBVIOUS
  <1>1. ASSUME NEW b \in Browsers, HandleEventCommand(b) PROVE GraphInv'
        <2>1. adding[b] \in Types
              BY <1>1 DEF HandleEventCommand, TypeOK
        <2> QED BY <1>1, <2>1, GraphAdded DEF HandleEventCommand
  <1>2. ASSUME NEW t \in Types, AddEvent(t) PROVE GraphInv'
        BY <1>2, GraphAdded DEF AddEvent
  <1>3. CASE UNCHANGED <<types, page, events, snapshot, painted, late>>
        BY <1>3 DEF GraphInv
  <1>4. CASE MonitorStep \/ UNCHANGED vars \/ \E b \in Browsers :
             AnswerActors(b) \/ \E t \in Types : ResetDirtyEvents(b, t) \/ ExecuteAdd(b, t)
        BY <1>3, <1>4 DEF MonitorStep, SenderStep, BeginRound, CheckOpen, SendStatus, EndRound, OnConnect, OnClose,
           MonitorUnchanged, ResetDirtyEvents, AnswerActors, ExecuteAdd, PageUnchanged, vars, registry, graph, history
  <1>5. ASSUME NEW t \in Types, RemoveEvent(t) PROVE GraphInv'
        BY <1>5 DEF RemoveEvent, graph, history, GraphInv
  <1>6. ASSUME NEW b \in Browsers, AnswerEvents(b) PROVE GraphInv'
        BY <1>6 DEF AnswerEvents, registry, history, GraphInv, TypeOK
  <1>7. ASSUME NEW b \in Browsers, LoadDrawing(b) PROVE GraphInv'
        BY <1>7 DEF LoadDrawing, PageUnchanged, registry, history, GraphInv, TypeOK
  <1>8. ASSUME NEW b \in Browsers, LoadRest(b) \/ Close(b) PROVE GraphInv'
        BY <1>8 DEF LoadRest, Close, PageUnchanged, registry, graph, history, GraphInv, TypeOK
  <1>9. ASSUME NEW b \in Browsers, DrawGraph(b) PROVE GraphInv'
        BY <1>9 DEF DrawGraph, PageUnchanged, registry, history, GraphInv, TypeOK
  <1> QED BY <1>1, <1>2, <1>4, <1>5, <1>6, <1>7, <1>8, <1>9, NextSplit DEF ServerStep, Serve, PageStep

(* A page lacks the line of a link only if the type of the link was added after
   the page had asked for the types (deraDrawing.js, drawInitialGraph). *)
THEOREM LinksDrawn == Spec => []MissingLinksAreLate
  <1>1. Init => GraphInv
        BY DEF Init, GraphInv
  <1>2. TypeOK /\ GraphInv => MissingLinksAreLate
        BY DEF TypeOK, GraphInv, MissingLinksAreLate, ActorNodes, EventNodes, Edges
  <1> QED BY <1>1, <1>2, TypeInit, TypeStep, GraphStep, PTL DEF Spec

-----------------------------------------------------------------------------
(* The flags.  Only a page that has drawn asks for a reset: the status updates,
   whose handler would ask for one too, never have the type it waits for. *)
ResetsFollow == \A b \in Browsers : resets[b] # {} => painted[b] # "no"

LEMMA ResetsStep == TypeOK /\ ResetsFollow /\ [Next]_vars => ResetsFollow'
  <1> SUFFICES ASSUME TypeOK, ResetsFollow, [Next]_vars PROVE ResetsFollow'
      OBVIOUS
  <1>1. CASE painted' = painted /\ \A b \in Browsers : resets'[b] \subseteq resets[b]
        BY <1>1 DEF ResetsFollow
  <1>6. ASSUME NEW b \in Browsers, NEW t \in Types, ResetDirtyEvents(b, t) PROVE ResetsFollow'
        BY <1>1, <1>6 DEF ResetDirtyEvents, graph, TypeOK
  <1>2. CASE \/ \E t \in Types : AddEvent(t) \/ RemoveEvent(t)
             \/ \E b \in Browsers : HandleEventCommand(b) \/ AnswerEvents(b) \/ AnswerActors(b)
             \/ UNCHANGED vars
        BY <1>1, <1>2 DEF HandleEventCommand, AnswerEvents, AnswerActors, AddEvent, RemoveEvent, graph, vars
  <1>3. CASE MonitorStep
        <2>1. StatusType # "Event"
              BY DEF StatusType
        <2>2. resets' = resets
              BY <1>3, <2>1 DEF MonitorStep, SenderStep, BeginRound, CheckOpen, SendStatus, Transmit, OnMessage,
                 EndRound, OnConnect, OnClose
        <2> QED BY <1>1, <1>3, <2>2 DEF MonitorStep, SenderStep, BeginRound, CheckOpen, SendStatus, EndRound,
                   OnConnect, OnClose, MonitorUnchanged, graph
  <1>4. ASSUME NEW b \in Browsers, DrawGraph(b) PROVE ResetsFollow'
        <2>1. /\ painted'[b] # "no" /\ \A c \in Browsers \ {b} : painted'[c] = painted[c]
              /\ \A c \in Browsers \ {b} : resets'[c] = resets[c]
              BY <1>4 DEF DrawGraph, TypeOK
        <2> QED BY <2>1 DEF ResetsFollow
  <1>5. CASE \E b \in Browsers : LoadDrawing(b) \/ LoadRest(b) \/ Close(b) \/ \E t \in Types : ExecuteAdd(b, t)
        BY <1>1, <1>5 DEF LoadDrawing, LoadRest, Close, ExecuteAdd, graph
  <1> QED BY <1>2, <1>3, <1>4, <1>5, <1>6, NextSplit DEF ServerStep, Serve, PageStep

(* Of a step that clears flags, all but the reset remove the types. *)
LEMMA ClearedSeen ==
  ASSUME TypeOK, GraphInv, ResetsFollow, [Next]_vars, NEW t \in (dirty \ dirty') \cap types'
  PROVE  \E b \in Browsers : t \in EventNodes(b) \cup late[b]
  <1>1. CASE UNCHANGED registry
        BY <1>1 DEF registry
  <1>2. ASSUME NEW u \in Types, Added(u) PROVE FALSE
        BY <1>2 DEF Added
  <1>3. ASSUME NEW b \in Browsers, HandleEventCommand(b) PROVE FALSE
        <2>1. adding[b] \in Types
              BY <1>3 DEF HandleEventCommand, TypeOK
        <2> QED BY <1>2, <1>3, <2>1 DEF HandleEventCommand
  <1>4. ASSUME NEW u \in Types, AddEvent(u) \/ RemoveEvent(u) PROVE FALSE
        BY <1>2, <1>4 DEF AddEvent, RemoveEvent
  <1>5. ASSUME NEW b \in Browsers, NEW u \in Types, ResetDirtyEvents(b, u) PROVE t \in EventNodes(b) \cup late[b]
        <2>1. painted[b] # "no" /\ t \in types
              BY <1>5 DEF ResetDirtyEvents, ResetsFollow
        <2>2. types \subseteq snapshot[b] \cup late[b]
              BY <2>1 DEF GraphInv
        <2> QED BY <2>1, <2>2 DEF EventNodes, TypeOK
  <1>6. CASE UNCHANGED vars \/ MonitorStep \/ PageStep \/ \E b \in Browsers : AnswerEvents(b) \/ AnswerActors(b)
        BY <1>1, <1>6 DEF vars, MonitorStep, SenderStep, BeginRound, CheckOpen, SendStatus, EndRound, OnConnect,
           OnClose, MonitorUnchanged, PageStep, LoadDrawing, LoadRest, DrawGraph, Close, ExecuteAdd, PageUnchanged,
           AnswerEvents, AnswerActors
  <1> QED BY <1>3, <1>4, <1>5, <1>6, NextSplit DEF ServerStep, Serve

(* The flag of a type that still exists is cleared only once some page has drawn
   the type or has missed it between its two looks (EventActorManager,
   resetDirtyEvents; deraDrawing.js). *)
THEOREM FlagsClearedInTime == Spec => SeenBeforeCleared
  <1>1. Init => GraphInv /\ ResetsFollow
        BY DEF Init, GraphInv, ResetsFollow
  <1>2. TypeOK /\ GraphInv /\ ResetsFollow /\ [Next]_vars
          => [\A t \in (dirty \ dirty') \cap types' :
                \E b \in Browsers : t \in EventNodes(b) \cup late[b]]_vars
        BY ClearedSeen
  <1> QED BY <1>1, <1>2, TypeInit, TypeStep, GraphStep, ResetsStep, PTL DEF Spec, SeenBeforeCleared
=============================================================================
