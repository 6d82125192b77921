----------------------------- MODULE RealtimeChat -----------------------------
(***************************************************************************)
(* Two ends of a WebSocket: the ConnectionManager of                       *)
(* apps/data-plane/realtime-gateway/src/main.py with its endpoint          *)
(* /realtime, and the widget of                                            *)
(* frontend/web/src/components/EnhancedChatWidget.tsx.  They speak         *)
(* different protocols and are modelled side by side, not connected.       *)
(***************************************************************************)
EXTENDS Integers, Sequences, SequencesExt, FiniteSets

CONSTANTS
  Clients,      \* clients of the gateway, each connecting once
  Speakers,     \* those that send a message
  MaxSockets    \* bound: sockets the widget opens

ASSUME RealtimeAssumptions == Speakers \subseteq Clients /\ MaxSockets \in Nat

-----------------------------------------------------------------------------
(* The gateway.  broadcast walks over the list of connections by position while it
   awaits every send, and others append to the list and remove from it. *)
VARIABLES
  connections,  \* active_connections
  alive,        \* clients whose end of the socket is open
  endpoint,     \* of a client: "none", "receiving", "broadcasting", "ended", "crashed"
  spoke,        \* clients that have sent their message
  index,        \* per client: the position its broadcast has reached
  target,       \* ... and the connection it is sending to, as a set
  got,          \* history: how often each connection got each client's broadcast
  audience,     \* history: who was connected when the broadcast began and has not left
  disturbed     \* history: broadcasts during which a connection was removed

gatewayEnd == <<connections, alive, endpoint, spoke, index, target, got, audience, disturbed>>

RealtimeInit ==
  /\ connections = <<>> /\ alive = {}
  /\ endpoint = [c \in Clients |-> "none"]
  /\ spoke = {} /\ index = [c \in Clients |-> 1] /\ target = [c \in Clients |-> {}]
  /\ got = [c \in Clients |-> [d \in Clients |-> 0]]
  /\ audience = [c \in Clients |-> {}]
  /\ disturbed = {}

\* Seeded fault: new connections come first.
Joined_First(c) == <<c>> \o connections

\* active_connections.append
Joined(c) == Append(connections, c)

(* connect *)
ConnectClient(c) ==
  /\ endpoint[c] = "none"
  /\ connections' = Joined(c)
  /\ alive' = alive \cup {c}
  /\ endpoint' = [endpoint EXCEPT ![c] = "receiving"]
  /\ UNCHANGED <<spoke, index, target, got, audience, disturbed>>

(* the client closes its end, or the network does *)
ClientLeaves(c) ==
  /\ c \in alive
  /\ alive' = alive \ {c}
  /\ audience' = [d \in Clients |-> audience[d] \ {c}]
  /\ UNCHANGED <<connections, endpoint, spoke, index, target, got, disturbed>>

\* list.remove takes out the first entry; that disturbs every broadcast under way
Removal(c) ==
  /\ \E i \in DOMAIN connections :
       /\ connections[i] = c /\ \A j \in 1 .. i - 1 : connections[j] # c
       /\ connections' = RemoveAt(connections, i)
  /\ disturbed' = disturbed \cup {d \in Clients : endpoint[d] = "broadcasting"}

(* receive_text raises WebSocketDisconnect: disconnect *)
Disconnect(c) ==
  /\ endpoint[c] = "receiving" /\ c \notin alive
  /\ IF c \in ToSet(connections) THEN Removal(c) ELSE UNCHANGED <<connections, disturbed>>
  /\ endpoint' = [endpoint EXCEPT ![c] = "ended"]
  /\ UNCHANGED <<alive, spoke, index, target, got, audience>>

(* receive_text returns, and broadcast begins *)
Speak(c) ==
  /\ endpoint[c] = "receiving" /\ c \in (alive \cap Speakers) \ spoke
  /\ spoke' = spoke \cup {c}
  /\ endpoint' = [endpoint EXCEPT ![c] = "broadcasting"]
  /\ audience' = [audience EXCEPT ![c] = ToSet(connections) \cap alive]
  /\ UNCHANGED <<connections, alive, index, target, got, disturbed>>

(* the loop takes the next connection, and send_text is awaited *)
TakeNext(c) ==
  /\ endpoint[c] = "broadcasting" /\ target[c] = {} /\ index[c] <= Len(connections)
  /\ target' = [target EXCEPT ![c] = {connections[index[c]]}]
  /\ index' = [index EXCEPT ![c] = @ + 1]
  /\ UNCHANGED <<connections, alive, endpoint, spoke, got, audience, disturbed>>

(* send_text returns, or raises and the connection is removed; when it has been
   removed already, remove raises and the speaker's endpoint ends without leaving
   the list itself. *)
SendText(c, d) ==
  /\ target[c] = {d}
  /\ target' = [target EXCEPT ![c] = {}]
  /\ IF d \in alive
     THEN /\ got' = [got EXCEPT ![c][d] = @ + 1]
          /\ UNCHANGED <<connections, endpoint, disturbed>>
     ELSE /\ IF d \in ToSet(connections)
             THEN Removal(d) /\ UNCHANGED endpoint
             ELSE /\ endpoint' = [endpoint EXCEPT ![c] = "crashed"]
                  /\ UNCHANGED <<connections, disturbed>>
          /\ UNCHANGED got
  /\ UNCHANGED <<alive, spoke, index, audience>>

(* the loop is over *)
BroadcastEnds(c) ==
  /\ endpoint[c] = "broadcasting" /\ target[c] = {} /\ index[c] > Len(connections)
  /\ endpoint' = [endpoint EXCEPT ![c] = "receiving"]
  /\ UNCHANGED <<connections, alive, spoke, index, target, got, audience, disturbed>>

RealtimeNext ==
  \E c \in Clients :
    \/ ConnectClient(c) \/ ClientLeaves(c) \/ Disconnect(c) \/ Speak(c) \/ TakeNext(c)
    \/ \E d \in Clients : SendText(c, d)
    \/ BroadcastEnds(c)

(* A finished broadcast has reached everyone who was connected when it began and still
   is, exactly once, unless a connection was removed while it ran: the others then move
   up in the list and one of them may be passed over.  A connection is listed once, and
   stays listed without an endpoint only after a crash. *)
BroadcastReachesAll ==
  /\ \A c \in spoke \ disturbed :
       endpoint[c] = "receiving" => \A d \in audience[c] : got[c][d] = 1
  /\ IsInjective(connections)
  /\ \A c \in ToSet(connections) : endpoint[c] # "ended"

-----------------------------------------------------------------------------
(* The widget.  Its effect runs when isOpen changes and sees the ws of that render;
   its clean-up, which runs before the next effect, sees the ws of the former one.
   Sockets are numbered; 0 is null. *)
VARIABLES
  isOpen, ws, isConnected, isLoading,
  cleanupWs,   \* the ws the clean-up of the last effect will close
  socket,      \* of a socket: "unused", "connecting", "open", "closing", "closed"
  awaited,     \* where the answer to the last message is to come from: sockets, or 0: REST
  lost         \* history: a message went to a socket that closed before the answer

widgetEnd == <<isOpen, ws, isConnected, isLoading, cleanupWs, socket, awaited, lost>>
Sockets == 1 .. MaxSockets

WidgetInit ==
  /\ isOpen = FALSE /\ ws = 0 /\ isConnected = FALSE /\ isLoading = FALSE
  /\ cleanupWs = 0
  /\ socket = [s \in Sockets |-> "unused"]
  /\ awaited = {} /\ lost = FALSE

(* toggleChat or the closing button: the clean-up, then the effect *)
ToggleChat(s) ==
  LET opens == ~isOpen /\ ws = 0
      cleaned == IF cleanupWs # 0 /\ socket[cleanupWs] = "open"
                 THEN [socket EXCEPT ![cleanupWs] = "closing"] ELSE socket
  IN  /\ \A t \in 1 .. s - 1 : socket[t] # "unused"
      /\ socket[s] = "unused"
      /\ isOpen' = ~isOpen
      /\ socket' = IF opens THEN [cleaned EXCEPT ![s] = "connecting"] ELSE cleaned
      /\ ws' = IF cleanupWs # 0 THEN 0 ELSE ws
      /\ cleanupWs' = ws
      /\ UNCHANGED <<isConnected, isLoading, awaited, lost>>

(* onopen *)
OnOpen(s) ==
  /\ socket[s] = "connecting"
  /\ socket' = [socket EXCEPT ![s] = "open"]
  /\ ws' = s /\ isConnected' = TRUE
  /\ UNCHANGED <<isOpen, isLoading, cleanupWs, awaited, lost>>

\* Seeded fault: onclose leaves the indicator.
AfterClose_Online == isConnected

AfterClose == FALSE

(* onclose, of whichever socket, with or without onerror before it *)
OnClose(s) ==
  /\ socket[s] \in {"connecting", "open", "closing"}
  /\ socket' = [socket EXCEPT ![s] = "closed"]
  /\ ws' = 0 /\ isConnected' = AfterClose
  /\ lost' = (lost \/ s \in awaited)
  /\ awaited' = awaited \ {s}
  /\ UNCHANGED <<isOpen, isLoading, cleanupWs>>

(* handleSendMessage: over the socket when there is one, else REST.  What is sent
   while a socket is closing is discarded. *)
SendMessage ==
  /\ isOpen /\ ~isLoading
  /\ isLoading' = TRUE
  /\ IF ws # 0 /\ isConnected
     THEN IF socket[ws] = "open" THEN awaited' = {ws} /\ UNCHANGED lost
          ELSE lost' = TRUE /\ UNCHANGED awaited
     ELSE awaited' = {0} /\ UNCHANGED lost
  /\ UNCHANGED <<isOpen, ws, isConnected, cleanupWs, socket>>

(* handleWebSocketMessage of type response or error *)
OnResponse(s) ==
  /\ s \in awaited /\ socket[s] = "open"
  /\ isLoading' = FALSE /\ awaited' = awaited \ {s}
  /\ UNCHANGED <<isOpen, ws, isConnected, cleanupWs, socket, lost>>

(* the REST call returns or fails *)
RestAnswers ==
  /\ 0 \in awaited
  /\ isLoading' = FALSE /\ awaited' = {}
  /\ UNCHANGED <<isOpen, ws, isConnected, cleanupWs, socket, lost>>

WidgetNext ==
  \/ \E s \in Sockets : ToggleChat(s) \/ OnOpen(s) \/ OnClose(s) \/ OnResponse(s)
  \/ SendMessage \/ RestAnswers

(* The widget shows itself connected only while some socket is, and it waits (and
   refuses further messages) only for an answer that can still come, unless the socket
   it was sent over has closed: nothing then ends the waiting. *)
WidgetIsHonest ==
  /\ isConnected => \E s \in Sockets : socket[s] \in {"open", "closing"}
  /\ isLoading /\ ~lost => \E s \in awaited : s = 0 \/ socket[s] \in {"open", "closing"}
  /\ awaited # {} => isLoading
=============================================================================
