------------------------------ MODULE SseBroker ------------------------------
(***************************************************************************)
(* Live updates (src/sse.js): every room has a Set of the event streams    *)
(* that follow it, held in the Map clients.  A stream ends when its peer   *)
(* leaves or when a write to it is refused; its two close events come      *)
(* later, each running a cleanup that was bound to the Set the stream was  *)
(* added to, by which time the room may have another Set.  Sets are        *)
(* numbered so that a closure can name one that clients has dropped.       *)
(***************************************************************************)
EXTENDS Naturals, FiniteSets, FiniteSetsExt

CONSTANTS
    Rooms,       \* slugs of projects
    Streams,     \* responses that may be open or closing at the same time
    MaxClients,  \* maxClients
    MaxPerTopic  \* maxClientsPerTopic

ASSUME BrokerAssumption ==
    /\ IsFiniteSet(Streams)
    /\ MaxClients \in Nat
    /\ MaxPerTopic \in Nat
    /\ 0 \notin Rooms

SetIds == 1 .. Cardinality(Streams) + 1

VARIABLES
    clients,  \* clients[room]: the room's Set, 0 if it has none
    rosters,  \* rosters[s]: the streams in Set s
    streams,  \* streams[r]: FreshStream, or what the closure of r knows
    stopped   \* close has been called

sseVars == <<clients, rosters, streams, stopped>>

CloseEvents == {"request", "response"}
FreshStream == [state |-> "unused", room |-> 0, set |-> 0, due |-> {}]

IsOpen(r) == streams[r].state = "open"

SseInit ==
    /\ clients = [room \in Rooms |-> 0]
    /\ rosters = [s \in SetIds |-> {}]
    /\ streams = [r \in Streams |-> FreshStream]
    /\ stopped = FALSE

-----------------------------------------------------------------------------
Registered(room) == IF clients[room] = 0 THEN {} ELSE rosters[clients[room]]
AllRegistered == UNION {Registered(room) : room \in Rooms}

\* Mutant: one stream too many.
CanSubscribeInclusive(room) ==
    /\ Cardinality(AllRegistered) <= MaxClients
    /\ Cardinality(Registered(room)) <= MaxPerTopic
CanSubscribe(room) ==
    /\ Cardinality(AllRegistered) < MaxClients
    /\ Cardinality(Registered(room)) < MaxPerTopic

\* A Set that neither clients nor a closure refers to.
Garbage(s) ==
    /\ \A room \in Rooms : clients[room] # s
    /\ \A r \in Streams : streams[r].set # s

NewSet == Min({s \in SetIds : Garbage(s)})

\* The server accepts no request once it is being shut down.
Subscribe(r, room) ==
    LET fresh == clients[room] = 0
        s == IF fresh THEN NewSet ELSE clients[room]
    IN  /\ ~ stopped
        /\ streams[r] = FreshStream
        /\ CanSubscribe(room)
        /\ clients' = [clients EXCEPT ![room] = s]
        /\ rosters' = [rosters EXCEPT ![s] =
               IF fresh THEN {r} ELSE @ \cup {r}]
        /\ streams' = [streams EXCEPT ![r] =
               [state |-> "open", room |-> room, set |-> s, due |-> {}]]
        /\ UNCHANGED stopped

\* Mutant: no cleanup is attached to the stream.
ListenedNone == {}
Listened == CloseEvents

\* response.destroy, response.end or the peer's departure: no more writes,
\* and both close events will come.
EndedStreams(gone) ==
    [r \in Streams |->
        IF r \in gone /\ IsOpen(r)
        THEN [streams[r] EXCEPT !.state = "ended", !.due = Listened]
        ELSE streams[r]]

PeerLeaves(r) ==
    /\ IsOpen(r)
    /\ streams' = EndedStreams({r})
    /\ UNCHANGED <<clients, rosters, stopped>>

DropRoom(room, left) ==
    IF left = {} THEN [clients EXCEPT ![room] = 0] ELSE clients

\* The streams in refused are full and return false from write.
Publish(room, refused) ==
    LET s == clients[room]
        left == {r \in rosters[s] : IsOpen(r)} \ refused
    IN  /\ s # 0
        /\ refused \subseteq rosters[s]
        /\ rosters' = [rosters EXCEPT ![s] = left]
        /\ clients' = DropRoom(room, left)
        /\ streams' = EndedStreams(refused)
        /\ UNCHANGED stopped

Heartbeat(refused) ==
    /\ ~ stopped
    /\ refused \subseteq AllRegistered
    /\ streams' = EndedStreams(refused)
    /\ UNCHANGED <<clients, rosters, stopped>>

\* The cleanup bound by subscribe; it runs once for each of the two events.
CloseEvent(r, event) ==
    LET s == streams[r].set
        left == rosters[s] \ {r}
        due == streams[r].due \ {event}
    IN  /\ event \in streams[r].due
        /\ rosters' = [rosters EXCEPT ![s] = left]
        /\ clients' = DropRoom(streams[r].room, left)
        /\ streams' = [streams EXCEPT ![r] =
               IF due = {} THEN FreshStream ELSE [@ EXCEPT !.due = due]]
        /\ UNCHANGED stopped

\* SIGTERM: server.js closes the broker before it waits for the server.
CloseBroker ==
    /\ ~ stopped
    /\ stopped' = TRUE
    /\ streams' = EndedStreams(AllRegistered)
    /\ clients' = [room \in Rooms |-> 0]
    /\ UNCHANGED rosters

SseNext ==
    \/ \E r \in Streams, room \in Rooms : Subscribe(r, room)
    \/ \E r \in Streams : PeerLeaves(r)
    \/ \E refused \in SUBSET Streams :
          \/ \E room \in Rooms : Publish(room, refused)
          \/ Heartbeat(refused)
    \/ \E r \in Streams, event \in CloseEvents : CloseEvent(r, event)
    \/ CloseBroker

SseSpec == SseInit /\ [][SseNext]_sseVars

-----------------------------------------------------------------------------
\* The registry does not leak: it stays within its limits, no room keeps an
\* empty Set, a Set serves one room, and a stream that has ended is only
\* registered while a close event that will remove it is due.
RegistryTidy ==
    /\ Cardinality(AllRegistered) <= MaxClients
    /\ \A room \in Rooms :
          /\ Cardinality(Registered(room)) <= MaxPerTopic
          /\ clients[room] # 0 => Registered(room) # {}
          /\ \A r \in Registered(room) :
                /\ streams[r].room = room
                /\ streams[r].set = clients[room]
                /\ IsOpen(r) \/ streams[r].due # {}

\* server.js closes the broker so that no event stream keeps the HTTP server
\* open: afterwards no stream is open.
ShutdownEndsStreams == stopped => \A r \in Streams : ~ IsOpen(r)
=============================================================================
