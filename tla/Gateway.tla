------------------------------- MODULE Gateway -------------------------------
(***************************************************************************)
(* The WebSocket gateway for the clients of one project: the connections   *)
(* (gateway/src/server.rs), the relay of Yjs updates (gateway/src/sync.rs) *)
(* and the presence of users (gateway/src/presence.rs).                    *)
(*                                                                         *)
(* A connection is two tasks: a handler that reads its client's messages,  *)
(* and a forwarder that takes messages from a broadcast channel and sends  *)
(* them to the client.  The clients on the sync route share one channel,   *)
(* those on the compile route another.  A message is named by its place in *)
(* its channel.  A connection that has ended may stand for the client's    *)
(* next one.                                                               *)
(***************************************************************************)
EXTENDS Integers, Sequences

CONSTANTS Clients,
          Sharers,     \* those of them that share their cursor on the sync route
          Capacity,    \* how many messages a broadcast channel retains
          MaxMessages  \* bound on the messages of a channel

Routes == {"sync", "compile"}

ASSUME ConstantsAssumption ==
  /\ Sharers \subseteq Clients
  /\ Capacity \in Nat \ {0} /\ MaxMessages \in Nat

VARIABLES
  phase,       \* where a client's handler stands
  route,       \* the route a client has connected to ("sync" while it is out)
  broken,      \* the clients whose socket has failed
  connections, \* GatewayState.connections of the project
  messages,    \* how many messages have been sent to a route's channel
  joined,      \* how many there were when a client subscribed
  taken,       \* how many of them its receiver is past
  forward,     \* what a client's forwarder does
  sent,        \* the messages a client has been sent
  storing,     \* YjsRelay::broadcast: the update a handler has yet to store
  snapshot,    \* YjsRelay.snapshots of the project
  has_project, \* PresenceManager.presence has an entry of the project
  users,       \* the connections in that entry
  stale,       \* those among them whose last update is older than the timeout
  sweep,       \* where cleanup_empty_projects stands
  newcomers    \* history: the users who came since it looked

handlers == <<phase, route, broken, connections>>
receiver == <<joined, taken, forward, sent>>
relay    == <<messages, receiver>>
yjs      == <<storing, snapshot>>
presence == <<has_project, users, stale, sweep, newcomers>>
vars     == <<handlers, relay, yjs, presence>>

Phases   == {"Out", "Open", "Storing", "Closing"}
Forwards == {"None", "Receiving", "Sending", "Ended"}
None     == 0

-----------------------------------------------------------------------------
(* Helpers *)

Messages(c) == messages[route[c]]

(* Messages that the channel no longer retains: recv fails with Lagged. *)
Lagging(c) == Messages(c) - taken[c] > Capacity

Goes(c, start, end) == phase[c] = start /\ phase' = [phase EXCEPT ![c] = end]

(* A message has been read from the client of a route. *)
Reads(c, r) == phase[c] = "Open" /\ route[c] = r /\ c \notin broken

Send(r) ==
  /\ messages[r] < MaxMessages
  /\ messages' = [messages EXCEPT ![r] = @ + 1]
  /\ UNCHANGED receiver

-----------------------------------------------------------------------------
Init ==
  /\ phase = [c \in Clients |-> "Out"]
  /\ route = [c \in Clients |-> "sync"]
  /\ broken = {}
  /\ connections = {}
  /\ messages = [r \in Routes |-> 0]
  /\ joined = [c \in Clients |-> 0]
  /\ taken = [c \in Clients |-> 0]
  /\ forward = [c \in Clients |-> "None"]
  /\ sent = [c \in Clients |-> <<>>]
  /\ storing = [c \in Clients |-> None]
  /\ snapshot = None
  /\ has_project = FALSE
  /\ users = {}
  /\ stale = {}
  /\ sweep = "Idle"
  /\ newcomers = {}

(* handle_sync_connection, handle_compile_connection: a sync connection is  *)
(* registered (no limit on their number is checked), a compile connection   *)
(* is not; the handler subscribes to the channel of its route, which exists *)
(* from then on, and starts the forwarder.                                  *)
Connect(c, r) ==
  /\ Goes(c, "Out", "Open")
  /\ route' = [route EXCEPT ![c] = r]
  /\ connections' = IF r = "sync" THEN connections \cup {c} ELSE connections
  /\ joined' = [joined EXCEPT ![c] = messages[r]]
  /\ taken' = [taken EXCEPT ![c] = messages[r]]
  /\ forward' = [forward EXCEPT ![c] = "Receiving"]
  /\ UNCHANGED <<broken, messages, sent, yjs, presence>>

(* The handler has read an update: YjsRelay::broadcast sends it ...         *)
Broadcast(c) ==
  /\ Reads(c, "sync")
  /\ Goes(c, "Open", "Storing")
  /\ Send("sync")
  /\ storing' = [storing EXCEPT ![c] = messages["sync"] + 1]
  /\ UNCHANGED <<route, broken, connections, snapshot, presence>>

(* ... and then stores it; another handler may have stored a later one.     *)
StoreSnapshot(c) ==
  /\ Goes(c, "Storing", "Open")
  /\ snapshot' = storing[c]
  /\ storing' = [storing EXCEPT ![c] = None]
  /\ UNCHANGED <<route, broken, connections, relay, presence>>

(* A compile request: handle_compile_connection announces it to the channel *)
(* and compiles nothing.                                                    *)
AnnounceCompile(c) ==
  /\ Reads(c, "compile")
  /\ Send("compile")
  /\ UNCHANGED <<handlers, yjs, presence>>

(* A presence message: PresenceManager::update, which creates the entries   *)
(* that are missing.                                                        *)
UpdatePresence(c) ==
  /\ Reads(c, "sync") /\ c \in Sharers
  /\ has_project' = TRUE
  /\ users' = users \cup {c}
  /\ stale' = stale \ {c}
  /\ newcomers' = IF sweep = "Looked" /\ c \notin users THEN newcomers \cup {c} ELSE newcomers
  /\ UNCHANGED <<handlers, relay, yjs, sweep>>

(* The socket fails: nothing is read from it or sent on it any more. *)
Break(c) ==
  /\ phase[c] \in {"Open", "Storing"} /\ c \notin broken
  /\ broken' = broken \cup {c}
  /\ UNCHANGED <<phase, route, connections, relay, yjs, presence>>

(* The forwarder: recv, and the send to the client.  It ends for good when  *)
(* it has lagged behind the channel or the send fails; the handler does not *)
(* notice.                                                                  *)
Receive(c) ==
  /\ forward[c] = "Receiving"
  /\ taken[c] < Messages(c) /\ ~Lagging(c)
  /\ taken' = [taken EXCEPT ![c] = @ + 1]
  /\ forward' = [forward EXCEPT ![c] = "Sending"]
  /\ UNCHANGED <<handlers, messages, joined, sent, yjs, presence>>

(* Slip of Lag: the forwarder goes on with what the channel retains. *)
LagOn(c) ==
  /\ forward[c] = "Receiving"
  /\ Lagging(c)
  /\ taken' = [taken EXCEPT ![c] = Messages(c) - Capacity]
  /\ UNCHANGED <<handlers, messages, joined, forward, sent, yjs, presence>>

Lag(c) ==
  /\ forward[c] = "Receiving"
  /\ Lagging(c)
  /\ forward' = [forward EXCEPT ![c] = "Ended"]
  /\ UNCHANGED <<handlers, messages, joined, taken, sent, yjs, presence>>

(* Slip of Deliver: the forwarder ends after a message. *)
DeliverOnce(c) ==
  /\ forward[c] = "Sending" /\ c \notin broken
  /\ sent' = [sent EXCEPT ![c] = Append(@, taken[c])]
  /\ forward' = [forward EXCEPT ![c] = "Ended"]
  /\ UNCHANGED <<handlers, messages, joined, taken, yjs, presence>>

Deliver(c) ==
  /\ forward[c] = "Sending" /\ c \notin broken
  /\ sent' = [sent EXCEPT ![c] = Append(@, taken[c])]
  /\ forward' = [forward EXCEPT ![c] = "Receiving"]
  /\ UNCHANGED <<handlers, messages, joined, taken, yjs, presence>>

DeliverFails(c) ==
  /\ forward[c] = "Sending" /\ c \in broken
  /\ forward' = [forward EXCEPT ![c] = "Ended"]
  /\ UNCHANGED <<handlers, messages, joined, taken, sent, yjs, presence>>

(* The handler has read Close, an error or the end of the stream, and       *)
(* aborts the forwarder.                                                    *)
Close(c) ==
  /\ Goes(c, "Open", IF route[c] = "sync" THEN "Closing" ELSE "Out")
  /\ broken' = broken \ {c}
  /\ joined' = [joined EXCEPT ![c] = 0]
  /\ taken' = [taken EXCEPT ![c] = 0]
  /\ forward' = [forward EXCEPT ![c] = "None"]
  /\ sent' = [sent EXCEPT ![c] = <<>>]
  /\ route' = [route EXCEPT ![c] = "sync"]
  /\ UNCHANGED <<connections, messages, yjs, presence>>

(* Slip of Leave: only clients whose last update still stands are removed.  *)
LeaveUnlessStale(c) ==
  /\ Goes(c, "Closing", "Out")
  /\ users' = IF c \in stale THEN users ELSE users \ {c}
  /\ connections' = connections \ {c}
  /\ UNCHANGED <<route, broken, relay, yjs, has_project, stale, sweep, newcomers>>

(* A sync handler then removes its presence and its registration. *)
Leave(c) ==
  /\ Goes(c, "Closing", "Out")
  /\ users' = users \ {c}
  /\ stale' = stale \ {c}
  /\ connections' = connections \ {c}
  /\ UNCHANGED <<route, broken, relay, yjs, has_project, sweep, newcomers>>

(* A user has sent no presence message for longer than the timeout. *)
GrowStale(c) ==
  /\ c \in users \ stale
  /\ stale' = stale \cup {c}
  /\ UNCHANGED <<handlers, relay, yjs, has_project, users, sweep, newcomers>>

(* cleanup_stale keeps the map's shard locked against update from its look  *)
(* at the entries to the last removal.                                      *)
CleanupStale ==
  /\ stale # {}
  /\ users' = users \ stale
  /\ stale' = {}
  /\ UNCHANGED <<handlers, relay, yjs, has_project, sweep, newcomers>>

(* Slip of LookForEmpty: a project where nobody is active counts as empty. *)
LookForInactive ==
  /\ sweep = "Idle"
  /\ has_project /\ users \subseteq stale
  /\ sweep' = "Looked"
  /\ UNCHANGED <<handlers, relay, yjs, has_project, users, stale, newcomers>>

(* cleanup_empty_projects looks for empty projects first, and removes them  *)
(* later, without looking again.                                            *)
LookForEmpty ==
  /\ sweep = "Idle"
  /\ has_project /\ users = {}
  /\ sweep' = "Looked"
  /\ UNCHANGED <<handlers, relay, yjs, has_project, users, stale, newcomers>>

DropProject ==
  /\ sweep = "Looked"
  /\ sweep' = "Idle"
  /\ has_project' = FALSE
  /\ users' = {}
  /\ stale' = {}
  /\ newcomers' = {}
  /\ UNCHANGED <<handlers, relay, yjs>>

-----------------------------------------------------------------------------
Forwarding(c) == Receive(c) \/ Lag(c) \/ Deliver(c) \/ DeliverFails(c)

(* What a handler does without a message from its client. *)
Handling(c) == StoreSnapshot(c) \/ (Close(c) /\ c \in broken) \/ Leave(c)

Next ==
  \/ \E c \in Clients :
       \/ \E r \in Routes : Connect(c, r)
       \/ Broadcast(c) \/ AnnounceCompile(c) \/ UpdatePresence(c)
       \/ StoreSnapshot(c) \/ Break(c) \/ Close(c) \/ Leave(c)
       \/ Forwarding(c)
       \/ GrowStale(c)
  \/ CleanupStale \/ LookForEmpty \/ DropProject

Spec == Init /\ [][Next]_vars

(* The runtime polls both tasks of a connection; a failed socket makes the  *)
(* handler's next read fail.  Nobody must connect, write or sweep.          *)
Fairness == \A c \in Clients : WF_vars(Forwarding(c)) /\ WF_vars(Handling(c))

FairSpec == Spec /\ Fairness

-----------------------------------------------------------------------------
(* Properties *)

TypeOK ==
  /\ phase \in [Clients -> Phases] /\ route \in [Clients -> Routes]
  /\ broken \subseteq Clients /\ connections \subseteq Clients
  /\ messages \in [Routes -> Nat]
  /\ joined \in [Clients -> Nat] /\ taken \in [Clients -> Nat]
  /\ forward \in [Clients -> Forwards] /\ sent \in [Clients -> Seq(Nat)]
  /\ storing \in [Clients -> Nat] /\ snapshot \in Nat
  /\ has_project \in BOOLEAN
  /\ users \subseteq Clients /\ (users # {} => has_project)
  /\ stale \subseteq users /\ newcomers \subseteq Clients
  /\ sweep \in {"Idle", "Looked"}

Abstract ==
  INSTANCE OrderedRelay WITH Channels <- Routes, total <- messages, at <- route,
                             from <- joined, heard <- sent

(* sync.rs: "It relays Yjs updates between connected clients without        *)
(* transforming them".  Clients of a channel hear the same messages in the  *)
(* same order and without a gap: a client too slow for the channel falls    *)
(* silent, it never hears what comes after what it has missed.              *)
ImplementsOrderedRelay == Abstract!Spec

(* A client hears every message that is sent while it is connected, unless  *)
(* its socket fails, it leaves, or its forwarder is more than a channel's   *)
(* capacity behind.                                                         *)
EveryMessageIsHeard ==
  \A c \in Clients : \A i \in 1 .. MaxMessages :
    (forward[c] # "None" /\ joined[c] < i /\ i <= Messages(c)) ~>
      \/ joined[c] + Len(sent[c]) >= i
      \/ forward[c] = "None" \/ c \in broken \/ Lagging(c)

(* No ghost cursor: whoever is listed as present has a registered sync      *)
(* connection whose handler will still remove the presence, however the     *)
(* connection ends and whatever sweeps do in the meantime.                  *)
PresenceHasConnection ==
  \A c \in users : phase[c] # "Out" /\ route[c] = "sync" /\ c \in connections

(* Sweeps leave active users alone: a user who is listed and not stale      *)
(* stays listed until the connection closes - but for one who came between  *)
(* the look of cleanup_empty_projects for empty projects and its removal of *)
(* them.                                                                    *)
ActiveUsersStay ==
  [][\A c \in users \ stale :
       c \in users' \/ phase[c] = "Closing" \/ (sweep = "Looked" /\ c \in newcomers)]_vars
=============================================================================
