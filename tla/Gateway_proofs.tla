---------------------------- MODULE Gateway_proofs ----------------------------
(***************************************************************************)
(* Proofs about Gateway for any clients, any capacity of the channels and  *)
(* any number of messages: presence has a connection, sweeps spare active  *)
(* users, and the relay implements OrderedRelay.                           *)
(***************************************************************************)
EXTENDS Gateway, TLAPS

LEMMA Literals == "sync" \in Routes /\ "compile" \in Routes
  BY DEF Routes

-----------------------------------------------------------------------------
(* Types.  A step of the relay, of a handler or of the presence has a lemma *)
(* of its own.                                                              *)
LEMMA TypesOfHandlers ==
  ASSUME TypeOK, NEW c \in Clients,
         \/ \E r \in Routes : Connect(c, r)
         \/ StoreSnapshot(c) \/ Break(c) \/ Close(c) \/ Leave(c)
  PROVE  TypeOK'
<1> USE DEF TypeOK, Phases, Forwards, Goes
<1>1. ASSUME NEW r \in Routes, Connect(c, r)
      PROVE  TypeOK'
  BY <1>1 DEF Connect, yjs, presence
<1>2. CASE StoreSnapshot(c)
  BY <1>2 DEF StoreSnapshot, relay, receiver, presence, None
<1>3. CASE Break(c)
  BY <1>3 DEF Break, relay, receiver, yjs, presence
<1>4. CASE Close(c)
  BY <1>4 DEF Close, Routes, yjs, presence
<1>5. CASE Leave(c)
  BY <1>5 DEF Leave, relay, receiver, yjs
<1>6. QED
  BY <1>1, <1>2, <1>3, <1>4, <1>5

LEMMA TypesOfRelay ==
  ASSUME TypeOK, NEW c \in Clients,
         Broadcast(c) \/ AnnounceCompile(c) \/ Forwarding(c)
  PROVE  TypeOK'
<1> USE DEF TypeOK, Phases, Forwards, Goes, yjs, presence, handlers, receiver
<1>1. CASE Broadcast(c)
  BY <1>1, Literals DEF Broadcast, Send
<1>2. CASE AnnounceCompile(c)
  BY <1>2, Literals DEF AnnounceCompile, Send
<1>3. CASE Receive(c)
  BY <1>3 DEF Receive
<1>4. CASE Lag(c)
  BY <1>4 DEF Lag
<1>5. CASE Deliver(c)
  BY <1>5 DEF Deliver
<1>6. CASE DeliverFails(c)
  BY <1>6 DEF DeliverFails
<1>7. QED
  BY <1>1, <1>2, <1>3, <1>4, <1>5, <1>6 DEF Forwarding

LEMMA TypesOfPresence ==
  ASSUME TypeOK,
         \/ \E c \in Clients : UpdatePresence(c) \/ GrowStale(c)
         \/ CleanupStale \/ LookForEmpty \/ DropProject
  PROVE  TypeOK'
<1> USE DEF TypeOK, handlers, relay, receiver, yjs
<1>1. ASSUME NEW c \in Clients, UpdatePresence(c)
      PROVE  TypeOK'
  BY <1>1 DEF UpdatePresence
<1>2. ASSUME NEW c \in Clients, GrowStale(c)
      PROVE  TypeOK'
  BY <1>2 DEF GrowStale
<1>3. CASE CleanupStale
  BY <1>3 DEF CleanupStale
<1>4. CASE LookForEmpty
  BY <1>4 DEF LookForEmpty
<1>5. CASE DropProject
  BY <1>5 DEF DropProject
<1>6. QED
  BY <1>1, <1>2, <1>3, <1>4, <1>5

LEMMA TypeInductive == TypeOK /\ [Next]_vars => TypeOK'
<1> SUFFICES ASSUME TypeOK, [Next]_vars
             PROVE  TypeOK'
  OBVIOUS
<1>1. CASE Next
  BY <1>1, TypesOfHandlers, TypesOfRelay, TypesOfPresence DEF Next
<1>2. CASE UNCHANGED vars
  BY <1>2 DEF vars, handlers, relay, receiver, yjs, presence, TypeOK
<1>3. QED
  BY <1>1, <1>2

(* The gateway's state has its types, and its stale users are users of a    *)
(* project that is there.                                                   *)
THEOREM TypeCorrect == Spec => []TypeOK
<1>1. Init => TypeOK
  <2>1. Init => has_project \in BOOLEAN
    BY Zenon DEF Init
  <2>2. QED
    BY <2>1, Literals DEF Init, TypeOK, Phases, Forwards, None
<1>2. QED
  BY <1>1, TypeInductive, PTL DEF Spec

-----------------------------------------------------------------------------
(* Presence.  Users are clients of the sync route, which are connected and  *)
(* registered; and whoever came since the sweep looked is a newcomer.       *)
SyncIsRegistered ==
  \A c \in Clients : phase[c] # "Out" /\ route[c] = "sync" => c \in connections

UsersAreNewcomers == sweep = "Looked" => users \subseteq newcomers

PresenceInv ==
  /\ TypeOK
  /\ SyncIsRegistered
  /\ PresenceHasConnection
  /\ UsersAreNewcomers

LEMMA PresenceInductive == PresenceInv /\ [Next]_vars => PresenceInv'
<1> SUFFICES ASSUME PresenceInv, [Next]_vars
             PROVE  PresenceInv'
  OBVIOUS
<1>1. TypeOK /\ TypeOK'
  BY TypeInductive DEF PresenceInv
<1> USE <1>1 DEF PresenceInv, SyncIsRegistered, PresenceHasConnection, UsersAreNewcomers
<1>2. ASSUME NEW c \in Clients, NEW r \in Routes, Connect(c, r)
      PROVE  PresenceInv'
  BY <1>2 DEF Connect, Goes, presence, TypeOK
<1>3. ASSUME NEW c \in Clients, Broadcast(c) \/ AnnounceCompile(c) \/ Forwarding(c)
      PROVE  PresenceInv'
  <2>1. /\ UNCHANGED <<route, connections, presence>>
        /\ \A d \in Clients : phase'[d] = "Out" <=> phase[d] = "Out"
    BY <1>3 DEF Broadcast, AnnounceCompile, Forwarding, Receive, Lag, Deliver, DeliverFails,
                Goes, handlers, TypeOK
  <2>2. QED
    BY <2>1 DEF presence, TypeOK
<1>4. ASSUME NEW c \in Clients, UpdatePresence(c)
      PROVE  PresenceInv'
  BY <1>4 DEF UpdatePresence, Reads, handlers, TypeOK
<1>5. ASSUME NEW c \in Clients, StoreSnapshot(c) \/ Break(c)
      PROVE  PresenceInv'
  <2>1. /\ UNCHANGED <<route, connections, presence>>
        /\ \A d \in Clients : phase'[d] = "Out" <=> phase[d] = "Out"
    BY <1>5 DEF StoreSnapshot, Break, Goes, TypeOK
  <2>2. QED
    BY <2>1 DEF presence, TypeOK
<1>6. ASSUME NEW c \in Clients, Close(c)
      PROVE  PresenceInv'
  <2>1. /\ UNCHANGED <<connections, presence>> /\ route'[c] = "sync"
        /\ phase[c] # "Out" /\ (phase'[c] # "Out" => route[c] = "sync")
        /\ route[c] = "sync" => phase'[c] = "Closing"
        /\ \A d \in Clients \ {c} : phase'[d] = phase[d] /\ route'[d] = route[d]
    BY <1>6 DEF Close, Goes, TypeOK
  <2>2. QED
    BY <2>1 DEF presence, TypeOK
<1>7. ASSUME NEW c \in Clients, Leave(c)
      PROVE  PresenceInv'
  BY <1>7 DEF Leave, Goes, TypeOK
<1>8. ASSUME NEW c \in Clients, GrowStale(c)
      PROVE  PresenceInv'
  BY <1>8 DEF GrowStale, handlers, TypeOK
<1>9. CASE CleanupStale \/ LookForEmpty \/ DropProject
  BY <1>9 DEF CleanupStale, LookForEmpty, DropProject, handlers, TypeOK
<1>10. CASE UNCHANGED vars
  BY <1>10 DEF vars, handlers, presence, TypeOK
<1>11. QED
  BY <1>2, <1>3, <1>4, <1>5, <1>6, <1>7, <1>8, <1>9, <1>10 DEF Next

THEOREM PresenceInvCorrect == Spec => []PresenceInv
<1>1. Init => SyncIsRegistered /\ PresenceHasConnection /\ UsersAreNewcomers
  BY DEF Init, SyncIsRegistered, PresenceHasConnection, UsersAreNewcomers
<1>2. TypeOK /\ SyncIsRegistered /\ PresenceHasConnection /\ UsersAreNewcomers <=> PresenceInv
  BY DEF PresenceInv
<1>3. QED
  BY <1>1, <1>2, TypeCorrect, PresenceInductive, PTL DEF Spec

(* No ghost cursor, for any number of clients: a listed user has a          *)
(* registered sync connection that will remove it.                          *)
THEOREM PresenceHasConnectionCorrect == Spec => []PresenceHasConnection
<1>1. PresenceInv => PresenceHasConnection
  BY DEF PresenceInv
<1>2. QED
  BY <1>1, PresenceInvCorrect, PTL

(* Sweeps leave the users alone who are active and were not newcomers       *)
(* between the look for empty projects and their removal.                   *)
StaysUnlessClosing ==
  \A c \in users \ stale :
    c \in users' \/ phase[c] = "Closing" \/ (sweep = "Looked" /\ c \in newcomers)

THEOREM ActiveUsersStayCorrect == Spec => ActiveUsersStay
<1>1. PresenceInv /\ [Next]_vars => [StaysUnlessClosing]_vars
  <2> SUFFICES ASSUME PresenceInv, Next
               PROVE  StaysUnlessClosing
    OBVIOUS
  <2> USE DEF StaysUnlessClosing
  <2>1. ASSUME NEW c \in Clients,
               \/ \E r \in Routes : Connect(c, r)
               \/ Broadcast(c) \/ AnnounceCompile(c) \/ StoreSnapshot(c) \/ Break(c) \/ Close(c)
               \/ Forwarding(c) \/ GrowStale(c)
        PROVE  StaysUnlessClosing
    <3>1. users' = users
      BY <2>1 DEF Connect, Broadcast, AnnounceCompile, StoreSnapshot, Break, Close, Forwarding,
                  Receive, Lag, Deliver, DeliverFails, GrowStale, presence
    <3>2. QED
      BY <3>1
  <2>2. ASSUME NEW c \in Clients, UpdatePresence(c)
        PROVE  StaysUnlessClosing
    BY <2>2 DEF UpdatePresence
  <2>3. ASSUME NEW c \in Clients, Leave(c)
        PROVE  StaysUnlessClosing
    BY <2>3 DEF Leave, Goes
  <2>4. CASE CleanupStale
    BY <2>4 DEF CleanupStale
  <2>5. CASE LookForEmpty
    BY <2>5 DEF LookForEmpty
  <2>6. CASE DropProject
    BY <2>6 DEF DropProject, PresenceInv, UsersAreNewcomers
  <2>7. QED
    BY <2>1, <2>2, <2>3, <2>4, <2>5, <2>6 DEF Next
<1>2. QED
  BY <1>1, PresenceInvCorrect, PTL DEF Spec, ActiveUsersStay, StaysUnlessClosing

-----------------------------------------------------------------------------
(* The relay.  While a client's forwarder receives, it has sent on whatever *)
(* it has taken since it subscribed; while it sends, all but the last,      *)
(* which the channel has.  A client without a forwarder has been sent       *)
(* nothing.                                                                 *)
ForwarderOf(c) ==
  /\ phase[c] \in {"Out", "Closing"} => forward[c] = "None" /\ sent[c] = <<>>
  /\ forward[c] = "Receiving" => taken[c] = joined[c] + Len(sent[c])
  /\ forward[c] = "Sending" => /\ taken[c] = joined[c] + Len(sent[c]) + 1
                              /\ taken[c] <= messages[route[c]]

RelayInv == TypeOK /\ \A c \in Clients : ForwarderOf(c)

LEMMA RelayInductive == RelayInv /\ [Next]_vars => RelayInv'
<1> SUFFICES ASSUME RelayInv, [Next]_vars
             PROVE  RelayInv'
  OBVIOUS
<1>1. TypeOK /\ TypeOK'
  BY TypeInductive DEF RelayInv
<1>2. SUFFICES ASSUME NEW d \in Clients
               PROVE  ForwarderOf(d)'
  BY <1>1 DEF RelayInv
<1>3. ForwarderOf(d)
  BY DEF RelayInv
<1>4. ASSUME UNCHANGED <<route[d], joined[d], taken[d], forward[d], sent[d]>>,
             phase'[d] \in {"Out", "Closing"} => phase[d] \in {"Out", "Closing"},
             messages'[route[d]] >= messages[route[d]]
      PROVE  ForwarderOf(d)'
  BY <1>1, <1>3, <1>4 DEF ForwarderOf, TypeOK
<1>5. ASSUME NEW c \in Clients, NEW r \in Routes, Connect(c, r)
      PROVE  ForwarderOf(d)'
  <2>1. CASE c = d
    <3>1. /\ phase'[d] = "Open" /\ forward'[d] = "Receiving" /\ joined'[d] = messages[r]
          /\ taken'[d] = messages[r] /\ sent'[d] = <<>> /\ messages[r] \in Nat
      BY <1>1, <1>3, <1>5, <2>1 DEF Connect, Goes, ForwarderOf, TypeOK
    <3>2. QED
      BY <3>1 DEF ForwarderOf
  <2>2. CASE c # d
    BY <1>1, <1>4, <1>5, <2>2 DEF Connect, Goes, TypeOK
  <2>3. QED
    BY <2>1, <2>2
<1>6. ASSUME NEW c \in Clients, Broadcast(c) \/ AnnounceCompile(c)
      PROVE  ForwarderOf(d)'
  <2>1. UNCHANGED <<route, joined, taken, forward, sent>>
    BY <1>6, Zenon DEF Broadcast, AnnounceCompile, Send, receiver, handlers
  <2>2. phase'[d] \in {"Out", "Closing"} => phase[d] \in {"Out", "Closing"}
    BY <1>1, <1>6 DEF Broadcast, AnnounceCompile, Goes, handlers, TypeOK
  <2>3. messages'[route[d]] >= messages[route[d]]
    <3>1. \A r \in Routes : messages[r] \in Nat /\ messages[r] + 1 >= messages[r]
      BY <1>1 DEF TypeOK
    <3>2. messages \in [Routes -> Nat] /\ route[d] \in Routes
      BY <1>1 DEF TypeOK
    <3>3. \/ messages' = [messages EXCEPT !["sync"] = @ + 1]
          \/ messages' = [messages EXCEPT !["compile"] = @ + 1]
      BY <1>6 DEF Broadcast, AnnounceCompile, Send
    <3>4. messages[route[d]] >= messages[route[d]]
      BY <3>1, <3>2
    <3>5. QED
      BY <3>1, <3>2, <3>3, <3>4
  <2>4. QED
    BY <1>4, <2>1, <2>2, <2>3
<1>7. ASSUME NEW c \in Clients,
             UpdatePresence(c) \/ StoreSnapshot(c) \/ Break(c) \/ GrowStale(c) \/ Leave(c)
      PROVE  ForwarderOf(d)'
  <2>1. UNCHANGED <<route, messages, joined, taken, forward, sent>>
    BY <1>7, Zenon DEF UpdatePresence, StoreSnapshot, Break, GrowStale, Leave, handlers, relay, receiver
  <2>2. phase'[d] \in {"Out", "Closing"} => phase[d] \in {"Out", "Closing"}
    BY <1>1, <1>7 DEF UpdatePresence, StoreSnapshot, Break, GrowStale, Leave, Goes, handlers, TypeOK
  <2>3. messages[route[d]] \in Nat
    BY <1>1 DEF TypeOK
  <2>4. QED
    BY <1>4, <2>1, <2>2, <2>3
<1>9. ASSUME NEW c \in Clients, Close(c)
      PROVE  ForwarderOf(d)'
  BY <1>1, <1>3, <1>4, <1>9 DEF Close, Goes, TypeOK, ForwarderOf
<1>10. ASSUME NEW c \in Clients, Forwarding(c)
       PROVE  ForwarderOf(d)'
  <2> USE DEF ForwarderOf, handlers, TypeOK
  <2>1. CASE Receive(c)
    <3>1. CASE c = d
      <4>1. /\ phase'[d] = phase[d] /\ sent'[d] = sent[d] /\ joined'[d] = joined[d]
            /\ messages'[route'[d]] = messages[route[d]]
            /\ taken'[d] = taken[d] + 1 /\ taken[d] < messages[route[d]]
            /\ forward[d] = "Receiving" /\ forward'[d] = "Sending"
        BY <1>1, <2>1, <3>1 DEF Receive, Messages
      <4>2. /\ taken[d] \in Nat /\ joined[d] \in Nat /\ Len(sent[d]) \in Nat
            /\ messages[route[d]] \in Nat
        BY <1>1
      <4>3. QED
        BY <1>3, <4>1, <4>2
    <3>2. CASE c # d
      BY <1>1, <1>4, <2>1, <3>2 DEF Receive
    <3>3. QED
      BY <3>1, <3>2
  <2>2. CASE Lag(c) \/ DeliverFails(c)
    BY <1>1, <1>3, <2>2 DEF Lag, DeliverFails
  <2>3. CASE Deliver(c)
    <3>1. CASE c = d
      <4>1. /\ phase'[d] = phase[d] /\ joined'[d] = joined[d] /\ taken'[d] = taken[d]
            /\ sent'[d] = Append(sent[d], taken[d]) /\ sent[d] \in Seq(Nat) /\ taken[d] \in Nat
            /\ forward[d] = "Sending" /\ forward'[d] = "Receiving"
        BY <1>1, <2>3, <3>1 DEF Deliver
      <4>2. Len(sent'[d]) = Len(sent[d]) + 1 /\ Len(sent[d]) \in Nat /\ joined[d] \in Nat
        BY <1>1, <4>1
      <4>3. QED
        BY <1>3, <4>1, <4>2
    <3>2. CASE c # d
      BY <1>1, <1>4, <2>3, <3>2 DEF Deliver
    <3>3. QED
      BY <3>1, <3>2
  <2>4. QED
    BY <1>10, <2>1, <2>2, <2>3 DEF Forwarding
<1>11. CASE CleanupStale \/ LookForEmpty \/ DropProject \/ UNCHANGED vars
  <2>1. UNCHANGED <<phase, route, messages, joined, taken, forward, sent>>
    BY <1>11, Zenon DEF CleanupStale, LookForEmpty, DropProject, vars, handlers, relay, receiver
  <2>2. messages[route[d]] \in Nat
    BY <1>1 DEF TypeOK
  <2>3. QED
    BY <1>4, <2>1, <2>2
<1>12. QED
  BY <1>5, <1>6, <1>7, <1>9, <1>10, <1>11 DEF Next

THEOREM RelayInvCorrect == Spec => []RelayInv
<1>1. Init => \A c \in Clients : ForwarderOf(c)
  BY DEF Init, ForwarderOf
<1>2. TypeOK /\ (\A c \in Clients : ForwarderOf(c)) <=> RelayInv
  BY DEF RelayInv
<1>3. QED
  BY <1>1, <1>2, TypeCorrect, RelayInductive, PTL DEF Spec

(* Every step of the gateway is a step of OrderedRelay or changes none of   *)
(* what OrderedRelay speaks of.                                             *)
relayed == <<messages, route, joined, sent>>

LEMMA StepRefines ==
  ASSUME RelayInv, Next
  PROVE  Abstract!Next \/ UNCHANGED relayed
<1>1. TypeOK
  BY DEF RelayInv
<1>2. ASSUME NEW c \in Clients, NEW r \in Routes, Connect(c, r)
      PROVE  Abstract!Join(c, r)
  <2>1. sent[c] = <<>> /\ sent \in [Clients -> Seq(Nat)]
    BY <1>1, <1>2 DEF Connect, Goes, RelayInv, ForwarderOf, TypeOK
  <2>2. sent = [sent EXCEPT ![c] = <<>>]
    BY <2>1
  <2>3. QED
    BY <1>2, <2>2 DEF Connect, Abstract!Join
<1>3. ASSUME NEW c \in Clients, Broadcast(c) \/ AnnounceCompile(c)
      PROVE  Abstract!Publish("sync") \/ Abstract!Publish("compile")
  BY <1>3 DEF Broadcast, AnnounceCompile, Send, receiver, handlers, Abstract!Publish
<1>4. ASSUME NEW c \in Clients, Close(c)
      PROVE  Abstract!Leave(c, "sync")
  BY <1>4 DEF Close, Abstract!Leave
<1>5. ASSUME NEW c \in Clients, Deliver(c)
      PROVE  Abstract!Hear(c)
  <2>1. /\ taken[c] = joined[c] + Len(sent[c]) + 1 /\ taken[c] <= messages[route[c]]
        /\ sent' = [sent EXCEPT ![c] = Append(@, taken[c])]
        /\ UNCHANGED <<messages, route, joined>>
    BY <1>5 DEF Deliver, RelayInv, ForwarderOf, handlers
  <2>2. QED
    BY <2>1 DEF Abstract!Hear
<1>6. ASSUME NEW c \in Clients,
             \/ UpdatePresence(c) \/ StoreSnapshot(c) \/ Break(c) \/ Leave(c) \/ GrowStale(c)
             \/ Receive(c) \/ Lag(c) \/ DeliverFails(c)
      PROVE  UNCHANGED relayed
  BY <1>6, Zenon DEF UpdatePresence, StoreSnapshot, Break, Leave, GrowStale, Receive, Lag, DeliverFails,
                     handlers, relay, receiver, relayed
<1>7. ASSUME CleanupStale \/ LookForEmpty \/ DropProject
      PROVE  UNCHANGED relayed
  BY <1>7, Zenon DEF CleanupStale, LookForEmpty, DropProject, handlers, relay, receiver, relayed
<1>8. QED
  BY <1>2, <1>3, <1>4, <1>5, <1>6, <1>7, Literals DEF Next, Forwarding, Abstract!Next

(* The relay implements OrderedRelay for any clients and any capacity:      *)
(* nobody hears a message twice, out of order or beyond a gap.              *)
THEOREM GatewayImplementsOrderedRelay == Spec => ImplementsOrderedRelay
<1>1. Init => Abstract!Init
  BY Literals DEF Init, Abstract!Init
<1>2. RelayInv /\ [Next]_vars => [Abstract!Next]_relayed
  <2>1. UNCHANGED vars => UNCHANGED relayed
    BY DEF vars, handlers, relay, receiver, relayed
  <2>2. QED
    BY <2>1, StepRefines
<1>3. QED
  BY <1>1, <1>2, RelayInvCorrect, PTL DEF Spec, ImplementsOrderedRelay, Abstract!Spec, relayed
=============================================================================
