----------------------------- MODULE OrderedRelay -----------------------------
(***************************************************************************)
(* What the gateway promises to the clients of a channel: each of them     *)
(* hears an unbroken run of the channel's messages in their order, from    *)
(* the moment it joined on.  How far a client gets is not promised.  A     *)
(* message is named by its place in its channel.                           *)
(***************************************************************************)
EXTENDS Integers, Sequences

CONSTANTS Clients, Channels

VARIABLES total,   \* how many messages have been sent to a channel
          at,      \* the channel a client listens to
          from,    \* how many there were when the client joined
          heard    \* what it has heard since

Init ==
  /\ total = [k \in Channels |-> 0]
  /\ at \in [Clients -> Channels]
  /\ from = [c \in Clients |-> 0]
  /\ heard = [c \in Clients |-> <<>>]

Publish(k) ==
  /\ total' = [total EXCEPT ![k] = @ + 1]
  /\ UNCHANGED <<at, from, heard>>

Join(c, k) ==
  /\ at' = [at EXCEPT ![c] = k]
  /\ from' = [from EXCEPT ![c] = total[k]]
  /\ heard' = [heard EXCEPT ![c] = <<>>]
  /\ UNCHANGED total

Leave(c, k) ==
  /\ at' = [at EXCEPT ![c] = k]
  /\ from' = [from EXCEPT ![c] = 0]
  /\ heard' = [heard EXCEPT ![c] = <<>>]
  /\ UNCHANGED total

Hear(c) ==
  LET next == from[c] + Len(heard[c]) + 1
  IN /\ next <= total[at[c]]
     /\ heard' = [heard EXCEPT ![c] = Append(@, next)]
     /\ UNCHANGED <<total, at, from>>

Next ==
  \/ \E k \in Channels : Publish(k)
  \/ \E c \in Clients : Hear(c) \/ \E k \in Channels : Join(c, k) \/ Leave(c, k)

Spec == Init /\ [][Next]_<<total, at, from, heard>>
=============================================================================
