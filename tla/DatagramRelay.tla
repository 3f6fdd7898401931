--------------------------- MODULE DatagramRelay ---------------------------
(***************************************************************************)
(* What the proxy of a UDP port promises: each client has a line of its    *)
(* own to the engine and back.  Datagrams may be lost on the way, but none *)
(* overtakes another, comes twice, or ends at somebody else.               *)
(***************************************************************************)
EXTENDS Naturals, Sequences, SequencesExt

CONSTANTS Clients, MaxSent

VARIABLES
  sent,      \* number of datagrams each client has sent
  under,     \* those under way to the engine
  arrived,   \* those the engine has received
  back,      \* answers under way
  answered   \* answers each client has received

vars == <<sent, under, arrived, back, answered>>

Init ==
  /\ sent = [c \in Clients |-> 0]
  /\ under = [c \in Clients |-> <<>>]
  /\ arrived = [c \in Clients |-> <<>>]
  /\ back = [c \in Clients |-> <<>>]
  /\ answered = [c \in Clients |-> <<>>]

\* A datagram sets out, or is lost at once.
Send(c) ==
  /\ sent[c] < MaxSent
  /\ sent' = [sent EXCEPT ![c] = @ + 1]
  /\ under' \in {under, [under EXCEPT ![c] = Append(@, <<c, sent[c] + 1>>)]}
  /\ UNCHANGED <<arrived, back, answered>>

Arrive(c) ==
  /\ under[c] # <<>>
  /\ under' = [under EXCEPT ![c] = Tail(@)]
  /\ arrived' = [arrived EXCEPT ![c] = Append(@, Head(under[c]))]
  /\ UNCHANGED <<sent, back, answered>>

\* The first is lost, or all.
Lose(c) ==
  /\ under[c] # <<>>
  /\ \E rest \in {Tail(under[c]), <<>>} : under' = [under EXCEPT ![c] = rest]
  /\ UNCHANGED <<sent, arrived, back, answered>>

\* What has arrived is answered once.
Reply(c) ==
  /\ \E d \in ToSet(arrived[c]) \ (ToSet(back[c]) \cup ToSet(answered[c])) :
       back' = [back EXCEPT ![c] = Append(@, d)]
  /\ UNCHANGED <<sent, under, arrived, answered>>

Return(c) ==
  /\ back[c] # <<>>
  /\ back' = [back EXCEPT ![c] = Tail(@)]
  /\ answered' = [answered EXCEPT ![c] = Append(@, Head(back[c]))]
  /\ UNCHANGED <<sent, under, arrived>>

Next == \E c \in Clients : Send(c) \/ Arrive(c) \/ Lose(c) \/ Reply(c) \/ Return(c)

Spec == Init /\ [][Next]_vars
=============================================================================
