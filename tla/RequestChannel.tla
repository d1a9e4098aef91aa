---------------------------- MODULE RequestChannel ----------------------------
(***************************************************************************)
(* What RtspConnection promises to the handlers of requests, and RtspServer *)
(* takes for granted: a client's requests reach them whole, one by one and  *)
(* in the order in which they were written, until the connection ends.      *)
(***************************************************************************)
EXTENDS Sequences

CONSTANTS
    Clients,
    Requests   \* what a client may write

VARIABLES
    coming,    \* coming[c]: requests written and not yet handled
    handled    \* handled[c]: requests that have been handled

vars == <<coming, handled>>

Init ==
    /\ coming = [c \in Clients |-> <<>>]
    /\ handled = [c \in Clients |-> <<>>]

Send(c) ==
    /\ \E r \in Requests : coming' = [coming EXCEPT ![c] = Append(@, r)]
    /\ UNCHANGED handled

Handle(c) ==
    /\ coming[c] # <<>>
    /\ handled' = [handled EXCEPT ![c] = Append(@, Head(coming[c]))]
    /\ coming' \in {[coming EXCEPT ![c] = Tail(@)], [coming EXCEPT ![c] = <<>>]}

(* Connections end, of one client or of all.                                *)
End(ended) ==
    /\ coming' = [c \in Clients |-> IF c \in ended THEN <<>> ELSE coming[c]]
    /\ UNCHANGED handled

Next ==
    \/ \E c \in Clients : Send(c) \/ Handle(c)
    \/ \E ended \in SUBSET Clients : End(ended)

Spec == Init /\ [][Next]_vars
===============================================================================
