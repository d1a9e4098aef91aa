----------------------------- MODULE RelayStream -----------------------------
(***************************************************************************)
(* What the RTSP front end promises: at most one stream is current.  It     *)
(* starts for a client that holds it, keeps its transport parameters until  *)
(* it ends, and ends when a client that holds it leaves or tears it down.   *)
(* It never runs with nobody holding it.                                    *)
(***************************************************************************)
CONSTANTS
    Clients,
    Params,    \* transport parameters of a stream
    Off        \* no stream, no member of Params

VARIABLES stream, holders

vars == <<stream, holders>>

Init == stream = Off /\ holders = {}

(* SETUP: the client takes a hold of the stream to come.                    *)
Join(c) ==
    /\ holders' = holders \cup {c}
    /\ UNCHANGED stream

(* PLAY: starting again keeps the parameters.                               *)
Start(c) ==
    /\ stream' \in Params
    /\ stream \in {Off, stream'}
    /\ holders' = holders \cup {c}

(* TEARDOWN keeps the client's hold; leaving gives it up.                   *)
Stop(c) ==
    /\ stream' = Off
    /\ holders' \in {holders \cup {c}, holders \ {c}}

(* The service ends.                                                        *)
Shutdown ==
    /\ stream' = Off
    /\ holders' = {}

Next ==
    \/ \E c \in Clients :
        \/ Join(c)
        \/ Start(c)
        \/ Stop(c)
    \/ Shutdown

Spec == Init /\ [][Next]_vars
===============================================================================
