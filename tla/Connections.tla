------------------------------ MODULE Connections ------------------------------
(***************************************************************************)
(* How requests come to the RTSP server (src/py_src): the sockets that the  *)
(* service inherits from systemd or opens itself (__main__, sd_listener,    *)
(* rtsp_server), and the stream of bytes of a connection, from which        *)
(* RtspConnection.read() takes one request at a time.  TCP cuts the stream  *)
(* wherever it likes.  What a request asks is RtspServer's subject.         *)
(***************************************************************************)
EXTENDS Integers, SequencesExt

CONSTANTS
    Clients,
    Units,      \* the sockets that systemd may hand over: sequences of sockets
    Script,     \* Script[c]: the requests that c writes, sequences of lines
    Window,     \* requests that a client writes without waiting for answers
    RecvMax,    \* what one recv() takes: 512 bytes
    CR, LF      \* no lines

(* Sockets are told apart by their family.                                  *)
SocketType == {"inet", "inet6"}

(* A line counts as one byte.                                               *)
Lines == UNION {UNION {Range(r) : r \in Range(Script[c])} : c \in Clients}

ASSUME ConnectionsAssumption ==
    /\ Units \subseteq Seq(SocketType) /\ \A u \in Units : Len(u) <= 2
    /\ Window \in Nat \ {0} /\ RecvMax \in Nat \ {0}
    /\ CR # LF /\ {CR, LF} \cap Lines = {}
    /\ \A c \in Clients :
          Script[c] \in Seq(Seq(Lines)) /\ \A r \in Range(Script[c]) : r # <<>>

VARIABLES
    unit,       \* the sockets that systemd hands over, if any
    up,         \* whether the service is in wait_and_process
    sockets,    \* the listening sockets
    sockV4, sockV6,   \* which of them the server has in either slot, or 0
    conn,       \* conn[c]: "away", "backlog", "open" or "ended"
    at,         \* at[c]: the listening socket that c has connected to, or 0
    sent,       \* sent[c]: how many requests c has written
    gone,       \* clients that have closed their end
    wire,       \* wire[c]: bytes written and not yet received
    read_buf,   \* read_buf[c]: bytes received of an incomplete request
    parsed      \* parsed[c]: what parse_request was called with

listeners == <<unit, up, sockets, sockV4, sockV6>>
streams   == <<sent, gone, wire, read_buf, parsed>>
vars      == <<listeners, conn, at, streams>>

Blank == <<CR, LF, CR, LF>>

(* A request as it is written: its lines and an empty one.                  *)
Bytes(r) == FlattenSeq([i \in DOMAIN r |-> <<r[i], CR, LF>>]) \o <<CR, LF>>

Byte == Lines \cup {CR, LF}

TypeOK ==
    /\ unit \in Units
    /\ up \in BOOLEAN
    /\ sockets \in Seq(SocketType) /\ Len(sockets) <= 2
    /\ {sockV4, sockV6} \subseteq 0 .. Len(sockets)
    /\ conn \in [Clients -> {"away", "backlog", "open", "ended"}]
    /\ at \in [Clients -> 0 .. 2]
    /\ sent \in [Clients -> Nat]
    /\ gone \subseteq Clients
    /\ wire \in [Clients -> Seq(Byte)]
    /\ read_buf \in [Clients -> Seq(Byte)]
    /\ parsed \in [Clients -> Seq(Seq(Byte))]

Init ==
    /\ unit \in Units
    /\ up = FALSE
    /\ sockets = unit
    /\ sockV4 = 0 /\ sockV6 = 0
    /\ conn = [c \in Clients |-> "away"]
    /\ at = [c \in Clients |-> 0]
    /\ sent = [c \in Clients |-> 0]
    /\ gone = {}
    /\ wire = [c \in Clients |-> <<>>]
    /\ read_buf = [c \in Clients |-> <<>>]
    /\ parsed = [c \in Clients |-> <<>>]

(***************************************************************************)
(* Clients                                                                  *)
(***************************************************************************)
Connect(c) ==
    /\ conn[c] = "away"
    /\ \E i \in DOMAIN sockets : at' = [at EXCEPT ![c] = i]
    /\ conn' = [conn EXCEPT ![c] = "backlog"]
    /\ UNCHANGED <<listeners, streams>>

Write(c) ==
    /\ conn[c] \in {"backlog", "open"} /\ c \notin gone
    /\ sent[c] < Len(Script[c])
    /\ sent[c] - Len(parsed[c]) < Window
    /\ sent' = [sent EXCEPT ![c] = @ + 1]
    /\ wire' = [wire EXCEPT ![c] = @ \o Bytes(Script[c][sent[c] + 1])]
    /\ UNCHANGED <<listeners, conn, at, gone, read_buf, parsed>>

Leave(c) ==
    /\ conn[c] \in {"backlog", "open"}
    /\ gone' = gone \cup {c}
    /\ UNCHANGED <<listeners, conn, at, sent, wire, read_buf, parsed>>

(***************************************************************************)
(* The service                                                              *)
(***************************************************************************)
(* Mutant of Slots: the second socket is lost when the slots are swapped.   *)
Slots_Lost(socks) ==
    IF socks[1] = "inet" THEN [v4 |-> 1, v6 |-> 0]
    ELSE [v4 |-> Len(socks) - 1, v6 |-> 1]

(* Mutant of Slots: a second socket is taken to be there.                   *)
Slots_TwoAssumed(socks) ==
    IF socks[1] = "inet" THEN [v4 |-> 1, v6 |-> 2]
    ELSE [v4 |-> 2, v6 |-> 1]

(* main(): the first inherited socket takes the slot of its family, and the *)
(* second what is left, whatever it is.                                     *)
Slots(socks) ==
    LET second == IF Len(socks) = 2 THEN 2 ELSE 0
    IN  IF socks[1] = "inet" THEN [v4 |-> 1, v6 |-> second]
        ELSE [v4 |-> second, v6 |-> 1]

(* Sockets of its own, when the service is started without any: at port     *)
(* 554, or at 8554 without the privilege for it.                            *)
OwnSockets == <<"inet", "inet6">>

(* systemd starts the service for the first client that waits, and has the  *)
(* inherited sockets outlive it.                                            *)
Activate ==
    /\ ~up /\ unit # <<>>
    /\ \E c \in Clients : conn[c] = "backlog"
    /\ up' = TRUE
    /\ sockV4' = Slots(sockets).v4 /\ sockV6' = Slots(sockets).v6
    /\ UNCHANGED <<unit, sockets, conn, at, streams>>

StartByHand ==
    /\ ~up /\ unit = <<>>
    /\ up' = TRUE
    /\ sockets' = OwnSockets
    /\ sockV4' = 1 /\ sockV6' = 2
    /\ UNCHANGED <<unit, conn, at, streams>>

(* An exception in the loop, or a signal, ends the service and with it the  *)
(* connections that it has accepted.  What waits at an inherited socket     *)
(* goes on waiting.                                                         *)
ServiceEnds ==
    LET lost == {c \in Clients : conn[c] = "open" \/ (conn[c] = "backlog" /\ unit = <<>>)} IN
    /\ up' = FALSE
    /\ sockets' = unit
    /\ sockV4' = 0 /\ sockV6' = 0
    /\ conn' = [c \in Clients |-> IF c \in lost THEN "ended" ELSE conn[c]]
    /\ wire' = [c \in Clients |-> IF c \in lost THEN <<>> ELSE wire[c]]
    /\ read_buf' = [c \in Clients |-> IF c \in lost THEN <<>> ELSE read_buf[c]]
    /\ UNCHANGED <<unit, at, sent, gone, parsed>>

(* A service that systemd has started and that has accepted nobody yet is   *)
(* not killed: one that is killed for ever serves nobody.                   *)
Killed ==
    /\ up
    /\ unit = <<>> \/ \E c \in Clients : conn[c] = "open"
    /\ ServiceEnds

(* The poll loop, for a socket that is in one of its slots.                 *)
Accept(c) ==
    /\ up /\ conn[c] = "backlog" /\ at[c] \in {sockV4, sockV6}
    /\ conn' = [conn EXCEPT ![c] = "open"]
    /\ UNCHANGED <<listeners, at, streams>>

(* close(): what was not yet received is lost.                              *)
Close(c) ==
    /\ conn' = [conn EXCEPT ![c] = "ended"]
    /\ wire' = [wire EXCEPT ![c] = <<>>]
    /\ read_buf' = [read_buf EXCEPT ![c] = <<>>]

(* Mutant of Complete: the end of any line will do.                         *)
Complete_Line(buf) == Len(buf) >= 2 /\ SubSeq(buf, Len(buf) - 1, Len(buf)) = <<CR, LF>>

(* The last four bytes.                                                     *)
Complete(buf) == Len(buf) >= 4 /\ SubSeq(buf, Len(buf) - 3, Len(buf)) = Blank

(* parse_request splits every line but the first at a colon, and raises an  *)
(* exception at an empty one: the end of a request inside the buffer.       *)
Merged(buf) == \E i \in 1 .. Len(buf) - 4 : SubSeq(buf, i, i + 3) = Blank

(* Mutant of Keep: a complete request stays in the buffer.                  *)
Keep_All(buf) == buf

(* What read() leaves in read_buf.                                          *)
Keep(buf) == IF Complete(buf) THEN <<>> ELSE buf

(* Some of what has arrived.  The handler's answer keeps the connection or  *)
(* ends it.                                                                 *)
Read(c) ==
    /\ up /\ conn[c] = "open"
    /\ \E n \in 1 .. Len(wire[c]) :
          LET buf  == read_buf[c] \o SubSeq(wire[c], 1, n)
              rest == SubSeq(wire[c], n + 1, Len(wire[c]))
          IN
          /\ n <= RecvMax
          /\ \/ /\ ~Complete(buf)
                /\ read_buf' = [read_buf EXCEPT ![c] = Keep(buf)]
                /\ wire' = [wire EXCEPT ![c] = rest]
                /\ UNCHANGED <<listeners, conn, at, sent, gone, parsed>>
             \/ /\ Complete(buf) /\ Merged(buf)
                /\ ServiceEnds
             \/ /\ Complete(buf) /\ ~Merged(buf)
                /\ parsed' = [parsed EXCEPT ![c] = Append(@, buf)]
                /\ \/ /\ read_buf' = [read_buf EXCEPT ![c] = Keep(buf)]
                      /\ wire' = [wire EXCEPT ![c] = rest]
                      /\ UNCHANGED conn
                   \/ Close(c)
                /\ UNCHANGED <<listeners, at, sent, gone>>

(* recv() returns nothing when the client has closed its end.               *)
ReadEof(c) ==
    /\ up /\ conn[c] = "open" /\ wire[c] = <<>> /\ c \in gone
    /\ Close(c)
    /\ UNCHANGED <<listeners, at, sent, gone, parsed>>

Next ==
    \/ Activate \/ StartByHand \/ Killed
    \/ \E c \in Clients :
        \/ Connect(c) \/ Write(c) \/ Leave(c)
        \/ Accept(c) \/ Read(c) \/ ReadEof(c)

(* systemd activates, and a round of the poll loop serves every descriptor  *)
(* that is ready.                                                           *)
Fairness ==
    /\ WF_vars(Activate)
    /\ \A c \in Clients : WF_vars(Accept(c)) /\ WF_vars(Read(c)) /\ WF_vars(ReadEof(c))

Spec == Init /\ [][Next]_vars /\ Fairness

(***************************************************************************)
(* Properties                                                               *)
(***************************************************************************)
Unparsed(c) ==
    IF conn[c] = "ended" THEN <<>>
    ELSE [i \in 1 .. sent[c] - Len(parsed[c]) |-> Bytes(Script[c][Len(parsed[c]) + i])]

(* What is left to parse starts where a request starts: the bytes kept and  *)
(* the bytes to come are those of the requests written and not yet parsed.  *)
StreamInStep ==
    \A c \in Clients :
        conn[c] \in {"backlog", "open"} => read_buf[c] \o wire[c] = FlattenSeq(Unparsed(c))

(* The handlers see the clients' requests whole, once and in order, however *)
(* TCP cuts the stream and however many a client writes ahead.  Two that    *)
(* are received together are never taken for one, nor the second dropped:   *)
(* the service ends instead.                                                *)
Channel ==
    INSTANCE RequestChannel
    WITH Requests <- UNION {{Bytes(r) : r \in Range(Script[c])} : c \in Clients},
         coming   <- [c \in Clients |-> Unparsed(c)],
         handled  <- parsed

ImplementsChannel == Channel!Spec

(* A request that was written is parsed, or its connection ends: no socket  *)
(* is left unpolled and no request waits for bytes that have arrived.       *)
RequestsParsed ==
    \A c \in Clients : \A k \in DOMAIN Script[c] :
        sent[c] = k ~> (Len(parsed[c]) >= k \/ conn[c] = "ended")
===============================================================================
