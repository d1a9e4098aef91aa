------------------------------ MODULE RtspServer ------------------------------
(***************************************************************************)
(* The RTSP front end of sound_relay (src/py_src) as systemd runs it: one   *)
(* single-threaded process that serves every client from one poll loop,     *)
(* the one Session object that all connections share, and the relay         *)
(* processes that PLAY forks and TEARDOWN interrupts.                       *)
(*                                                                          *)
(* A step of the server is the handling of one event of its poll loop, as   *)
(* nothing else in that process runs meanwhile.  Clients, the forked        *)
(* children and systemd interleave with it freely.  Each client has at most *)
(* one request on its connection that the server has not read yet.          *)
(***************************************************************************)
EXTENDS Naturals

CONSTANTS
    Clients,     \* RTSP clients, each with at most one TCP connection
    Pids,        \* process ids that the service may use before it restarts
    Addresses,   \* IP addresses, of this host and of the clients
    Unset,       \* an attribute the Session does not have, Python's None
    Seconds,     \* values of int(time.time()) when the service starts
    Link,        \* what a client's connection lets getsockname() and getifaddrs() see
    Asks         \* Asks[c]: the requests that client c may send

(* Link[c] describes the connection of client c: the shape of its local     *)
(* address, whether that address has a scope id (a link-local one), whether *)
(* the peer address is written with dots, both addresses, and the address   *)
(* of the other family on the same interface, Unset when there is none.     *)
LinkType ==
    [fam: {4, 6}, scoped: BOOLEAN, dotted: BOOLEAN, local: Addresses,
     peer: Addresses, other: Addresses \cup {Unset}]

NotAllowed == {"RECORD", "ANNOUNCE", "GET_PARAMETER", "PAUSE", "REDIRECT", "SET_PARAMETER"}
Served     == {"OPTIONS", "DESCRIBE", "SETUP", "PLAY", "TEARDOWN"}
Methods    == Served \cup NotAllowed \cup {"unknown"}

(* A request as parse_request leaves it: whether it has a Require or        *)
(* Proxy-Require header, "Connection: close", which session id it names     *)
(* (Unset without a Session header), whether its Transport is one of the    *)
(* two accepted ones, and the client ports (rtcp is Unset when client_port  *)
(* is a single number).  A client may name any id: the answer to SETUP      *)
(* tells it, the SDP id in the answer to DESCRIBE is the same number, an    *)
(* earlier service may have told it, and it is only a time.                 *)
RequestType ==
    [method: Methods, require: BOOLEAN, close: BOOLEAN,
     session: Seconds \cup {Unset}, udp: BOOLEAN,
     rtp: Nat \cup {Unset}, rtcp: Nat \cup {Unset}]

Requests == UNION {Asks[c] : c \in Clients}

ASSUME ConstantsAssumption ==
    /\ Unset \notin Nat
    /\ Unset \notin Addresses
    /\ Unset \notin Pids
    /\ Unset \notin Seconds
    /\ Link \in [Clients -> LinkType]
    /\ Asks \in [Clients -> SUBSET RequestType]
    /\ \A q \in Requests : q.method = "SETUP" => q.rtp \in Nat

VARIABLES
    up,      \* whether the service process runs
    conn,    \* conn[c]: "closed", waiting in the listen backlog, or "open"
    gone,    \* clients that have closed or reset their end
    wire,    \* wire[c]: what c's connection carries next: a request, the last
             \* answer, an end of file or a reset
    holds,   \* clients whose RtspConnection has its session attribute set
    told,    \* clients whose SETUP the running service answered with its id
    id,      \* media.tv_session.rtp_id, the second in which the service started
    sess,    \* the other attributes of media.tv_session
    relay    \* relay[p]: the process forked with id p

vars == <<up, conn, gone, wire, holds, told, id, sess, relay>>

(***************************************************************************)
(* Values                                                                   *)
(***************************************************************************)
Quiet == 0     \* handled, and nothing was sent
Codes == {Quiet, 200, 400, 405, 454, 455, 459, 461}

Reply(code) == [kind |-> "reply", code |-> code]
Replies     == [kind: {"reply"}, code: Codes]
Eof         == [kind |-> "eof"]
Reset       == [kind |-> "reset"]

FreshSession ==
    [rtp |-> Unset, rtcp |-> Unset, our |-> Unset, peer |-> Unset, pid |-> Unset]

(* A child has a copy of the session, as it was when it was forked: the     *)
(* arguments that it will pass to sound_relay and, in `inherited`, the pid  *)
(* of the relay that was current then.  `hit` records that SIGINT was sent  *)
(* to it.                                                                   *)
NotForked ==
    [stage |-> "none", hit |-> FALSE, rtp |-> Unset, rtcp |-> Unset,
     our |-> Unset, peer |-> Unset, inherited |-> Unset]

Child(s) ==
    [stage |-> "forked", hit |-> FALSE, rtp |-> s.rtp, rtcp |-> s.rtcp,
     our |-> s.our, peer |-> s.peer, inherited |-> s.pid]

Live(p) == relay[p].stage \in {"forked", "execed", "streaming", "dying"}
Free    == {p \in Pids : relay[p].stage = "none"}

TypeOK ==
    /\ up \in BOOLEAN
    /\ conn \in [Clients -> {"closed", "backlog", "open"}]
    /\ gone \subseteq Clients
    /\ wire \in [Clients -> Requests \cup Replies \cup {Eof, Reset}]
    /\ holds \subseteq Clients
    /\ told \subseteq Clients
    /\ id \in Seconds
    /\ sess \in [rtp: Nat \cup {Unset}, rtcp: Nat \cup {Unset},
                 our: Addresses \cup {Unset}, peer: Addresses \cup {Unset},
                 pid: Pids \cup {Unset}]
    /\ relay \in [Pids -> [stage: {"none", "forked", "execed", "streaming", "dying", "dead"},
                           hit: BOOLEAN,
                           rtp: Nat \cup {Unset}, rtcp: Nat \cup {Unset},
                           our: Addresses \cup {Unset}, peer: Addresses \cup {Unset},
                           inherited: Pids \cup {Unset}]]

(* systemd starts the service when the first client connects.               *)
Init ==
    /\ up = FALSE
    /\ conn = [c \in Clients |-> "closed"]
    /\ gone = {}
    /\ wire = [c \in Clients |-> Reply(Quiet)]
    /\ holds = {}
    /\ told = {}
    /\ id \in Seconds
    /\ sess = FreshSession
    /\ relay = [p \in Pids |-> NotForked]

(***************************************************************************)
(* The shared session                                                       *)
(***************************************************************************)
(* Mutant of Interrupt: a child that has not become sound_relay is spared.  *)
Interrupt_SparesChild(r, p) ==
    IF p = Unset \/ r[p].stage \notin {"execed", "streaming"}
    THEN r
    ELSE [r EXCEPT ![p].hit = TRUE, ![p].stage = "dead"]

(* A child that is still Python only takes note of SIGINT.  sound_relay     *)
(* dies of it, but kill() does not wait for that: a relay that streams has  *)
(* its ports until it is gone.                                              *)
AfterSigint(stage) ==
    CASE stage = "forked" -> "forked"
      [] stage = "execed" -> "dead"
      [] OTHER            -> "dying"

(* os.kill(pid, SIGINT), which a zombie ignores.                            *)
Interrupt(r, p) ==
    IF p = Unset \/ r[p].stage \notin {"forked", "execed", "streaming", "dying"}
    THEN r
    ELSE [r EXCEPT ![p].hit = TRUE, ![p].stage = AfterSigint(@)]

(* Mutants of Stopped: stop() does not reset the pid; it resets everything. *)
Stopped_KeepsPid(s) == s

Stopped_Forgets(s) == FreshSession

Stopped(s) == [s EXCEPT !.pid = Unset]

(* Mutant of Changeable: a setter without the test of the pid.              *)
Changeable_Always(attribute, v) == TRUE

(* Mutant of Changeable: the pid is not asked before a change is refused.   *)
Changeable_Never(attribute, v) == attribute = Unset \/ attribute = v

(* The test of set_our_address, set_peer_rtp_port and set_peer_rtcp_port:   *)
(* an attribute may be set when it is new, stays as it is, or no relay is   *)
(* recorded.                                                                *)
Changeable(attribute, v) ==
    \/ sess.pid = Unset
    \/ attribute = Unset
    \/ attribute = v

(* network_interfaces.get_hostip, Unset when it raises an exception.        *)
HostIp(c, ver) ==
    IF ver # Link[c].fam THEN Link[c].other
    ELSE IF ver = 6 /\ ~Link[c].scoped THEN Unset
    ELSE Link[c].local

(***************************************************************************)
(* How the handling of an event ends                                        *)
(***************************************************************************)
(* An exception that nobody catches ends the process.  As the interpreter   *)
(* shuts down, RtspServer.__del__ closes every connection, and one that     *)
(* holds the session stops it.  s, r and h are the session, the relays and  *)
(* the holders at that moment.  Connections in the backlog stay with the    *)
(* socket unit.                                                             *)
Crash(s, r, h) ==
    LET accepted == {c \in Clients : conn[c] = "open"} IN
    /\ up' = FALSE
    /\ conn' = [c \in Clients |-> IF c \in accepted THEN "closed" ELSE conn[c]]
    /\ gone' = gone \ accepted
    /\ wire' = [c \in Clients |-> IF c \in accepted THEN Reply(Quiet) ELSE wire[c]]
    /\ holds' = {}
    /\ told' = {}
    /\ UNCHANGED id
    /\ sess' = FreshSession
    /\ relay' = IF h # {} THEN Interrupt(r, s.pid) ELSE r

(* What is on the connection after an answer.  An answer to a client that   *)
(* has closed its end can be met by a reset.                                *)
After(c, code) ==
    IF c \notin gone THEN {Reply(code)}
    ELSE IF code = Quiet THEN {Eof}
    ELSE {Eof, Reset}

(* The answer has been sent and keep_alive says whether to close.  Closing  *)
(* the connection stops the session if the connection holds it.             *)
Finish(c, code, s, r, h) ==
    LET close == wire[c].close
        stop  == close /\ c \in h
    IN
    /\ UNCHANGED <<up, id>>
    /\ conn' = [conn EXCEPT ![c] = IF close THEN "closed" ELSE "open"]
    /\ gone' = IF close THEN gone \ {c} ELSE gone
    /\ \E w \in After(c, code) : wire' = [wire EXCEPT ![c] = w]
    /\ holds' = IF close THEN h \ {c} ELSE h
    /\ told' = IF wire[c].method = "SETUP" /\ code = 200 THEN told \cup {c} ELSE told
    /\ sess' = IF stop THEN Stopped(s) ELSE s
    /\ relay' = IF stop THEN Interrupt(r, s.pid) ELSE r

(* Send an answer, which raises an exception if the client reset the        *)
(* connection meanwhile.                                                    *)
Answer(c, code, s, r, h) ==
    \/ Finish(c, code, s, r, h)
    \/ Crash(s, r, h)

Error(c, code) == Answer(c, code, sess, relay, holds)

(***************************************************************************)
(* The poll loop: one action per event                                      *)
(***************************************************************************)
Accept(c) ==
    /\ up
    /\ conn[c] = "backlog"
    /\ conn' = [conn EXCEPT ![c] = "open"]
    /\ UNCHANGED <<up, gone, wire, holds, told, id, sess, relay>>

Reading(c, methods) ==
    /\ up
    /\ conn[c] = "open"
    /\ wire[c] \in Asks[c]
    /\ wire[c].method \in methods

(* The answer 551 formats a bytes object, which raises an AttributeError.   *)
HandleUnsupportedOption(c) ==
    /\ Reading(c, Served)
    /\ wire[c].require
    /\ Crash(sess, relay, holds)

HandleOptions(c) ==
    /\ Reading(c, {"OPTIONS"})
    /\ ~wire[c].require
    /\ Answer(c, 200, sess, relay, holds)

HandleDescribe(c) ==
    /\ Reading(c, {"DESCRIBE"})
    /\ ~wire[c].require
    /\ \/ HostIp(c, 4) # Unset /\ Answer(c, 200, sess, relay, holds)
       \/ HostIp(c, 4) = Unset /\ Crash(sess, relay, holds)

RtcpPort(q) == IF q.rtcp = Unset THEN q.rtp + 1 ELSE q.rtcp

OurAddressFor(c) == IF Link[c].dotted THEN HostIp(c, 4) ELSE HostIp(c, 6)

(* Mutant of SetupPorts: the peer's address is set before our address.      *)
SetupPorts_PeerFirst(c) ==
    LET q    == wire[c]
        rtcp == RtcpPort(q)
        our  == OurAddressFor(c)
        ports == [sess EXCEPT !.rtp = q.rtp, !.rtcp = rtcp, !.peer = Link[c].peer]
    IN
    \/ /\ ~Changeable(sess.rtp, q.rtp)
       /\ Error(c, 455)
    \/ /\ Changeable(sess.rtp, q.rtp)
       /\ ~Changeable(sess.rtcp, rtcp)
       /\ Answer(c, 455, [sess EXCEPT !.rtp = q.rtp], relay, holds)
    \/ /\ Changeable(sess.rtp, q.rtp) /\ Changeable(sess.rtcp, rtcp)
       /\ our = Unset
       /\ Crash(ports, relay, holds)
    \/ /\ Changeable(sess.rtp, q.rtp) /\ Changeable(sess.rtcp, rtcp)
       /\ our # Unset /\ ~Changeable(sess.our, our)
       /\ Answer(c, 455, ports, relay, holds)
    \/ /\ Changeable(sess.rtp, q.rtp) /\ Changeable(sess.rtcp, rtcp)
       /\ our # Unset /\ Changeable(sess.our, our)
       /\ Answer(c, 200, [ports EXCEPT !.our = our, !.peer = Link[c].peer], relay,
                 holds \cup {c})

(* SETUP sets the ports and our address one after the other and answers 455 *)
(* at the first that may not change, keeping what it set before.            *)
SetupPorts(c) ==
    LET q    == wire[c]
        rtcp == RtcpPort(q)
        our  == OurAddressFor(c)
        ports == [sess EXCEPT !.rtp = q.rtp, !.rtcp = rtcp]
    IN
    \/ /\ ~Changeable(sess.rtp, q.rtp)
       /\ Error(c, 455)
    \/ /\ Changeable(sess.rtp, q.rtp)
       /\ ~Changeable(sess.rtcp, rtcp)
       /\ Answer(c, 455, [sess EXCEPT !.rtp = q.rtp], relay, holds)
    \/ /\ Changeable(sess.rtp, q.rtp) /\ Changeable(sess.rtcp, rtcp)
       /\ our = Unset
       /\ Crash(ports, relay, holds)
    \/ /\ Changeable(sess.rtp, q.rtp) /\ Changeable(sess.rtcp, rtcp)
       /\ our # Unset /\ ~Changeable(sess.our, our)
       /\ Answer(c, 455, ports, relay, holds)
    \/ /\ Changeable(sess.rtp, q.rtp) /\ Changeable(sess.rtcp, rtcp)
       /\ our # Unset /\ Changeable(sess.our, our)
       /\ Answer(c, 200, [ports EXCEPT !.our = our, !.peer = Link[c].peer], relay,
                 holds \cup {c})

HandleSetup(c) ==
    /\ Reading(c, {"SETUP"})
    /\ ~wire[c].require
    /\ \/ wire[c].session # Unset /\ Error(c, 459)
       \/ wire[c].session = Unset /\ ~wire[c].udp /\ Error(c, 461)
       \/ wire[c].session = Unset /\ wire[c].udp /\ SetupPorts(c)

(* media.get_session compares the numbers only: a client that was never     *)
(* told the id may know it, and a service that starts in the same second as *)
(* an earlier one, or after the clock was set back, answers to its id.      *)
NamesSession(c) == wire[c].session = id

(* Mutant of HandlePlay: fork is tried again until there is a process id.   *)
HandlePlay_Waits(c) ==
    /\ Reading(c, {"PLAY"})
    /\ ~wire[c].require
    /\ \/ ~NamesSession(c) /\ Error(c, 454)
       \/ /\ NamesSession(c)
          /\ \E p \in Free :
                Answer(c, 200, [sess EXCEPT !.pid = p], [relay EXCEPT ![p] = Child(sess)],
                       holds \cup {c})

(* PLAY forks, even when nobody has set the session up.  No child is ever   *)
(* waited for, so a process id stays taken until the service restarts, and  *)
(* fork fails when there is none left.                                      *)
HandlePlay(c) ==
    /\ Reading(c, {"PLAY"})
    /\ ~wire[c].require
    /\ \/ ~NamesSession(c) /\ Error(c, 454)
       \/ /\ NamesSession(c)
          /\ \E p \in Free :
                Answer(c, 200, [sess EXCEPT !.pid = p], [relay EXCEPT ![p] = Child(sess)],
                       holds \cup {c})
       \/ /\ NamesSession(c)
          /\ Free = {}
          /\ Crash(sess, relay, holds \cup {c})

(* TEARDOWN of the session sends no answer.                                 *)
HandleTeardown(c) ==
    /\ Reading(c, {"TEARDOWN"})
    /\ ~wire[c].require
    /\ \/ ~NamesSession(c) /\ Error(c, 454)
       \/ /\ NamesSession(c)
          /\ Finish(c, Quiet, Stopped(sess), Interrupt(relay, sess.pid), holds \cup {c})

(* Mutant of HandleOther: a status that has no message.                     *)
HandleOther_NoMessage(c) == Reading(c, NotAllowed \cup {"unknown"}) /\ Error(c, 501)

HandleOther(c) ==
    \/ Reading(c, NotAllowed) /\ Error(c, 405)
    \/ Reading(c, {"unknown"}) /\ Error(c, 400)

(* Mutants of ReadEof: the end of file is not taken for one; the connection *)
(* is dropped without close(); close() stops a session it does not hold.    *)
ReadEof_Ignored(c) ==
    /\ up
    /\ conn[c] = "open"
    /\ wire[c] = Eof
    /\ UNCHANGED vars

ReadEof_NoClose(c) ==
    /\ up
    /\ conn[c] = "open"
    /\ wire[c] = Eof
    /\ conn' = [conn EXCEPT ![c] = "closed"]
    /\ gone' = gone \ {c}
    /\ wire' = [wire EXCEPT ![c] = Reply(Quiet)]
    /\ holds' = holds \ {c}
    /\ UNCHANGED <<up, told, id, sess, relay>>

ReadEof_AlwaysStops(c) ==
    /\ up
    /\ conn[c] = "open"
    /\ wire[c] = Eof
    /\ conn' = [conn EXCEPT ![c] = "closed"]
    /\ gone' = gone \ {c}
    /\ wire' = [wire EXCEPT ![c] = Reply(Quiet)]
    /\ holds' = holds \ {c}
    /\ sess' = Stopped(sess)
    /\ relay' = Interrupt(relay, sess.pid)
    /\ UNCHANGED <<up, told, id>>

(* recv() returns nothing: the connection is dropped and closed.            *)
ReadEof(c) ==
    /\ up
    /\ conn[c] = "open"
    /\ wire[c] = Eof
    /\ conn' = [conn EXCEPT ![c] = "closed"]
    /\ gone' = gone \ {c}
    /\ wire' = [wire EXCEPT ![c] = Reply(Quiet)]
    /\ holds' = holds \ {c}
    /\ sess' = IF c \in holds THEN Stopped(sess) ELSE sess
    /\ relay' = IF c \in holds THEN Interrupt(relay, sess.pid) ELSE relay
    /\ UNCHANGED <<up, told, id>>

(* recv() raises ConnectionResetError.                                      *)
ReadReset(c) ==
    /\ up
    /\ conn[c] = "open"
    /\ wire[c] = Reset
    /\ Crash(sess, relay, holds)

Handle(c) ==
    \/ HandleUnsupportedOption(c)
    \/ HandleOptions(c)
    \/ HandleDescribe(c)
    \/ HandleSetup(c)
    \/ HandlePlay(c)
    \/ HandleTeardown(c)
    \/ HandleOther(c)
    \/ ReadEof(c)
    \/ ReadReset(c)

(***************************************************************************)
(* The forked children                                                      *)
(***************************************************************************)
(* The child becomes sound_relay if the session has all of its arguments.   *)
(* A SIGINT that Python has noted but not yet turned into a                 *)
(* KeyboardInterrupt is lost with the interpreter.                          *)
Complete(s) == s.rtp # Unset /\ s.rtcp # Unset /\ s.our # Unset /\ s.peer # Unset

ChildExec(p) ==
    /\ relay[p].stage = "forked"
    /\ Complete(relay[p])
    /\ relay' = [relay EXCEPT ![p].stage = "execed"]
    /\ UNCHANGED <<up, conn, gone, wire, holds, told, id, sess>>

(* An exception in the child before exec (KeyboardInterrupt, no player, an  *)
(* attribute that was never set, a failing exec) unwinds its copy of the    *)
(* server, whose __del__ closes the connections, the requesting one among   *)
(* them: they stop the session that the child knows, whose pid is still the *)
(* one it inherited.                                                        *)
ChildUnwinds(p) ==
    /\ relay[p].stage = "forked"
    /\ relay' = Interrupt([relay EXCEPT ![p].stage = "dead"], relay[p].inherited)
    /\ UNCHANGED <<up, conn, gone, wire, holds, told, id, sess>>

(* Every relay binds the same two ports of the address it was given.        *)
RelayBinds(p) ==
    LET taken == \E o \in Pids :
            relay[o].stage \in {"streaming", "dying"} /\ relay[o].our = relay[p].our
    IN
    /\ relay[p].stage = "execed"
    /\ relay' = [relay EXCEPT ![p].stage = IF taken THEN "dead" ELSE "streaming"]
    /\ UNCHANGED <<up, conn, gone, wire, holds, told, id, sess>>

(* The kernel has carried out the SIGINT and closed the sockets.            *)
RelayDies(p) ==
    /\ relay[p].stage = "dying"
    /\ relay' = [relay EXCEPT ![p].stage = "dead"]
    /\ UNCHANGED <<up, conn, gone, wire, holds, told, id, sess>>

(* sound_relay ends by itself: an exception that its main does not catch.   *)
RelayExits(p) ==
    /\ relay[p].stage \in {"execed", "streaming"}
    /\ relay' = [relay EXCEPT ![p].stage = "dead"]
    /\ UNCHANGED <<up, conn, gone, wire, holds, told, id, sess>>

(***************************************************************************)
(* systemd: the service's control group and the socket unit                 *)
(***************************************************************************)
ControlGroupKill ==
    /\ ~up
    /\ \E p \in Pids : Live(p)
    /\ relay' = [p \in Pids |-> IF Live(p) THEN [relay[p] EXCEPT !.stage = "dead"] ELSE relay[p]]
    /\ UNCHANGED <<up, conn, gone, wire, holds, told, id, sess>>

Activate ==
    /\ ~up
    /\ \E c \in Clients : conn[c] = "backlog"
    /\ \A p \in Pids : ~Live(p)
    /\ up' = TRUE
    /\ id' \in Seconds
    /\ relay' = [p \in Pids |-> NotForked]
    /\ UNCHANGED <<conn, gone, wire, holds, told, sess>>

(***************************************************************************)
(* The clients                                                              *)
(***************************************************************************)
Connect(c) ==
    /\ conn[c] = "closed"
    /\ conn' = [conn EXCEPT ![c] = "backlog"]
    /\ gone' = gone \ {c}
    /\ wire' = [wire EXCEPT ![c] = Reply(Quiet)]
    /\ UNCHANGED <<up, holds, told, id, sess, relay>>

Present(c) == conn[c] # "closed" /\ c \notin gone

Send(c, q) ==
    /\ Present(c)
    /\ wire[c] \in Replies
    /\ wire' = [wire EXCEPT ![c] = q]
    /\ UNCHANGED <<up, conn, gone, holds, told, id, sess, relay>>

(* The client closes its end, perhaps before its request is answered.       *)
HangUp(c) ==
    /\ Present(c)
    /\ gone' = gone \cup {c}
    /\ wire' = IF wire[c] \in Requests THEN wire ELSE [wire EXCEPT ![c] = Eof]
    /\ UNCHANGED <<up, conn, holds, told, id, sess, relay>>

(* The client's host resets the connection; an unread request is lost.      *)
ResetByPeer(c) ==
    /\ Present(c)
    /\ gone' = gone \cup {c}
    /\ wire' = [wire EXCEPT ![c] = Reset]
    /\ UNCHANGED <<up, conn, holds, told, id, sess, relay>>

(***************************************************************************)
(* The specification                                                        *)
(***************************************************************************)
Client(c) ==
    \/ Connect(c)
    \/ \E q \in Asks[c] : Send(c, q)
    \/ HangUp(c)
    \/ ResetByPeer(c)

Process(p) ==
    \/ ChildExec(p)
    \/ ChildUnwinds(p)
    \/ RelayBinds(p)
    \/ RelayDies(p)
    \/ RelayExits(p)

Next ==
    \/ \E c \in Clients : Client(c) \/ Accept(c) \/ Handle(c)
    \/ \E p \in Pids : Process(p)
    \/ ControlGroupKill
    \/ Activate

Spec == Init /\ [][Next]_vars

(* poll() reports every ready descriptor and the loop handles each of them  *)
(* before it polls again, the listening sockets, registered first, before   *)
(* the connections: a service that is started over and over still accepts   *)
(* the client that waits.  A child runs on, and a signal takes effect.      *)
(* systemd kills what is left of a stopped service and starts it for a      *)
(* waiting client.  Nothing obliges a client to do anything, or a relay to  *)
(* end by itself.                                                           *)
Fairness ==
    /\ \A c \in Clients : SF_vars(Accept(c)) /\ WF_vars(Handle(c))
    /\ \A p \in Pids : /\ WF_vars(ChildExec(p) \/ ChildUnwinds(p))
                       /\ WF_vars(RelayBinds(p) \/ RelayDies(p))
    /\ WF_vars(ControlGroupKill)
    /\ WF_vars(Activate)

FairSpec == Spec /\ Fairness

(***************************************************************************)
(* Properties                                                               *)
(***************************************************************************)
Current(p) == sess.pid = p

(* A session that nobody has set up, and a child that was forked from it.   *)
Blank(s) == s.rtp = Unset /\ s.rtcp = Unset /\ s.our = Unset /\ s.peer = Unset

(* While a relay is recorded, SETUP changes neither the ports nor our       *)
(* address: what the session says, and a later SETUP is told, is what the   *)
(* recorded relay was started with.  (A child of a session that nobody had  *)
(* set up never becomes a relay, although its pid is recorded.)             *)
FrozenParameters ==
    \A p \in Pids : Current(p) =>
        \/ Blank(relay[p])
        \/ /\ sess.rtp = relay[p].rtp
           /\ sess.rtcp = relay[p].rtcp
           /\ sess.our = relay[p].our

(* A relay is recorded only while some open connection holds the session,   *)
(* so that the end of that connection, or of the server, will stop it.      *)
StreamHasHolder ==
    sess.pid # Unset => \E c \in holds : conn[c] = "open"

(* A relay that runs and is not the recorded one was superseded by another  *)
(* PLAY, or had its SIGINT before it became sound_relay; or the service is  *)
(* down and systemd will kill it.  No other way of ending a stream leaves   *)
(* its relay behind.                                                        *)
NoStrayRelay ==
    \A p \in Pids :
        Live(p) /\ ~Current(p) =>
            \/ relay[p].hit
            \/ \E o \in Pids : relay[o].stage # "none" /\ relay[o].inherited = p

(* SIGINT never reaches the recorded relay without the session forgetting   *)
(* it: a child that unwinds interrupts an older relay only.                 *)
CurrentNotInterrupted ==
    \A p \in Pids : Current(p) => relay[p].stage # "none" /\ ~relay[p].hit

(* Once the running service has told a client the session, and whatever     *)
(* the clients that know its id do to it from then on, every argument of    *)
(* the player is set: no PLAY forks a child that misses an attribute.       *)
PlayableWhenTold == told # {} => Complete(sess)

(* No stream mixes what different clients asked for: the session and every  *)
(* relay have ports, our address and the peer's address of one SETUP of one *)
(* client, although the setters change them one by one, refuse or raise in  *)
(* between, and leave the peer's address unguarded by the pid test.  A PLAY *)
(* of a session that nobody has set up never starts a relay.                *)
Asked(s) ==
    \E c \in Clients : \E q \in Asks[c] :
        /\ q.method = "SETUP"
        /\ s.rtp = q.rtp
        /\ s.rtcp = RtcpPort(q)
        /\ OurAddressFor(c) # Unset /\ s.our = OurAddressFor(c)
        /\ s.peer = Link[c].peer

OneClientsParameters ==
    /\ Blank(sess) \/ Asked(sess)
    /\ \A p \in Pids : relay[p].stage # "none" =>
           \/ Asked(relay[p])
           \/ Blank(relay[p]) /\ relay[p].stage \in {"forked", "dead"}

(* The answer to SETUP is the truth: 200 only when the session has the      *)
(* parameters asked for, 455 only when a relay was recorded and then the    *)
(* session is left as it was (a connection closed with the answer may stop  *)
(* the relay).                                                              *)
SetupAnswers ==
    [][\A c \in Clients :
        (wire[c] \in Requests /\ wire[c].method = "SETUP" /\ wire'[c] \in Replies) =>
            /\ wire'[c].code = 200 =>
                 /\ sess'.rtp = wire[c].rtp
                 /\ sess'.rtcp = RtcpPort(wire[c])
                 /\ sess'.our = OurAddressFor(c)
                 /\ sess'.peer = Link[c].peer
            /\ wire'[c].code = 455 =>
                 sess.pid # Unset /\ sess' \in {sess, Stopped(sess)}]_vars

(* The recorded relay is given up, with the service running on, only in a   *)
(* step of a client that holds the session, sets it up, or names its id; a  *)
(* connection that does none of these comes and goes without harm to it.    *)
StoppedByHolder ==
    [][(up' /\ sess.pid # Unset /\ sess'.pid = Unset) =>
        \E c \in Clients :
            /\ c \in holds \cup told' \/ (wire[c] \in Requests /\ NamesSession(c))
            /\ conn[c] = "open" /\ (wire'[c] # wire[c] \/ conn'[c] # conn[c])]_vars

(* The front end implements RelayStream: the current stream is what the     *)
(* recorded relay was started with; a child that misses its arguments is    *)
(* none.                                                                    *)
Transport == [rtp: Nat, rtcp: Nat, our: Addresses]

CurrentStream ==
    IF sess.pid = Unset \/ Blank(relay[sess.pid]) THEN Unset
    ELSE [rtp |-> relay[sess.pid].rtp, rtcp |-> relay[sess.pid].rtcp, our |-> relay[sess.pid].our]

Stream == INSTANCE RelayStream WITH
    Params <- Transport, Off <- Unset, stream <- CurrentStream, holders <- holds

ImplementsRelayStream == Stream!Spec

(* Every method that the server announces as public is answered.            *)
TeardownAnswered ==
    [][\A c \in Clients :
        (wire[c] \in Requests /\ wire[c].method = "TEARDOWN" /\ wire'[c] \in Replies /\ up') =>
            wire'[c].code # Quiet]_vars

(* A request sent to the server is handled, or its connection is gone,      *)
(* through every crash and restart of the service.                          *)
EveryRequestHandled ==
    \A c \in Clients : (wire[c] \in Requests) ~> (wire[c] \notin Requests)

(* A connection whose client has closed or reset it is closed by the server *)
(* too, even when it waited in the backlog while the service was down.      *)
EveryGoneClientClosed ==
    \A c \in Clients : (c \in gone) ~> (c \notin gone)

(* The end of the last interested client ends the stream: once no           *)
(* connection holds the session, every process that was forked for it dies, *)
(* unless it streams and is one of the two that NoStrayRelay allows, a      *)
(* relay that was superseded or one whose SIGINT came before its exec.      *)
LeftBehind(p) ==
    /\ relay[p].stage = "streaming"
    /\ relay[p].hit \/ \E o \in Pids : relay[o].stage # "none" /\ relay[o].inherited = p

StreamEndsWithClients ==
    \A p \in Pids : (Live(p) /\ holds = {}) ~> (~Live(p) \/ LeftBehind(p))
===============================================================================
