----------------------------- MODULE MCRtspServer -----------------------------
(***************************************************************************)
(* Instances of RtspServer for TLC: clients on one or two interfaces, and   *)
(* the requests that bear on the question of each run.                      *)
(***************************************************************************)
EXTENDS RtspServer, TLC, FiniteSets

CONSTANTS c1, c2, t1, t2, host, hostV6, otherHost, addr1, addr2

(* The process ids are interchangeable, and so are clients with equal links. *)
PidSymmetry == Permutations(Pids)
Symmetry    == Permutations(Pids) \cup Permutations(Clients)

(* Clients on one host, over IPv4 and the same interface of the server.     *)
LinkSame == [c \in Clients |->
    [fam |-> 4, scoped |-> FALSE, dotted |-> TRUE, local |-> host, other |-> hostV6,
     peer |-> addr1]]

(* The second client, on another host, reaches the server's other interface. *)
LinkApart == [LinkSame EXCEPT ![c2].local = otherHost, ![c2].peer = addr2]

(* The first client comes over link-local IPv6, the second over IPv6 with a *)
(* global address, on an interface that has no IPv4 address.                *)
LinkV6 == [c \in Clients |->
    [fam |-> 6, scoped |-> c = c1, dotted |-> FALSE, local |-> IF c = c1 THEN hostV6 ELSE otherHost,
     other |-> IF c = c1 THEN host ELSE Unset,
     peer |-> IF c = c1 THEN addr1 ELSE addr2]]

Plain(m) ==
    [method |-> m, require |-> FALSE, close |-> FALSE, session |-> Unset,
     udp |-> TRUE, rtp |-> Unset, rtcp |-> Unset]

Setup(rtp, rtcp) == [Plain("SETUP") EXCEPT !.rtp = rtp, !.rtcp = rtcp]
WithId(m)        == {[Plain(m) EXCEPT !.session = t] : t \in Seconds}
Closing(q)       == [q EXCEPT !.close = TRUE]

(* What two clients do to each other's stream: the second, which has come   *)
(* to another address of the server, asks for the two ports of the first,   *)
(* or for another RTCP port.                                                *)
AsksShared == [c \in Clients |->
    WithId("PLAY") \cup WithId("TEARDOWN")
        \cup IF c = c1 THEN {Setup(4000, Unset)} ELSE {Setup(4000, 4001), Setup(4000, 4003)}]

AsksBasic == [c \in Clients |-> {Setup(4000, Unset)} \cup WithId("PLAY") \cup WithId("TEARDOWN")]

(* The second client never sets the session up, but knows its id.           *)
AsksPlay == [c \in Clients |-> WithId("PLAY") \cup IF c = c1 THEN {Setup(4000, Unset)} ELSE {}]

(* One request of every method and every way to be refused.                 *)
AsksSurface == [c \in Clients |->
    {Plain("OPTIONS"), Plain("DESCRIBE"), Plain("PAUSE"), Plain("unknown"),
     [Plain("DESCRIBE") EXCEPT !.require = TRUE],
     Closing(Setup(4000, 4001)), Setup(4000, Unset), Setup(6000, 6001),
     [Setup(4000, 4001) EXCEPT !.session = t1],
     [Setup(4000, 4001) EXCEPT !.udp = FALSE],
     Plain("TEARDOWN")} \cup WithId("PLAY") \cup WithId("TEARDOWN")]
===============================================================================
