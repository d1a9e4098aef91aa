---------------------------- MODULE ProcessStartup ----------------------------
(***************************************************************************)
(* How sound_relay and play_rtp start (src/c_src): main() takes the         *)
(* addresses from its options, Session::capture() and Session::play() build *)
(* the two UDP connections, each bound and then connected, look for, open   *)
(* and configure the sound device, and main() enters the event loop.        *)
(* Processes on one host compete for the same two ports.  No main catches   *)
(* an exception: each ends its process.  The kernel and ALSA, which may     *)
(* fail every call, are external.                                           *)
(***************************************************************************)
EXTENDS Naturals, Sequences, FiniteSets

CONSTANTS
    Procs,    \* processes
    Hosts,    \* IP addresses, without their family
    Args      \* Args[p]: program and options that p is started with

Families == {"v4", "v6"}
Ports    == {"rtp", "rtcp"}

AddressType == [fam: Families, host: Hosts]

(* IpAddress::NoAddress().                                                  *)
NoAddress == [fam |-> "none"]

(* What an option may hold beside an address: a name, which is none, and a  *)
(* link-local address without an interface.  The server never passes on a   *)
(* wildcard address, and all pass on the same two ports, whose values are   *)
(* left out.                                                                *)
Unreadable == [fam |-> "unreadable"]
Unscoped   == [fam |-> "unscoped"]

(* "x" is our address, "a" the peer's; "y" stands for the four that set a   *)
(* port, and "h" for any other option.                                      *)
OptionType == [opt: {"x", "a", "y", "h"}, arg: AddressType \cup {Unreadable, Unscoped}]

ASSUME StartupAssumption ==
    Args \in [Procs -> [prog: {"relay", "player"}, options: Seq(OptionType)]]

VARIABLES
    stage,     \* stage[p]: what p does next, "loop" or "dead"
    optind,    \* optind[p]: the option that getopt() looks at next
    our,       \* our[p]: mOurAddress
    peer,      \* peer[p]: mPeerAddress
    sock,      \* sock[p][port][fam]: mSockV4 and mSockV6 of the connection
    pcm,       \* pcm[p]: the sound device: "none", "prepared" or "running"
    handlers   \* handlers[p]: registered with the event loop, in order

vars == <<stage, optind, our, peer, sock, pcm, handlers>>

addresses == <<optind, our, peer>>

SocketStates == {"none", "bound", "connected"}

Stages ==
    {"options", "bind rtp", "connect rtp", "bind rtcp", "connect rtcp", "find", "open",
     "params", "run", "loop", "dead"}

BindStage(port)    == IF port = "rtp" THEN "bind rtp" ELSE "bind rtcp"
ConnectStage(port) == IF port = "rtp" THEN "connect rtp" ELSE "connect rtcp"

TypeOK ==
    /\ stage \in [Procs -> Stages]
    /\ optind \in [Procs -> Nat \ {0}]
    /\ our \in [Procs -> AddressType \cup {NoAddress}]
    /\ peer \in [Procs -> AddressType \cup {NoAddress}]
    /\ sock \in [Procs -> [Ports -> [Families -> SocketStates]]]
    /\ pcm \in [Procs -> {"none", "prepared", "running"}]
    /\ handlers \in [Procs -> Seq(Ports \cup {"sound"})]

NoSockets == [port \in Ports |-> [fam \in Families |-> "none"]]

Init ==
    /\ stage = [p \in Procs |-> "dead"]
    /\ optind = [p \in Procs |-> 1]
    /\ our = [p \in Procs |-> NoAddress]
    /\ peer = [p \in Procs |-> NoAddress]
    /\ sock = [p \in Procs |-> NoSockets]
    /\ pcm = [p \in Procs |-> "none"]
    /\ handlers = [p \in Procs |-> <<>>]

(* The server, or a user, starts p.                                         *)
Launch(p) ==
    /\ stage[p] = "dead"
    /\ stage' = [stage EXCEPT ![p] = "options"]
    /\ UNCHANGED <<addresses, sock, pcm, handlers>>

(* An uncaught exception, an aborting call on a device that was not opened, *)
(* a signal or a return from main(): the kernel closes the sockets.         *)
Die(p) ==
    /\ stage' = [stage EXCEPT ![p] = "dead"]
    /\ sock' = [sock EXCEPT ![p] = NoSockets]
    /\ pcm' = [pcm EXCEPT ![p] = "none"]
    /\ handlers' = [handlers EXCEPT ![p] = <<>>]
    /\ optind' = [optind EXCEPT ![p] = 1]
    /\ our' = [our EXCEPT ![p] = NoAddress]
    /\ peer' = [peer EXCEPT ![p] = NoAddress]

Continue(p, next) == stage' = [stage EXCEPT ![p] = next]

Killed(p) == stage[p] # "dead" /\ Die(p)

(* Mutant of Assigned: what is no address clears the one that was set.      *)
Assigned_Clears(addr, arg) == IF arg = Unreadable THEN NoAddress ELSE arg

(* Assigning to an IpAddress: what is no address leaves it as it was.       *)
Assigned(addr, arg) == IF arg = Unreadable THEN addr ELSE arg

(* One option.  Setting an address without its interface throws, and an     *)
(* option that main() does not know ends it with the usage.                 *)
ParseOption(p) ==
    /\ stage[p] = "options" /\ optind[p] <= Len(Args[p].options)
    /\ LET option == Args[p].options[optind[p]]
           ends   == option.opt = "h" \/ (option.opt # "y" /\ option.arg = Unscoped)
       IN
       \/ ends /\ Die(p)
       \/ /\ ~ends
          /\ optind' = [optind EXCEPT ![p] = @ + 1]
          /\ IF option.opt = "x" THEN our' = [our EXCEPT ![p] = Assigned(@, option.arg)]
             ELSE UNCHANGED our
          /\ IF option.opt = "a" THEN peer' = [peer EXCEPT ![p] = Assigned(@, option.arg)]
             ELSE UNCHANGED peer
          /\ UNCHANGED <<stage, sock, pcm, handlers>>

OptionsDone(p) ==
    /\ stage[p] = "options" /\ optind[p] > Len(Args[p].options)
    /\ Continue(p, "bind rtp")
    /\ UNCHANGED <<addresses, sock, pcm, handlers>>

(***************************************************************************)
(* The connections                                                          *)
(***************************************************************************)
(* Mutant of Bindable: the families are not compared.                       *)
Bindable_AnyFamily(p) == our[p].fam \in Families

(* UdpConnection::init binds when the peer's address is none or of our      *)
(* family, and throws otherwise; Socket::bind throws without an address.    *)
Bindable(p) ==
    /\ our[p].fam \in Families
    /\ peer[p].fam \in {"none", our[p].fam}

Taken(p, port) ==
    \E q \in Procs \ {p} :
        our[q] = our[p] /\ sock[q][port][our[p].fam] # "none"

(* Mutant of Bind: what bind() returns is not looked at.                    *)
Bind_Unchecked(p, port) ==
    /\ stage[p] = BindStage(port)
    /\ IF ~Bindable(p) THEN Die(p)
       ELSE /\ sock' = [sock EXCEPT ![p][port][our[p].fam] = "bound"]
            /\ Continue(p, ConnectStage(port))
            /\ UNCHANGED <<addresses, pcm, handlers>>

(* A socket that cannot be created is noticed by the call that follows.     *)
Bind(p, port) ==
    /\ stage[p] = BindStage(port)
    /\ \/ Die(p)
       \/ /\ Bindable(p) /\ ~Taken(p, port)
          /\ sock' = [sock EXCEPT ![p][port][our[p].fam] = "bound"]
          /\ Continue(p, ConnectStage(port))
          /\ UNCHANGED <<addresses, pcm, handlers>>

(* Mutant of Receives: every connection has a buffer to receive with.       *)
Receives_Always(p, port) == TRUE

(* Only the relay's RtcpServer and the player's RtpServer receive.          *)
Receives(p, port) ==
    port = IF Args[p].prog = "relay" THEN "rtcp" ELSE "rtp"

After(port) == IF port = "rtp" THEN "bind rtcp" ELSE "find"

(* Mutant of Connect: a failure is not noticed.                             *)
Connect_Unchecked(p, port) ==
    LET fam == peer[p].fam IN
    /\ stage[p] = ConnectStage(port)
    /\ \/ fam = "none" /\ Die(p)
       \/ /\ fam # "none"
          /\ sock' \in {sock, [sock EXCEPT ![p][port][fam] = "connected"]}
          /\ Continue(p, After(port))
          /\ handlers' = IF Receives(p, port) THEN [handlers EXCEPT ![p] = Append(@, port)]
                         ELSE handlers
          /\ UNCHANGED <<addresses, pcm>>

(* The socket of the peer's family is connected, and created if need be.    *)
Connect(p, port) ==
    LET fam == peer[p].fam IN
    /\ stage[p] = ConnectStage(port)
    /\ \/ Die(p)
       \/ /\ fam # "none"
          /\ sock' = [sock EXCEPT ![p][port][fam] = "connected"]
          /\ Continue(p, After(port))
          /\ handlers' = IF Receives(p, port) THEN [handlers EXCEPT ![p] = Append(@, port)]
                         ELSE handlers
          /\ UNCHANGED <<addresses, pcm>>

(***************************************************************************)
(* The sound device                                                         *)
(***************************************************************************)
(* Listing the devices of every card, for the log alone.  ALSA ends the     *)
(* list, or refuses to tell the devices of a card, which throws.            *)
Find(p, prog) ==
    /\ stage[p] = "find" /\ Args[p].prog = prog
    /\ \/ Die(p)
       \/ Continue(p, "open") /\ UNCHANGED <<addresses, sock, pcm, handlers>>

FindSource(p) == Find(p, "relay")

FindSink(p) == Find(p, "player")

(* open(): a failure is only logged.                                        *)
Open(p, prog) ==
    /\ stage[p] = "open" /\ Args[p].prog = prog
    /\ \E state \in {"none", "prepared"} : pcm' = [pcm EXCEPT ![p] = state]
    /\ Continue(p, "params")
    /\ UNCHANGED <<addresses, sock, handlers>>

OpenSource(p) == Open(p, "relay")

OpenSink(p) == Open(p, "player")

(* Mutant of SetParams: a refusal is ignored, and the device not prepared.  *)
SetParams_Ignored(p) ==
    /\ stage[p] = "params"
    /\ Continue(p, "run")
    /\ pcm' \in {pcm, [pcm EXCEPT ![p] = "setup"]}
    /\ UNCHANGED <<addresses, sock, handlers>>

(* set_hw_params() and set_sw_params() do nothing without a device, and     *)
(* throw when ALSA refuses one of the parameters.                           *)
SetParams(p) ==
    /\ stage[p] = "params"
    /\ \/ pcm[p] # "none" /\ Die(p)
       \/ Continue(p, "run") /\ UNCHANGED <<addresses, sock, pcm, handlers>>

(* Capture::run() without an encoder, or with an unexpected number of       *)
(* descriptors, returns and leaves the device out of the event loop; one    *)
(* that does not start is registered nonetheless.                           *)
RunRelay(p) ==
    /\ stage[p] = "run" /\ Args[p].prog = "relay"
    /\ \/ Continue(p, "loop") /\ UNCHANGED <<addresses, sock, pcm, handlers>>
       \/ pcm[p] = "none" /\ Die(p)
       \/ /\ pcm[p] # "none"
          /\ \E state \in {"prepared", "running"} : pcm' = [pcm EXCEPT ![p] = state]
          /\ \E seen \in BOOLEAN :
                handlers' = IF seen THEN [handlers EXCEPT ![p] = Append(@, "sound")] ELSE handlers
          /\ Continue(p, "loop")
          /\ UNCHANGED <<addresses, sock>>

(* Replay::run() returns without a decoder; with one it asks for the state  *)
(* of the device, which the first packet will start.                        *)
RunPlayer(p) ==
    /\ stage[p] = "run" /\ Args[p].prog = "player"
    /\ \/ Continue(p, "loop") /\ UNCHANGED <<addresses, sock, pcm, handlers>>
       \/ pcm[p] = "none" /\ Die(p)

Step(p) ==
    \/ ParseOption(p) \/ OptionsDone(p)
    \/ \E port \in Ports : Bind(p, port) \/ Connect(p, port)
    \/ FindSource(p) \/ FindSink(p)
    \/ OpenSource(p) \/ OpenSink(p)
    \/ SetParams(p)
    \/ RunRelay(p)
    \/ RunPlayer(p)

Next == \E p \in Procs : Launch(p) \/ Killed(p) \/ Step(p)

Spec == Init /\ [][Next]_vars

(***************************************************************************)
(* Properties                                                               *)
(***************************************************************************)
InLoop(p) == stage[p] = "loop"

(* A process in its loop has, for each of its two connections, exactly one  *)
(* socket, bound to our address and connected to the peer: recv() and       *)
(* send(), which prefer the IPv4 socket, use the one that is connected.     *)
LoopConnected ==
    \A p \in Procs, port \in Ports : InLoop(p) =>
        \E fam \in Families :
            /\ sock[p][port][fam] = "connected" /\ our[p].fam = fam
            /\ \A other \in Families \ {fam} : sock[p][port][other] = "none"

(* The last address that could be read among the options opt of p.          *)
LastGiven(p, opt, addr) ==
    LET options == Args[p].options
        given   == {i \in DOMAIN options : options[i].opt = opt /\ options[i].arg # Unreadable}
    IN  IF given = {} THEN addr = NoAddress
        ELSE \E i \in given : addr = options[i].arg /\ \A j \in given : j <= i

(* Once the options are read, the addresses are the last that could be read *)
(* of either kind: what is no address is skipped in silence, and a process  *)
(* without one goes on to fail at its socket.                               *)
AddressesAsGiven ==
    \A p \in Procs : stage[p] \notin {"dead", "options"} =>
        LastGiven(p, "x", our[p]) /\ LastGiven(p, "a", peer[p])

(* Of the processes that were given one address, at most one streams,       *)
(* whatever the order in which they start, fail and are killed.             *)
PortsExclusive ==
    \A p, q \in Procs :
        p # q /\ InLoop(p) /\ InLoop(q) => our[p] # our[q]

(* The sockets precede the device in the event loop: a relay registers what *)
(* RelayProcess assumes or, when its device is no use, the socket alone.    *)
SocketsFirst ==
    \A p \in Procs : InLoop(p) =>
        handlers[p] \in IF Args[p].prog = "relay" THEN {<<"rtcp">>, <<"rtcp", "sound">>}
                        ELSE {<<"rtp">>}
===============================================================================
