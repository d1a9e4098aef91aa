------------------------- MODULE ProcessStartupProofs -------------------------
(***************************************************************************)
(* Proofs about ProcessStartup, for any processes, hosts and arguments.     *)
(* The invariant says which sockets a process has at each of its stages:    *)
(* the ports are exclusive because no stage after the binding is without    *)
(* its socket, and a socket is only bound when no other process has it.     *)
(***************************************************************************)
EXTENDS ProcessStartup, SequenceTheorems, TLAPS

Unbound(port) ==
    IF port = "rtp" THEN {"dead", "options", "bind rtp"}
    ELSE {"dead", "options", "bind rtp", "connect rtp", "bind rtcp"}

(* The state of the socket of our address's family at stage s.              *)
SocketAt(s, port) ==
    IF s \in Unbound(port) THEN "none"
    ELSE IF s = ConnectStage(port) THEN "bound" ELSE "connected"

SocketsFollow ==
    \A p \in Procs, port \in Ports, fam \in Families :
        sock[p][port][fam] =
            IF fam = our[p].fam THEN SocketAt(stage[p], port) ELSE "none"

BindableOnce == \A p \in Procs : stage[p] \notin Unbound("rtp") => Bindable(p)

(* Two processes with one address do not hold the same port.                *)
OneOwner ==
    \A p, q \in Procs, port \in Ports :
        p # q /\ stage[p] \notin Unbound(port) /\ stage[q] \notin Unbound(port)
            => our[p] # our[q]

(* What has been registered at stage s.                                     *)
HandlersAt(prog, s) ==
    IF prog = "relay"
    THEN IF s \in Unbound("rtcp") \cup {"connect rtcp"} THEN {<<>>}
         ELSE IF s = "loop" THEN {<<"rtcp">>, <<"rtcp", "sound">>} ELSE {<<"rtcp">>}
    ELSE IF s \in Unbound("rtp") \cup {"connect rtp"} THEN {<<>>} ELSE {<<"rtp">>}

HandlersFollow == \A p \in Procs : handlers[p] \in HandlersAt(Args[p].prog, stage[p])

IInv == TypeOK /\ SocketsFollow /\ BindableOnce /\ OneOwner /\ HandlersFollow

(* What appending to a sequence of one gives.                               *)
LEMMA AppendToOne ==
    ASSUME NEW a, NEW b
    PROVE  Append(<<a>>, b) = <<a, b>>
<1> DEFINE s == Append(<<a>>, b)
           t == <<a, b>>
<1>1. s \in Seq({a, b}) /\ t \in Seq({a, b})
  OBVIOUS
<1>2. Len(s) = 2 /\ Len(t) = 2 /\ s[1] = t[1] /\ s[2] = t[2]
  OBVIOUS
<1>3. s = t
  <2> HIDE DEF s, t
  <2>1. \A i \in 1 .. Len(s) : s[i] = t[i]
    BY <1>2
  <2> QED
    BY <1>1, <1>2, <2>1, SeqEqual
<1> QED
  BY <1>3

(* A step of one process keeps the invariant if what that process has       *)
(* afterwards follows from its stage, and no one holds a port it enters.    *)
LEMMA LocalStep ==
    ASSUME IInv, TypeOK', NEW p \in Procs,
           \A q \in Procs \ {p} :
               /\ stage'[q] = stage[q] /\ sock'[q] = sock[q] /\ handlers'[q] = handlers[q]
               /\ our'[q] = our[q] /\ peer'[q] = peer[q],
           \A port \in Ports, fam \in Families :
               sock'[p][port][fam] =
                   IF fam = our'[p].fam THEN SocketAt(stage'[p], port) ELSE "none",
           stage'[p] \notin Unbound("rtp") => Bindable(p)',
           \A port \in Ports :
               stage'[p] \notin Unbound(port) =>
                   /\ our'[p] = our[p]
                   /\ \/ stage[p] \notin Unbound(port)
                      \/ \A q \in Procs \ {p} :
                            stage[q] \notin Unbound(port) => our[q] # our[p],
           handlers'[p] \in HandlersAt(Args[p].prog, stage'[p])
    PROVE  IInv'
<1>1. SocketsFollow'
  BY DEF IInv, SocketsFollow
<1>2. BindableOnce'
  BY DEF IInv, BindableOnce, Bindable
<1>3. OneOwner'
  BY DEF IInv, OneOwner
<1>4. HandlersFollow'
  BY DEF IInv, HandlersFollow
<1> QED
  BY <1>1, <1>2, <1>3, <1>4 DEF IInv

(* Ending a process keeps the invariant.                                    *)
LEMMA DieKeeps ==
    ASSUME IInv, NEW p \in Procs, Die(p)
    PROVE  IInv'
<1>1. TypeOK'
  <2>1. NoSockets \in [Ports -> [Families -> SocketStates]]
    BY DEF NoSockets, SocketStates
  <2>2. <<>> \in Seq(Ports \cup {"sound"}) /\ "dead" \in Stages
    BY DEF Stages
  <2> QED
    BY <2>1, <2>2 DEF IInv, TypeOK, Die
<1>2. \A q \in Procs \ {p} :
          /\ stage'[q] = stage[q] /\ sock'[q] = sock[q] /\ handlers'[q] = handlers[q]
          /\ our'[q] = our[q] /\ peer'[q] = peer[q]
  BY DEF IInv, TypeOK, Die
<1>3. stage'[p] = "dead" /\ sock'[p] = NoSockets /\ handlers'[p] = <<>>
  BY DEF IInv, TypeOK, Die
<1>4. \A port \in Ports : stage'[p] \in Unbound(port)
  BY <1>3 DEF Unbound
<1>5. \A port \in Ports, fam \in Families :
          sock'[p][port][fam] =
              IF fam = our'[p].fam THEN SocketAt(stage'[p], port) ELSE "none"
  BY <1>3, <1>4 DEF SocketAt, NoSockets
<1>6. handlers'[p] \in HandlersAt(Args[p].prog, stage'[p])
  BY <1>3 DEF HandlersAt, Unbound
<1> QED
  BY <1>1, <1>2, <1>4, <1>5, <1>6, LocalStep DEF Ports

(* A step that only moves on, past no binding, keeps the invariant.         *)
LEMMA MoveKeeps ==
    ASSUME IInv, NEW p \in Procs, NEW next \in Stages, Continue(p, next),
           UNCHANGED <<addresses, sock>>,
           pcm' \in [Procs -> {"none", "prepared", "running"}],
           handlers' \in [Procs -> Seq(Ports \cup {"sound"})],
           \A q \in Procs \ {p} : handlers'[q] = handlers[q],
           \A port \in Ports : SocketAt(next, port) = SocketAt(stage[p], port),
           \A port \in Ports : next \in Unbound(port) <=> stage[p] \in Unbound(port),
           handlers'[p] \in HandlersAt(Args[p].prog, next)
    PROVE  IInv'
<1>1. TypeOK'
  BY DEF IInv, TypeOK, Continue, addresses
<1>2. stage'[p] = next /\ \A q \in Procs \ {p} : stage'[q] = stage[q]
  BY DEF IInv, TypeOK, Continue
<1>3. \A port \in Ports, fam \in Families :
          sock'[p][port][fam] =
              IF fam = our'[p].fam THEN SocketAt(stage'[p], port) ELSE "none"
  BY <1>2 DEF IInv, SocketsFollow, addresses
<1>4. stage'[p] \notin Unbound("rtp") => Bindable(p)'
  BY <1>2 DEF IInv, BindableOnce, Bindable, Ports, addresses
<1> QED
  BY <1>1, <1>2, <1>3, <1>4, LocalStep DEF addresses

LEMMA BindKeeps ==
    ASSUME IInv, NEW p \in Procs, NEW port \in Ports, Bind(p, port)
    PROVE  IInv'
<1>1. CASE Die(p)
  BY <1>1, DieKeeps
<1>2. CASE /\ Bindable(p) /\ ~Taken(p, port)
           /\ sock' = [sock EXCEPT ![p][port][our[p].fam] = "bound"]
           /\ Continue(p, ConnectStage(port))
           /\ UNCHANGED <<addresses, pcm, handlers>>
  <2> DEFINE ourFam == our[p].fam
  <2>1. ourFam \in Families
    BY <1>2 DEF Bindable
  <2>2. stage[p] = BindStage(port) /\ stage'[p] = ConnectStage(port)
    BY <1>2 DEF Bind, IInv, TypeOK, Continue
  <2>3. TypeOK'
    BY <1>2, <2>1, Zenon DEF IInv, TypeOK, Continue, SocketStates, Stages, ConnectStage, addresses
  <2>4. \A q \in Procs \ {p} :
            stage'[q] = stage[q] /\ sock'[q] = sock[q] /\ handlers'[q] = handlers[q]
    BY <1>2 DEF IInv, TypeOK, Continue
  <2>0. our' = our /\ peer' = peer /\ Bindable(p) = Bindable(p)'
    BY <1>2 DEF addresses, Bindable
  <2>5. \A other \in Ports, fam \in Families :
            sock'[p][other][fam] =
                IF other = port /\ fam = ourFam THEN "bound" ELSE sock[p][other][fam]
    BY <1>2, <2>1 DEF IInv, TypeOK
  <2>6. \A other \in Ports, fam \in Families :
            sock'[p][other][fam] =
                IF fam = ourFam THEN SocketAt(stage'[p], other) ELSE "none"
    <3>1. \A other \in Ports :
              SocketAt(stage'[p], other) =
                  IF other = port THEN "bound" ELSE SocketAt(stage[p], other)
      <4>1. CASE port = "rtp"
        BY <2>2, <4>1 DEF SocketAt, Unbound, BindStage, ConnectStage, Ports
      <4>2. CASE port = "rtcp"
        BY <2>2, <4>2 DEF SocketAt, Unbound, BindStage, ConnectStage, Ports
      <4> QED
        BY <4>1, <4>2 DEF Ports
    <3>2. \A other \in Ports, fam \in Families :
              sock[p][other][fam] = IF fam = ourFam THEN SocketAt(stage[p], other) ELSE "none"
      BY DEF IInv, SocketsFollow
    <3> QED
      BY <2>5, <3>1, <3>2
  <2>7. \A q \in Procs \ {p} :
            stage[q] \notin Unbound(port) => our[q] # our[p]
    <3> SUFFICES ASSUME NEW q \in Procs \ {p}, stage[q] \notin Unbound(port),
                        our[q] = our[p]
                 PROVE  FALSE
      OBVIOUS
    <3>1. sock[q][port][ourFam] # "none"
      BY <2>1 DEF IInv, SocketsFollow, SocketAt
    <3> QED
      BY <1>2, <3>1 DEF Taken
  <2>8. \A other \in Ports : stage'[p] \notin Unbound(other) =>
            stage[p] \notin Unbound(other) \/ other = port
    BY <2>2 DEF Unbound, BindStage, ConnectStage, Ports
  <2>9. handlers'[p] \in HandlersAt(Args[p].prog, stage'[p])
    BY <1>2, <2>2 DEF IInv, HandlersFollow, HandlersAt, Unbound, BindStage, ConnectStage, Ports
  <2> QED
    BY <1>2, <2>0, <2>3, <2>4, <2>6, <2>7, <2>8, <2>9, LocalStep
<1> QED
  BY <1>1, <1>2 DEF Bind

LEMMA ConnectKeeps ==
    ASSUME IInv, NEW p \in Procs, NEW port \in Ports, Connect(p, port)
    PROVE  IInv'
<1> DEFINE peerFam == peer[p].fam
<1>1. CASE Die(p)
  BY <1>1, DieKeeps
<1>2. CASE /\ peerFam # "none"
           /\ sock' = [sock EXCEPT ![p][port][peerFam] = "connected"]
           /\ Continue(p, After(port))
           /\ handlers' = IF Receives(p, port) THEN [handlers EXCEPT ![p] = Append(@, port)]
                          ELSE handlers
           /\ UNCHANGED <<addresses, pcm>>
  <2>1. stage[p] = ConnectStage(port) /\ stage'[p] = After(port)
    BY <1>2 DEF Connect, IInv, TypeOK, Continue
  <2>2. Bindable(p)
    BY <2>1 DEF IInv, BindableOnce, ConnectStage, Unbound
  <2>3. peerFam = our[p].fam /\ peerFam \in Families
    BY <1>2, <2>2 DEF Bindable
  <2>4. handlers' \in [Procs -> Seq(Ports \cup {"sound"})]
    BY <1>2 DEF IInv, TypeOK
  <2>5. TypeOK'
    BY <1>2, <2>3, <2>4, Zenon DEF IInv, TypeOK, Continue, SocketStates, Stages, After, addresses
  <2>6. \A q \in Procs \ {p} :
            stage'[q] = stage[q] /\ sock'[q] = sock[q] /\ handlers'[q] = handlers[q]
    BY <1>2 DEF IInv, TypeOK, Continue
  <2>0. our' = our /\ peer' = peer /\ Bindable(p) = Bindable(p)'
    BY <1>2 DEF addresses, Bindable
  <2>7. \A other \in Ports, fam \in Families :
            sock'[p][other][fam] =
                IF other = port /\ fam = peerFam THEN "connected" ELSE sock[p][other][fam]
    BY <1>2, <2>3 DEF IInv, TypeOK
  <2>8. \A other \in Ports, fam \in Families :
            sock'[p][other][fam] =
                IF fam = our'[p].fam THEN SocketAt(stage'[p], other) ELSE "none"
    <3>1. \A other \in Ports :
              SocketAt(stage'[p], other) =
                  IF other = port THEN "connected" ELSE SocketAt(stage[p], other)
      BY <2>1 DEF SocketAt, Unbound, After, ConnectStage, Ports
    <3>2. \A other \in Ports, fam \in Families :
              sock[p][other][fam] = IF fam = peerFam THEN SocketAt(stage[p], other) ELSE "none"
      BY <2>3 DEF IInv, SocketsFollow
    <3> QED
      BY <2>0, <2>3, <2>7, <3>1, <3>2
  <2>9. \A other \in Ports :
            stage'[p] \notin Unbound(other) => stage[p] \notin Unbound(other)
    BY <2>1 DEF Unbound, After, ConnectStage, Ports
  <2>10. handlers'[p] \in HandlersAt(Args[p].prog, stage'[p])
    <3>1. handlers[p] \in HandlersAt(Args[p].prog, stage[p])
      BY DEF IInv, HandlersFollow
    <3>2. handlers'[p] = IF Receives(p, port) THEN Append(handlers[p], port) ELSE handlers[p]
      BY <1>2 DEF IInv, TypeOK
    <3>3. Append(<<>>, port) = <<port>>
      OBVIOUS
    <3>4. Args[p].prog \in {"relay", "player"}
      BY StartupAssumption
    <3>5. CASE port = "rtp"
      BY <2>1, <3>1, <3>2, <3>3, <3>4, <3>5
      DEF Receives, HandlersAt, Unbound, After, ConnectStage
    <3>6. CASE port = "rtcp"
      BY <2>1, <3>1, <3>2, <3>3, <3>4, <3>6
      DEF Receives, HandlersAt, Unbound, After, ConnectStage
    <3> QED
      BY <3>5, <3>6 DEF Ports
  <2>11. stage'[p] \notin Unbound("rtp") => Bindable(p)'
    BY <2>0, <2>2
  <2>12. \A q \in Procs \ {p} :
            /\ stage'[q] = stage[q] /\ sock'[q] = sock[q] /\ handlers'[q] = handlers[q]
            /\ our'[q] = our[q] /\ peer'[q] = peer[q]
    BY <2>0, <2>6
  <2>13. \A other \in Ports : stage'[p] \notin Unbound(other) =>
             our'[p] = our[p] /\ stage[p] \notin Unbound(other)
    BY <2>0, <2>9
  <2> QED
    BY <2>5, <2>8, <2>10, <2>11, <2>12, <2>13, LocalStep
<1> QED
  BY <1>1, <1>2 DEF Connect

(* The steps that touch no socket: of these only RunRelay registers.        *)
LEMMA DeviceKeeps ==
    ASSUME IInv, NEW p \in Procs,
           OptionsDone(p) \/ FindSource(p) \/ FindSink(p) \/ OpenSource(p) \/ OpenSink(p)
           \/ SetParams(p) \/ RunRelay(p) \/ RunPlayer(p)
    PROVE  IInv'
<1> DEFINE Quietly(next) ==
        /\ Continue(p, next)
        /\ pcm' \in [Procs -> {"none", "prepared", "running"}]
        /\ UNCHANGED <<addresses, sock, handlers>>
<1>1. handlers[p] \in HandlersAt(Args[p].prog, stage[p])
  BY DEF IInv, HandlersFollow
<1>2. CASE Die(p)
  BY <1>2, DieKeeps
<1>3. CASE stage[p] = "options" /\ Quietly("bind rtp")
  <2>1. \A port \in Ports :
            /\ SocketAt("bind rtp", port) = SocketAt(stage[p], port)
            /\ "bind rtp" \in Unbound(port) <=> stage[p] \in Unbound(port)
    BY <1>3 DEF SocketAt, Unbound, ConnectStage
  <2>2. handlers'[p] \in HandlersAt(Args[p].prog, "bind rtp")
    BY <1>1, <1>3 DEF HandlersAt, Unbound
  <2> QED
    BY <1>3, <2>1, <2>2, MoveKeeps DEF Stages, IInv, TypeOK
<1>4. ASSUME NEW next \in {"open", "params", "run", "loop"},
             stage[p] \in {"find", "open", "params", "run"}, Quietly(next)
      PROVE  IInv'
  <2>1. \A port \in Ports :
            /\ SocketAt(next, port) = SocketAt(stage[p], port)
            /\ next \in Unbound(port) <=> stage[p] \in Unbound(port)
    BY <1>4 DEF SocketAt, Unbound, ConnectStage
  <2>2. handlers'[p] \in HandlersAt(Args[p].prog, next)
    BY <1>1, <1>4 DEF HandlersAt, Unbound
  <2>3. next \in Stages
    BY DEF Stages
  <2>4. handlers' = handlers /\ handlers \in [Procs -> Seq(Ports \cup {"sound"})]
    BY <1>4 DEF IInv, TypeOK
  <2> QED
    BY <1>4, <2>1, <2>2, <2>3, <2>4, MoveKeeps
<1>5. CASE /\ stage[p] = "run" /\ Args[p].prog = "relay"
           /\ pcm' \in [Procs -> {"none", "prepared", "running"}]
           /\ handlers' = [handlers EXCEPT ![p] = Append(@, "sound")]
           /\ Continue(p, "loop")
           /\ UNCHANGED <<addresses, sock>>
  <2>1. \A port \in Ports :
            /\ SocketAt("loop", port) = SocketAt(stage[p], port)
            /\ "loop" \in Unbound(port) <=> stage[p] \in Unbound(port)
    BY <1>5 DEF SocketAt, Unbound, ConnectStage
  <2>2. handlers[p] = <<"rtcp">>
    BY <1>1, <1>5 DEF HandlersAt, Unbound
  <2>3. handlers'[p] = <<"rtcp", "sound">>
    <3>1. handlers'[p] = Append(handlers[p], "sound")
      BY <1>5 DEF IInv, TypeOK
    <3> QED
      BY <2>2, <3>1, AppendToOne
  <2>4. handlers'[p] \in HandlersAt(Args[p].prog, "loop")
    <3>1. "loop" \notin Unbound("rtcp") \cup {"connect rtcp"}
      BY DEF Unbound
    <3>2. HandlersAt("relay", "loop") = {<<"rtcp">>, <<"rtcp", "sound">>}
      BY <3>1 DEF HandlersAt
    <3> QED
      BY <1>5, <2>3, <3>2, Zenon
  <2>5. handlers' \in [Procs -> Seq(Ports \cup {"sound"})]
    BY <1>5 DEF IInv, TypeOK
  <2>6. \A q \in Procs \ {p} : handlers'[q] = handlers[q]
    BY <1>5 DEF IInv, TypeOK
  <2> QED
    BY <1>5, <2>1, <2>4, <2>5, <2>6, MoveKeeps DEF Stages
<1>6. CASE OptionsDone(p)
  BY <1>3, <1>6 DEF OptionsDone, IInv, TypeOK
<1>7. CASE OpenSource(p) \/ OpenSink(p)
  BY <1>4, <1>7 DEF OpenSource, OpenSink, Open, IInv, TypeOK
<1>8. CASE SetParams(p)
  BY <1>2, <1>4, <1>8 DEF SetParams, IInv, TypeOK
<1>9. CASE RunRelay(p)
  BY <1>2, <1>4, <1>5, <1>9 DEF RunRelay, IInv, TypeOK
<1>10. CASE RunPlayer(p)
  BY <1>2, <1>4, <1>10 DEF RunPlayer, IInv, TypeOK
<1>11. CASE FindSource(p) \/ FindSink(p)
  BY <1>2, <1>4, <1>11 DEF FindSource, FindSink, Find, IInv, TypeOK
<1> QED
  BY <1>6, <1>7, <1>8, <1>9, <1>10, <1>11

(* An option changes the addresses of a process that has no socket yet.     *)
LEMMA OptionKeeps ==
    ASSUME IInv, NEW p \in Procs, ParseOption(p)
    PROVE  IInv'
<1> DEFINE option == Args[p].options[optind[p]]
           Set(address) == [address EXCEPT ![p] = Assigned(@, option.arg)]
<1>1. CASE Die(p)
  BY <1>1, DieKeeps
<1>2. CASE /\ stage[p] = "options" /\ optind[p] <= Len(Args[p].options)
           /\ option.opt \in {"x", "a"} => option.arg # Unscoped
           /\ optind' = [optind EXCEPT ![p] = @ + 1]
           /\ our' = IF option.opt = "x" THEN Set(our) ELSE our
           /\ peer' = IF option.opt = "a" THEN Set(peer) ELSE peer
           /\ UNCHANGED <<stage, sock, pcm, handlers>>
  <2>1. TypeOK'
    <3>1. optind[p] \in Nat \ {0} /\ Args[p].options \in Seq(OptionType)
      BY StartupAssumption DEF IInv, TypeOK
    <3>2. optind' \in [Procs -> Nat \ {0}]
      BY <1>2, <3>1 DEF IInv, TypeOK
    <3>3. option \in OptionType
      BY <1>2, <3>1
    <3>4. option.opt \in {"x", "a"} => \A addr \in AddressType \cup {NoAddress} :
              Assigned(addr, option.arg) \in AddressType \cup {NoAddress}
      BY <1>2, <3>3 DEF OptionType, Assigned
    <3>5. option.opt \in {"x", "a"} => \A address \in [Procs -> AddressType \cup {NoAddress}] :
              Set(address) \in [Procs -> AddressType \cup {NoAddress}]
      BY <3>4
    <3> QED
      BY <1>2, <3>2, <3>5 DEF IInv, TypeOK
  <2>2. \A q \in Procs \ {p} :
            /\ stage'[q] = stage[q] /\ sock'[q] = sock[q] /\ handlers'[q] = handlers[q]
            /\ our'[q] = our[q] /\ peer'[q] = peer[q]
    BY <1>2 DEF IInv, TypeOK
  <2>3. stage'[p] = "options" /\ \A port \in Ports : "options" \in Unbound(port)
    BY <1>2 DEF Unbound
  <2>4. \A port \in Ports, fam \in Families : sock'[p][port][fam] = "none"
    BY <1>2, <2>3 DEF IInv, SocketsFollow, SocketAt
  <2>5. \A port \in Ports : SocketAt(stage'[p], port) = "none"
    BY <2>3 DEF SocketAt
  <2>6. handlers'[p] \in HandlersAt(Args[p].prog, stage'[p])
    BY <1>2 DEF IInv, HandlersFollow
  <2> QED
    BY <2>1, <2>2, <2>3, <2>4, <2>5, <2>6, LocalStep DEF Ports
<1> QED
  BY <1>1, <1>2 DEF ParseOption

LEMMA LaunchKeeps ==
    ASSUME IInv, NEW p \in Procs, Launch(p)
    PROVE  IInv'
<1>1. stage[p] = "dead" /\ Continue(p, "options") /\ UNCHANGED <<addresses, sock, pcm, handlers>>
  BY DEF Launch, Continue
<1>2. \A port \in Ports :
          /\ SocketAt("options", port) = SocketAt(stage[p], port)
          /\ "options" \in Unbound(port) <=> stage[p] \in Unbound(port)
  BY <1>1 DEF SocketAt, Unbound, ConnectStage
<1>3. handlers'[p] \in HandlersAt(Args[p].prog, "options")
  BY <1>1 DEF IInv, HandlersFollow, HandlersAt, Unbound
<1> QED
  BY <1>1, <1>2, <1>3, MoveKeeps DEF Stages, IInv, TypeOK

(* The invariant holds in every reachable state.                            *)
THEOREM StartupInvariance == Spec => []IInv
<1>1. Init => IInv
  <2> SUFFICES ASSUME Init PROVE IInv
    OBVIOUS
  <2>1. TypeOK
    BY DEF Init, TypeOK, NoSockets, SocketStates, Stages
  <2>2. SocketsFollow /\ BindableOnce /\ OneOwner
    BY DEF Init, SocketsFollow, BindableOnce, OneOwner, NoSockets, SocketAt, Unbound
  <2>3. HandlersFollow
    BY DEF Init, HandlersFollow, HandlersAt, Unbound
  <2> QED
    BY <2>1, <2>2, <2>3 DEF IInv
<1>2. IInv /\ [Next]_vars => IInv'
  <2> SUFFICES ASSUME IInv, [Next]_vars PROVE IInv'
    OBVIOUS
  <2>1. CASE UNCHANGED vars
    BY <2>1 DEF vars, addresses, IInv, TypeOK, SocketsFollow, BindableOnce, Bindable, OneOwner, HandlersFollow
  <2>2. ASSUME NEW p \in Procs, Launch(p) PROVE IInv'
    BY <2>2, LaunchKeeps
  <2>3. ASSUME NEW p \in Procs, Killed(p) PROVE IInv'
    BY <2>3, DieKeeps DEF Killed
  <2>4. ASSUME NEW p \in Procs, Step(p) PROVE IInv'
    BY <2>4, BindKeeps, ConnectKeeps, OptionKeeps, DeviceKeeps DEF Step
  <2> QED
    BY <2>1, <2>2, <2>3, <2>4 DEF Next
<1> QED
  BY <1>1, <1>2, PTL DEF Spec

(* Every variable keeps its type.                                           *)
THEOREM StartupTypes == Spec => []TypeOK
<1>1. IInv => TypeOK
  BY DEF IInv
<1> QED
  BY <1>1, StartupInvariance, PTL

(* A process in its loop (EventLoop::main) has one socket per connection,   *)
(* bound and connected: what Socket::fileNo, recv and send choose.          *)
THEOREM StartupConnects == Spec => []LoopConnected
<1>1. IInv => LoopConnected
  <2> SUFFICES ASSUME IInv, NEW p \in Procs, NEW port \in Ports, stage[p] = "loop"
               PROVE  \E fam \in Families :
                          /\ sock[p][port][fam] = "connected" /\ our[p].fam = fam
                          /\ \A other \in Families \ {fam} : sock[p][port][other] = "none"
    BY DEF LoopConnected, InLoop
  <2>1. our[p].fam \in Families
    BY DEF IInv, BindableOnce, Bindable, Unbound
  <2>2. SocketAt(stage[p], port) = "connected"
    BY DEF SocketAt, Unbound, ConnectStage
  <2> QED
    BY <2>1, <2>2 DEF IInv, SocketsFollow
<1> QED
  BY <1>1, StartupInvariance, PTL

(* bind() lets one process of one address into its loop.                    *)
THEOREM StartupExcludes == Spec => []PortsExclusive
<1>1. IInv => PortsExclusive
  BY DEF IInv, OneOwner, PortsExclusive, InLoop, Unbound, Ports
<1> QED
  BY <1>1, StartupInvariance, PTL

(* What is registered with the event loop, in the order of the sessions.    *)
THEOREM StartupRegisters == Spec => []SocketsFirst
<1>1. IInv => SocketsFirst
  BY StartupAssumption DEF IInv, HandlersFollow, HandlersAt, SocketsFirst, InLoop, Unbound
<1> QED
  BY <1>1, StartupInvariance, PTL

(***************************************************************************)
(* The addresses                                                            *)
(***************************************************************************)
(* The options up to n that set an address.                                 *)
Given(p, opt, n) ==
    {i \in DOMAIN Args[p].options :
        i < n /\ Args[p].options[i].opt = opt /\ Args[p].options[i].arg # Unreadable}

LastOf(p, opt, n, addr) ==
    IF Given(p, opt, n) = {} THEN addr = NoAddress
    ELSE \E i \in Given(p, opt, n) :
            addr = Args[p].options[i].arg /\ \A j \in Given(p, opt, n) : j <= i

(* The addresses are the last of the options read so far, and all are read  *)
(* when a process goes on.                                                  *)
ReadOf(p) ==
    stage[p] # "dead" =>
        /\ LastOf(p, "x", optind[p], our[p])
        /\ LastOf(p, "a", optind[p], peer[p])
        /\ stage[p] # "options" => optind[p] > Len(Args[p].options)

ReadSoFar == \A p \in Procs : ReadOf(p)

LEMMA SameRead ==
    ASSUME NEW p \in Procs, ReadOf(p),
           stage'[p] = stage[p], optind'[p] = optind[p], our'[p] = our[p], peer'[p] = peer[p]
    PROVE  ReadOf(p)'
  BY DEF ReadOf, LastOf, Given

(* Reading option n: the next one is the last if it sets this address.      *)
LEMMA LastOfNext ==
    ASSUME NEW p \in Procs, NEW opt, NEW n \in 1 .. Len(Args[p].options), NEW addr,
           LastOf(p, opt, n, addr)
    PROVE  /\ Args[p].options[n].opt # opt => LastOf(p, opt, n + 1, addr)
           /\ Args[p].options[n].opt = opt =>
                  LastOf(p, opt, n + 1, Assigned(addr, Args[p].options[n].arg))
<1> DEFINE option == Args[p].options[n]
<1>1. Args[p].options \in Seq(OptionType)
  BY StartupAssumption
<1>2. DOMAIN Args[p].options = 1 .. Len(Args[p].options) /\ Len(Args[p].options) \in Nat
  BY <1>1
<1>3. CASE option.opt # opt \/ option.arg = Unreadable
  <2>1. Given(p, opt, n + 1) = Given(p, opt, n)
    BY <1>2, <1>3 DEF Given
  <2> QED
    BY <1>3, <2>1 DEF LastOf, Assigned
<1>4. CASE option.opt = opt /\ option.arg # Unreadable
  <2>1. n \in Given(p, opt, n + 1) /\ \A j \in Given(p, opt, n + 1) : j <= n
    BY <1>2, <1>4 DEF Given
  <2> QED
    BY <1>4, <2>1 DEF LastOf, Assigned
<1> QED
  BY <1>3, <1>4

(* An option of one process.                                                *)
LEMMA OptionRead ==
    ASSUME TypeOK, ReadSoFar, NEW p \in Procs, ParseOption(p), ~Die(p)
    PROVE  ReadSoFar'
<1> DEFINE n      == optind[p]
           option == Args[p].options[n]
<1>1. /\ stage[p] = "options" /\ n \in 1 .. Len(Args[p].options) /\ option.opt # "h"
      /\ optind' = [optind EXCEPT ![p] = @ + 1]
      /\ our' = IF option.opt = "x" THEN [our EXCEPT ![p] = Assigned(@, option.arg)] ELSE our
      /\ peer' = IF option.opt = "a" THEN [peer EXCEPT ![p] = Assigned(@, option.arg)] ELSE peer
      /\ UNCHANGED stage
  <2>1. Args[p].options \in Seq(OptionType)
    BY StartupAssumption
  <2> QED
    BY <2>1 DEF ParseOption, TypeOK
<1>2. option.opt \in {"x", "a", "y"}
  <2>1. option \in OptionType
    <3>1. Args[p].options \in Seq(OptionType)
      BY StartupAssumption
    <3> QED
      BY <1>1, <3>1
  <2> QED
    BY <1>1, <2>1 DEF OptionType
<1>3. LastOf(p, "x", n, our[p]) /\ LastOf(p, "a", n, peer[p])
  BY <1>1 DEF ReadSoFar, ReadOf
<1>4. LastOf(p, "x", n + 1, our'[p]) /\ LastOf(p, "a", n + 1, peer'[p])
  <2>1. CASE option.opt = "x"
    <3>1. our'[p] = Assigned(our[p], option.arg) /\ peer'[p] = peer[p]
      BY <1>1, <2>1 DEF TypeOK
    <3> QED
      BY <1>1, <1>3, <2>1, <3>1, LastOfNext
  <2>2. CASE option.opt = "a"
    <3>1. peer'[p] = Assigned(peer[p], option.arg) /\ our'[p] = our[p]
      BY <1>1, <2>2 DEF TypeOK
    <3> QED
      BY <1>1, <1>3, <2>2, <3>1, LastOfNext
  <2>3. CASE option.opt = "y"
    <3>1. peer'[p] = peer[p] /\ our'[p] = our[p]
      BY <1>1, <2>3
    <3> QED
      BY <1>1, <1>3, <2>3, <3>1, LastOfNext
  <2> QED
    BY <1>2, <2>1, <2>2, <2>3
<1>5. optind'[p] = n + 1 /\ stage'[p] = "options"
  BY <1>1 DEF TypeOK
<1>6. \A q \in Procs \ {p} :
          optind'[q] = optind[q] /\ our'[q] = our[q] /\ peer'[q] = peer[q] /\ stage'[q] = stage[q]
  BY <1>1 DEF TypeOK
<1>7. ReadOf(p)'
  BY <1>4, <1>5 DEF ReadOf, LastOf, Given
<1> QED
  BY <1>6, <1>7, SameRead DEF ReadSoFar

(* The steps that leave the addresses alone.                                *)
LEMMA OthersRead ==
    ASSUME TypeOK, ReadSoFar, NEW p \in Procs, NEW next, UNCHANGED addresses, Continue(p, next),
           \/ stage[p] \notin {"dead", "options"}
           \/ stage[p] = "options" /\ optind[p] > Len(Args[p].options)
    PROVE  ReadSoFar'
<1>1. ReadOf(p) /\ optind'[p] = optind[p] /\ our'[p] = our[p] /\ peer'[p] = peer[p]
  BY DEF ReadSoFar, addresses
<1>2. ReadOf(p)'
  BY <1>1 DEF ReadOf, LastOf, Given
<1>3. \A q \in Procs \ {p} :
          optind'[q] = optind[q] /\ our'[q] = our[q] /\ peer'[q] = peer[q] /\ stage'[q] = stage[q]
  BY DEF addresses, Continue, TypeOK
<1> QED
  BY <1>2, <1>3, SameRead DEF ReadSoFar

LEMMA EmptyGiven ==
    ASSUME NEW p \in Procs, NEW opt
    PROVE  LastOf(p, opt, 1, NoAddress)
<1>1. Args[p].options \in Seq(OptionType)
  BY StartupAssumption
<1>2. Given(p, opt, 1) = {}
  BY <1>1 DEF Given
<1> QED
  BY <1>2 DEF LastOf

(* A process that has read its options has the last address that could be   *)
(* read of either kind (main, IpAddress::operator=).                        *)
THEOREM StartupReads == Spec => []AddressesAsGiven
<1> DEFINE Unread == \A p \in Procs : stage[p] = "dead" =>
                        optind[p] = 1 /\ our[p] = NoAddress /\ peer[p] = NoAddress
           RInv   == ReadSoFar /\ Unread
<1>1. Init => RInv
  BY DEF Init, ReadSoFar, ReadOf
<1>2. TypeOK /\ RInv /\ [Next]_vars => RInv'
  <2> SUFFICES ASSUME TypeOK, RInv, [Next]_vars PROVE RInv'
    OBVIOUS
  <2>1. CASE UNCHANGED vars
    BY <2>1, SameRead DEF vars, ReadSoFar
  <2>2. ASSUME NEW p \in Procs, Die(p) PROVE RInv'
    <3>1. stage'[p] = "dead" /\ optind'[p] = 1 /\ our'[p] = NoAddress /\ peer'[p] = NoAddress
      BY <2>2 DEF Die, TypeOK
    <3>2. \A q \in Procs \ {p} :
              /\ optind'[q] = optind[q] /\ our'[q] = our[q] /\ peer'[q] = peer[q]
              /\ stage'[q] = stage[q]
      BY <2>2 DEF Die, TypeOK
    <3>3. ReadOf(p)'
      BY <3>1 DEF ReadOf
    <3> QED
      BY <3>1, <3>2, <3>3, SameRead DEF ReadSoFar
  <2>3. ASSUME NEW p \in Procs, Launch(p) PROVE RInv'
    <3>1. stage[p] = "dead" /\ stage' = [stage EXCEPT ![p] = "options"] /\ UNCHANGED addresses
      BY <2>3 DEF Launch, addresses
    <3>2. LastOf(p, "x", optind[p], our[p]) /\ LastOf(p, "a", optind[p], peer[p])
      BY <3>1, EmptyGiven
    <3> QED
      <4>1. ReadOf(p)'
        BY <3>1, <3>2 DEF ReadOf, LastOf, Given, addresses, TypeOK
      <4>2. \A q \in Procs \ {p} :
                /\ optind'[q] = optind[q] /\ our'[q] = our[q] /\ peer'[q] = peer[q]
                /\ stage'[q] = stage[q]
        BY <3>1 DEF addresses, TypeOK
      <4> QED
        BY <3>1, <4>1, <4>2, SameRead DEF ReadSoFar, addresses, TypeOK
  <2>4. ASSUME NEW p \in Procs, Step(p), ~Die(p) PROVE RInv'
    <3>1. CASE ParseOption(p)
      <4>1. \A q \in Procs : stage'[q] = "dead" => q # p
        BY <2>4, <3>1 DEF ParseOption, TypeOK
      <4>2. \A q \in Procs \ {p} :
                /\ optind'[q] = optind[q] /\ our'[q] = our[q] /\ peer'[q] = peer[q]
                /\ stage'[q] = stage[q]
        BY <2>4, <3>1 DEF ParseOption, TypeOK
      <4> QED
        BY <2>4, <3>1, <4>1, <4>2, OptionRead
    <3>2. CASE ~ParseOption(p)
      <4>1. PICK next \in Stages \ {"dead"} : Continue(p, next)
        BY <2>4, <3>2 DEF Step, OptionsDone, Bind, Connect, FindSource, FindSink, Find, OpenSource,
           OpenSink, Open, SetParams, RunRelay, RunPlayer, Stages, ConnectStage, After, Ports
      <4>2. UNCHANGED addresses
        BY <2>4, <3>2 DEF Step, OptionsDone, Bind, Connect, FindSource, FindSink, Find, OpenSource,
           OpenSink, Open, SetParams, RunRelay, RunPlayer, addresses
      <4>3. \/ stage[p] \notin {"dead", "options"}
            \/ stage[p] = "options" /\ optind[p] > Len(Args[p].options)
        BY <2>4, <3>2 DEF Step, OptionsDone, Bind, Connect, FindSource, FindSink, Find, OpenSource,
           OpenSink, Open, SetParams, RunRelay, RunPlayer, BindStage, ConnectStage, Ports
      <4> QED
        BY <4>1, <4>2, <4>3, OthersRead DEF Continue, addresses, TypeOK
    <3> QED
      BY <3>1, <3>2
  <2> QED
    BY <2>1, <2>2, <2>3, <2>4 DEF Next, Killed
<1>3. TypeOK /\ RInv => AddressesAsGiven
  <2> SUFFICES ASSUME TypeOK, ReadSoFar, NEW p \in Procs, stage[p] \notin {"dead", "options"}
               PROVE  LastGiven(p, "x", our[p]) /\ LastGiven(p, "a", peer[p])
    BY DEF AddressesAsGiven
  <2>1. optind[p] > Len(Args[p].options) /\ Args[p].options \in Seq(OptionType) /\ optind[p] \in Nat
    BY StartupAssumption DEF ReadSoFar, ReadOf, TypeOK
  <2>2. \A opt : Given(p, opt, optind[p]) =
                {i \in DOMAIN Args[p].options :
                    Args[p].options[i].opt = opt /\ Args[p].options[i].arg # Unreadable}
    BY <2>1 DEF Given
  <2>3. LastOf(p, "x", optind[p], our[p]) /\ LastOf(p, "a", optind[p], peer[p])
    BY DEF ReadSoFar, ReadOf
  <2> QED
    BY <2>2, <2>3 DEF LastOf, LastGiven
<1> QED
  BY <1>1, <1>2, <1>3, StartupTypes, PTL DEF Spec
===============================================================================
