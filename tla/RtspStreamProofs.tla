---------------------------- MODULE RtspStreamProofs ----------------------------
(***************************************************************************)
(* What a step of the RTSP front end may do, for every set of clients,      *)
(* links, requests and process ids: the front end implements RelayStream,   *)
(* the answers to SETUP are true, and only somebody who knows the session   *)
(* ends a stream.  All three follow from the inductive invariant of         *)
(* RtspServerProofs.                                                        *)
(***************************************************************************)
EXTENDS RtspServerProofs

(* The current stream of a session and its processes.                       *)
Arguments(x) == [rtp |-> x.rtp, rtcp |-> x.rtcp, our |-> x.our]

StreamOf(s, r) ==
    IF s.pid = Unset \/ Blank(r[s.pid]) THEN Unset ELSE Arguments(r[s.pid])

-------------------------------------------------------------------------------
(***************************************************************************)
(* The stream and the session                                               *)
(***************************************************************************)
LEMMA StreamNow ==
    CurrentStream = StreamOf(sess, relay) /\ CurrentStream' = StreamOf(sess', relay')
  BY DEF CurrentStream, StreamOf, Arguments

(* Once a SETUP has been carried out every attribute of the session is set. *)
LEMMA SetUpIsComplete ==
    ASSUME Inv, ~Blank(sess) PROVE Complete(sess)
  BY AskedIsComplete DEF Inv, Unmixed

LEMMA RequestIsNoReply ==
    /\ Requests \cap Replies = {}
    /\ Requests \cap {Eof, Reset} = {}
    /\ Replies \cap {Eof, Reset} = {}
  <1>1. ASSUME NEW q \in Requests PROVE DOMAIN q # {"kind", "code"} /\ DOMAIN q # {"kind"}
    <2>1. DOMAIN q = {"method", "require", "close", "session", "udp", "rtp", "rtcp"}
      BY RequestsTyped DEF RequestType
    <2>2. "method" \notin {"kind", "code"} /\ "method" \notin {"kind"}
      OBVIOUS
    <2> QED
      BY <2>1, <2>2
  <1>2. \A r \in Replies : DOMAIN r = {"kind", "code"} /\ r.kind = "reply"
    BY DEF Replies
  <1>3. DOMAIN Eof = {"kind"} /\ DOMAIN Reset = {"kind"} /\ Eof.kind = "eof" /\ Reset.kind = "reset"
    BY DEF Eof, Reset
  <1> QED
    BY <1>1, <1>2, <1>3

-------------------------------------------------------------------------------
(***************************************************************************)
(* SETUP                                                                    *)
(***************************************************************************)
(* The session after each way through SETUP: a refusal leaves it as it was, *)
(* as a relay is recorded and what may be set is what is there already;     *)
(* success sets all of it and keeps the recorded relay.                     *)
LEMMA SetupSession ==
    ASSUME Inv, NEW c \in Clients, HandleSetup(c)
    PROVE  \/ \E code \in {459, 461} : Answer(c, code, sess, relay, holds)
           \/ sess.pid # Unset /\ Answer(c, 455, sess, relay, holds)
           \/ \E s : Crash(s, relay, holds)
           \/ \E s \in Attributes :
                 /\ s.rtp = wire[c].rtp /\ s.rtcp = RtcpPort(wire[c])
                 /\ s.our = OurAddressFor(c) /\ s.peer = Link[c].peer
                 /\ s.pid = sess.pid /\ StreamOf(s, relay) = StreamOf(sess, relay)
                 /\ Answer(c, 200, s, relay, holds \cup {c})
  <1> DEFINE q     == wire[c]
             rtcp  == RtcpPort(q)
             our   == OurAddressFor(c)
             ports == [sess EXCEPT !.rtp = q.rtp, !.rtcp = rtcp]
             full  == [ports EXCEPT !.our = our, !.peer = Link[c].peer]
  <1>1. q \in Requests /\ q.method = "SETUP" /\ sess \in Attributes
    BY DEF HandleSetup, Reading, Requests, Inv, Consistent
  <1>2. q.rtp \in Nat /\ rtcp \in Nat
    <2>1. q.rtp \in Nat /\ q.rtcp \in Nat \cup {Unset}
      BY <1>1, ConstantsAssumption, RequestsTyped DEF ConstantsAssumption, RequestType
    <2> QED
      BY <2>1 DEF RtcpPort
  <1>3. our \in Addresses \cup {Unset} /\ Link[c].peer \in Addresses
    BY HostIpType, ConstantsAssumption DEF OurAddressFor, ConstantsAssumption, LinkType
  (* A refusal means that the session was set up, so that changeable means    *)
  (* unchanged.                                                               *)
  <1>4. ASSUME \/ ~Changeable(sess.rtp, q.rtp)
               \/ ~Changeable(sess.rtcp, rtcp)
               \/ ~Changeable(sess.our, our)
        PROVE  sess.pid # Unset /\ Complete(sess)
    BY <1>4, SetUpIsComplete DEF Changeable, Blank
  <1>5. ASSUME ~Changeable(sess.rtcp, rtcp), Changeable(sess.rtp, q.rtp)
        PROVE  [sess EXCEPT !.rtp = q.rtp] = sess
    <2>1. sess.rtp = q.rtp
      BY <1>4, <1>5 DEF Changeable, Complete
    <2> QED
      BY <1>1, <2>1 DEF Attributes
  <1>6. ASSUME ~Changeable(sess.our, our), Changeable(sess.rtp, q.rtp), Changeable(sess.rtcp, rtcp)
        PROVE  ports = sess
    <2>1. sess.rtp = q.rtp /\ sess.rtcp = rtcp
      BY <1>4, <1>6 DEF Changeable, Complete
    <2> QED
      BY <1>1, <2>1 DEF Attributes
  <1>7. ASSUME Changeable(sess.rtp, q.rtp), Changeable(sess.rtcp, rtcp), Changeable(sess.our, our),
               our # Unset
        PROVE  /\ full \in Attributes /\ full.rtp = q.rtp /\ full.rtcp = rtcp /\ full.our = our
               /\ full.peer = Link[c].peer /\ full.pid = sess.pid
               /\ StreamOf(full, relay) = StreamOf(sess, relay)
    <2>1. /\ full \in Attributes /\ full.rtp = q.rtp /\ full.rtcp = rtcp /\ full.our = our
          /\ full.peer = Link[c].peer /\ full.pid = sess.pid
      BY <1>1, <1>2, <1>3 DEF Attributes
    <2> HIDE DEF full
    <2> QED
      BY <2>1 DEF StreamOf
  <1> HIDE DEF ports, full
  <1>8. CASE \E code \in {459, 461} : Answer(c, code, sess, relay, holds)
    BY <1>8
  <1>9. CASE ~Changeable(sess.rtp, q.rtp) /\ Answer(c, 455, sess, relay, holds)
    BY <1>4, <1>9
  <1>10. CASE /\ Changeable(sess.rtp, q.rtp) /\ ~Changeable(sess.rtcp, rtcp)
              /\ Answer(c, 455, [sess EXCEPT !.rtp = q.rtp], relay, holds)
    BY <1>4, <1>5, <1>10
  <1>11. CASE Crash(ports, relay, holds)
    BY <1>11
  <1>12. CASE /\ Changeable(sess.rtp, q.rtp) /\ Changeable(sess.rtcp, rtcp)
              /\ ~Changeable(sess.our, our) /\ Answer(c, 455, ports, relay, holds)
    BY <1>4, <1>6, <1>12
  <1>13. CASE /\ Changeable(sess.rtp, q.rtp) /\ Changeable(sess.rtcp, rtcp) /\ our # Unset
              /\ Changeable(sess.our, our) /\ Answer(c, 200, full, relay, holds \cup {c})
    BY <1>7, <1>13
  <1> QED
    BY <1>8, <1>9, <1>10, <1>11, <1>12, <1>13 DEF HandleSetup, SetupPorts, Error, ports, full

-------------------------------------------------------------------------------
(***************************************************************************)
(* The front end implements RelayStream                                     *)
(***************************************************************************)
(* What an answered request does to the stream: with s and h the handler    *)
(* leaves, the client joins, starts or stops the stream, or neither; the    *)
(* closing of its connection afterwards is one more way to stop it.         *)
LEMMA FinishStream ==
    ASSUME NEW c \in Clients, NEW code, NEW s \in Attributes, NEW r,
           NEW h \in {holds, holds \cup {c}},
           \/ StreamOf(s, r) = StreamOf(sess, relay)
           \/ /\ StreamOf(s, r) \in Transport
              /\ StreamOf(sess, relay) \in {Unset, StreamOf(s, r)}
              /\ h = holds \cup {c}
           \/ s.pid = Unset /\ h = holds \cup {c},
           Finish(c, code, s, r, h)
    PROVE  [Stream!Next]_Stream!vars
  <1>2. CASE wire[c].close /\ c \in h
    <2>1. sess' = Stopped(s) /\ holds' = h \ {c}
      BY <1>2 DEF Finish
    <2>2. CurrentStream' = Unset
      BY <2>1, StreamNow, StoppedAttributes DEF StreamOf
    <2>3. Stream!Stop(c)
      BY <2>1, <2>2 DEF Stream!Stop
    <2> QED
      BY <2>3 DEF Stream!Next
  <1>3. CASE ~(wire[c].close /\ c \in h)
    <2>1. holds' = h /\ CurrentStream' = StreamOf(s, r) /\ CurrentStream = StreamOf(sess, relay)
      BY <1>3, StreamNow DEF Finish
    <2>2. CASE StreamOf(s, r) = StreamOf(sess, relay) /\ h = holds
      BY <2>1, <2>2 DEF Stream!vars
    <2>3. CASE StreamOf(s, r) = StreamOf(sess, relay) /\ h = holds \cup {c}
      BY <2>1, <2>3 DEF Stream!Next, Stream!Join
    <2>4. CASE /\ StreamOf(s, r) \in Transport
               /\ StreamOf(sess, relay) \in {Unset, StreamOf(s, r)}
               /\ h = holds \cup {c}
      BY <2>1, <2>4 DEF Stream!Next, Stream!Start
    <2>5. CASE s.pid = Unset /\ h = holds \cup {c}
      <3>1. CurrentStream' = Unset
        BY <2>1, <2>5 DEF StreamOf
      <3> QED
        BY <2>1, <2>5, <3>1 DEF Stream!Next, Stream!Stop
    <2> QED
      BY <2>2, <2>3, <2>4, <2>5
  <1> QED
    BY <1>2, <1>3

(* An uncaught exception ends the stream and every hold on it.              *)
LEMMA CrashStream ==
    ASSUME NEW s, NEW r, NEW h, Crash(s, r, h)
    PROVE  Stream!Next
  <1>1. CurrentStream' = Unset /\ holds' = {}
    BY StreamNow, FreshAttributes DEF Crash, StreamOf
  <1> QED
    BY <1>1 DEF Stream!Next, Stream!Shutdown

(* A step that leaves the session, the holders and the arguments of the     *)
(* recorded process alone is a stutter.                                     *)
LEMMA QuietStream ==
    ASSUME UNCHANGED <<sess, holds>>,
           sess.pid # Unset => /\ Arguments(relay'[sess.pid]) = Arguments(relay[sess.pid])
                               /\ Blank(relay'[sess.pid]) = Blank(relay[sess.pid])
    PROVE  UNCHANGED Stream!vars
  BY StreamNow DEF Stream!vars, StreamOf

LEMMA PlainAnswerStream ==
    ASSUME Inv, NEW c \in Clients, NEW code, Answer(c, code, sess, relay, holds)
    PROVE  [Stream!Next]_Stream!vars
  <1>1. sess \in Attributes
    BY DEF Inv, Consistent
  <1>2. CASE Finish(c, code, sess, relay, holds)
    BY <1>1, <1>2, FinishStream
  <1>3. CASE Crash(sess, relay, holds)
    BY <1>3, CrashStream
  <1> QED
    BY <1>2, <1>3 DEF Answer

LEMMA SetupStream ==
    ASSUME Inv, NEW c \in Clients, HandleSetup(c)
    PROVE  [Stream!Next]_Stream!vars
  <1>1. CASE \E code : Answer(c, code, sess, relay, holds)
    BY <1>1, PlainAnswerStream
  <1>2. CASE \E s : Crash(s, relay, holds)
    BY <1>2, CrashStream
  <1>3. ASSUME NEW s \in Attributes, StreamOf(s, relay) = StreamOf(sess, relay),
               Answer(c, 200, s, relay, holds \cup {c})
        PROVE  [Stream!Next]_Stream!vars
    <2>1. CASE Finish(c, 200, s, relay, holds \cup {c})
      BY <1>3, <2>1, FinishStream
    <2>2. CASE Crash(s, relay, holds \cup {c})
      BY <2>2, CrashStream
    <2> QED
      BY <1>3, <2>1, <2>2 DEF Answer
  <1> QED
    BY <1>1, <1>2, <1>3, SetupSession

(* PLAY starts the stream that the session describes: the one that runs     *)
(* already, if there is one; none, if nobody has set the session up.        *)
LEMMA PlayStream ==
    ASSUME Inv, NEW c \in Clients, HandlePlay(c)
    PROVE  [Stream!Next]_Stream!vars
  <1>1. CASE Error(c, 454)
    BY <1>1, PlainAnswerStream DEF Error
  <1>2. CASE Crash(sess, relay, holds \cup {c})
    BY <1>2, CrashStream
  <1>3. ASSUME NamesSession(c), NEW p \in Free,
               Answer(c, 200, [sess EXCEPT !.pid = p], [relay EXCEPT ![p] = Child(sess)],
                      holds \cup {c})
        PROVE  [Stream!Next]_Stream!vars
    <2> DEFINE s == [sess EXCEPT !.pid = p]
               r == [relay EXCEPT ![p] = Child(sess)]
    <2>1. /\ sess \in Attributes /\ relay \in Table /\ p \in Pids /\ p # Unset
          /\ Unmixed(sess)
          /\ sess.pid # Unset => Matches(sess, relay[sess.pid])
      BY <1>3, ConstantsAssumption
      DEF Inv, Consistent, Recorded, Free, ConstantsAssumption
    <2>2. s \in Attributes /\ s.pid = p /\ r[p] = Child(sess)
      BY <2>1 DEF Attributes, Table
    <2>3. Answer(c, 200, s, r, holds \cup {c})
      BY <1>3
    <2> HIDE DEF s, r
    <2>4. StreamOf(s, r) = IF Blank(sess) THEN Unset ELSE Arguments(sess)
      BY <2>1, <2>2 DEF StreamOf, Child, Blank, Arguments
    <2>5. \/ StreamOf(s, r) = StreamOf(sess, relay)
          \/ StreamOf(s, r) \in Transport /\ StreamOf(sess, relay) \in {Unset, StreamOf(s, r)}
      <3>1. CASE Blank(sess)
        <4>1. sess.pid # Unset => Blank(relay[sess.pid])
          <5>1. ASSUME sess.pid # Unset PROVE Asked(relay[sess.pid]) \/ Blank(relay[sess.pid])
            <6>1. sess.pid \in Pids
              BY <2>1, <5>1 DEF Attributes
            <6> QED
              BY <5>1, <6>1 DEF Inv, Consistent, Recorded, Forked, Fit
          <5> QED
            BY <2>1, <3>1, <5>1, AskedIsComplete DEF Matches, Blank, Complete
        <4> QED
          BY <2>4, <3>1, <4>1 DEF StreamOf
      <3>2. CASE ~Blank(sess)
        <4>1. StreamOf(s, r) \in Transport
          BY <2>1, <2>4, <3>2, SetUpIsComplete DEF Transport, Attributes, Complete, Arguments
        <4>2. StreamOf(sess, relay) \in {Unset, Arguments(sess)}
          BY <2>1 DEF StreamOf, Matches, Arguments
        <4> QED
          BY <2>4, <3>2, <4>1, <4>2
      <3> QED
        BY <3>1, <3>2
    <2>7. CASE Finish(c, 200, s, r, holds \cup {c})
      BY <2>2, <2>5, <2>7, FinishStream
    <2>8. CASE Crash(s, r, holds \cup {c})
      BY <2>8, CrashStream
    <2> QED
      BY <2>3, <2>7, <2>8 DEF Answer
  <1> QED
    BY <1>1, <1>2, <1>3 DEF HandlePlay

LEMMA TeardownStream ==
    ASSUME Inv, NEW c \in Clients, HandleTeardown(c)
    PROVE  [Stream!Next]_Stream!vars
  <1>1. CASE Error(c, 454)
    BY <1>1, PlainAnswerStream DEF Error
  <1>2. CASE Finish(c, Quiet, Stopped(sess), Interrupt(relay, sess.pid), holds \cup {c})
    <2>1. Stopped(sess) \in Attributes /\ Stopped(sess).pid = Unset
      BY StoppedAttributes DEF Inv, Consistent
    <2> QED
      BY <1>2, <2>1, FinishStream
  <1> QED
    BY <1>1, <1>2 DEF HandleTeardown

LEMMA ReadEofStream ==
    ASSUME Inv, NEW c \in Clients, ReadEof(c)
    PROVE  [Stream!Next]_Stream!vars
  <1>1. CASE c \in holds
    <2>1. sess' = Stopped(sess) /\ holds' = holds \ {c} /\ sess \in Attributes
      BY <1>1 DEF ReadEof, Inv, Consistent
    <2>2. CurrentStream' = Unset
      BY <2>1, StreamNow, StoppedAttributes DEF StreamOf
    <2> QED
      BY <2>1, <2>2 DEF Stream!Next, Stream!Stop
  <1>2. CASE c \notin holds
    <2>1. UNCHANGED <<sess, holds, relay>>
      BY <1>2 DEF ReadEof
    <2> QED
      BY <2>1, QuietStream
  <1> QED
    BY <1>1, <1>2

LEMMA HandleStream ==
    ASSUME Inv, NEW c \in Clients, Handle(c)
    PROVE  [Stream!Next]_Stream!vars
  <1>1. CASE HandleUnsupportedOption(c) \/ ReadReset(c)
    BY <1>1, CrashStream DEF HandleUnsupportedOption, ReadReset
  <1>2. CASE HandleOptions(c)
    BY <1>2, PlainAnswerStream DEF HandleOptions
  <1>3. CASE HandleDescribe(c)
    BY <1>3, PlainAnswerStream, CrashStream DEF HandleDescribe
  <1>4. CASE HandleOther(c)
    BY <1>4, PlainAnswerStream DEF HandleOther, Error
  <1> QED
    BY <1>1, <1>2, <1>3, <1>4, SetupStream, PlayStream, TeardownStream, ReadEofStream DEF Handle

(* A process keeps the arguments that it was forked with.                   *)
SameArguments == \A q \in Pids : Arguments(relay'[q]) = Arguments(relay[q]) /\ relay'[q].peer = relay[q].peer

LEMMA ProcessStream ==
    ASSUME Inv, NEW p \in Pids, Process(p) PROVE UNCHANGED <<sess, holds>> /\ SameArguments
  <1>1. relay \in Table /\ relay[p].inherited \in Pids \cup {Unset}
    BY DEF Inv, Consistent, Table
  <1>2. CASE ChildUnwinds(p)
    <2> DEFINE t == [relay EXCEPT ![p].stage = "dead"]
               o == relay[p].inherited
    <2>1. t \in Table
      BY <1>1 DEF Table
    <2>2. \A q \in Pids : Arguments(t[q]) = Arguments(relay[q]) /\ t[q].peer = relay[q].peer
      BY <1>1 DEF Table, Arguments
    <2>3. relay' = Interrupt(t, o) /\ UNCHANGED <<sess, holds>>
      BY <1>2 DEF ChildUnwinds
    <2> HIDE DEF t
    <2>4. \A q \in Pids : Arguments(relay'[q]) = Arguments(t[q]) /\ relay'[q].peer = t[q].peer
      BY <1>1, <2>1, <2>3, InterruptEffect DEF Arguments
    <2> QED
      BY <2>2, <2>3, <2>4 DEF SameArguments
  <1>3. ASSUME NEW stage, relay' = [relay EXCEPT ![p].stage = stage] PROVE SameArguments
    BY <1>1, <1>3 DEF SameArguments, Arguments, Table
  <1>4. CASE ChildExec(p) \/ RelayBinds(p) \/ RelayDies(p) \/ RelayExits(p)
    BY <1>3, <1>4 DEF ChildExec, RelayBinds, RelayDies, RelayExits
  <1> QED
    BY <1>2, <1>4 DEF Process

(* Every step of the front end is a step of the abstract stream or leaves   *)
(* it as it is, whatever children, systemd and clients do in between.       *)
THEOREM FrontEndImplementsStream == Spec => ImplementsRelayStream
  <1>1. Init => Stream!Init
    BY DEF Init, Stream!Init, CurrentStream, FreshSession
  <1>2. Inv /\ [Next]_vars => [Stream!Next]_Stream!vars
    <2> SUFFICES ASSUME Inv, [Next]_vars PROVE [Stream!Next]_Stream!vars
      OBVIOUS
    <2>0. sess.pid # Unset => sess.pid \in Pids
      BY DEF Inv, Consistent, Attributes
    <2>1. ASSUME NEW c \in Clients, Client(c) \/ Accept(c)
          PROVE  UNCHANGED Stream!vars
      <3>1. UNCHANGED <<sess, holds, relay>>
        BY <2>1 DEF Client, Connect, Send, HangUp, ResetByPeer, Accept
      <3> QED
        BY <3>1, QuietStream
    <2>2. ASSUME NEW c \in Clients, Handle(c) PROVE [Stream!Next]_Stream!vars
      BY <2>2, HandleStream
    <2>3. ASSUME UNCHANGED <<sess, holds>>, SameArguments PROVE UNCHANGED Stream!vars
      BY <2>0, <2>3, QuietStream DEF SameArguments, Arguments, Blank
    <2>4. ASSUME NEW p \in Pids, Process(p) PROVE UNCHANGED Stream!vars
      BY <2>3, <2>4, ProcessStream
    <2>5. CASE ControlGroupKill
      <3>1. SameArguments
        BY <2>5 DEF ControlGroupKill, SameArguments, Arguments, Inv, Consistent, Table
      <3> QED
        BY <2>3, <2>5, <3>1 DEF ControlGroupKill
    <2>6. CASE Activate
      <3>1. sess.pid = Unset
        BY <2>6, FreshAttributes DEF Activate, Inv, Down
      <3> QED
        BY <2>6, <3>1, QuietStream DEF Activate
    <2>7. CASE UNCHANGED vars
      BY <2>7, QuietStream DEF vars
    <2> QED
      BY <2>1, <2>2, <2>4, <2>5, <2>6, <2>7 DEF Next
  <1> QED
    BY <1>1, <1>2, Invariance, PTL DEF Spec, ImplementsRelayStream, Stream!Spec

-------------------------------------------------------------------------------
(***************************************************************************)
(* The answers to SETUP                                                     *)
(***************************************************************************)
(* What SetupAnswers says of one client.                                    *)
TrueAnswer(c) ==
    (wire[c] \in Requests /\ wire[c].method = "SETUP" /\ wire'[c] \in Replies) =>
        /\ wire'[c].code = 200 =>
             /\ sess'.rtp = wire[c].rtp
             /\ sess'.rtcp = RtcpPort(wire[c])
             /\ sess'.our = OurAddressFor(c)
             /\ sess'.peer = Link[c].peer
        /\ wire'[c].code = 455 =>
             sess.pid # Unset /\ sess' \in {sess, Stopped(sess)}

(* Where the connection is left as it was, or cleared, nothing is answered. *)
LEMMA NoAnswer ==
    ASSUME NEW c \in Clients,
           wire'[c] \in {wire[c], Reply(Quiet), Eof, Reset} \cup Requests
    PROVE  TrueAnswer(c)
  <1>1. Reply(Quiet).code = 0
    BY DEF Reply, Quiet
  <1> QED
    BY <1>1, RequestIsNoReply DEF TrueAnswer

LEMMA CrashAnswer ==
    ASSUME Inv, NEW c \in Clients, NEW s, NEW r, NEW h, Crash(s, r, h)
    PROVE  TrueAnswer(c)
  <1>1. wire'[c] \in {wire[c], Reply(Quiet)}
    BY DEF Crash
  <1> QED
    BY <1>1, NoAnswer

(* The answer that Finish leaves on the connection of its client.           *)
LEMMA FinishAnswer ==
    ASSUME Inv, NEW d \in Clients, NEW code \in Codes, NEW s, NEW r, NEW h, Finish(d, code, s, r, h)
    PROVE  /\ \A c \in Clients : c # d => wire'[c] = wire[c]
           /\ wire'[d] \in Replies => wire'[d].code = code
           /\ sess' \in {s, Stopped(s)}
  <1>1. \E w \in After(d, code) : wire' = [wire EXCEPT ![d] = w]
    BY DEF Finish
  <1>2. wire \in [Clients -> Requests \cup Replies \cup {Eof, Reset}]
    BY DEF Inv, ConnOK
  <1>3. \A w \in After(d, code) : w \in Replies => w.code = code
    <2>1. Reply(code).code = code
      BY DEF Reply
    <2> QED
      BY <2>1, RequestIsNoReply DEF After
  <1> QED
    BY <1>1, <1>2, <1>3 DEF Finish

LEMMA SetupAnswer ==
    ASSUME Inv, NEW c \in Clients, HandleSetup(c)
    PROVE  TrueAnswer(c)
  <1>1. sess \in Attributes
    BY DEF Inv, Consistent
  <1>2. ASSUME NEW code \in {459, 461}, Finish(c, code, sess, relay, holds) PROVE TrueAnswer(c)
    BY <1>2, FinishAnswer DEF TrueAnswer, Codes
  <1>3. ASSUME sess.pid # Unset, Finish(c, 455, sess, relay, holds) PROVE TrueAnswer(c)
    BY <1>3, FinishAnswer DEF TrueAnswer, Codes
  <1>4. ASSUME NEW s \in Attributes,
               s.rtp = wire[c].rtp, s.rtcp = RtcpPort(wire[c]), s.our = OurAddressFor(c),
               s.peer = Link[c].peer, Finish(c, 200, s, relay, holds \cup {c})
        PROVE  TrueAnswer(c)
    <2>1. sess'.rtp = s.rtp /\ sess'.rtcp = s.rtcp /\ sess'.our = s.our /\ sess'.peer = s.peer
      BY <1>4, FinishAnswer DEF Codes, Stopped, Attributes
    <2>2. wire'[c] \in Replies => wire'[c].code = 200
      BY <1>4, FinishAnswer DEF Codes
    <2> QED
      BY <1>4, <2>1, <2>2 DEF TrueAnswer
  <1>5. ASSUME NEW s, NEW h, Crash(s, relay, h) PROVE TrueAnswer(c)
    BY <1>5, CrashAnswer
  <1> QED
    BY <1>2, <1>3, <1>4, <1>5, SetupSession DEF Answer

(* A step of the server handles one event: whatever it leaves on the        *)
(* connection of a client that it does not serve, it is not an answer.      *)
LEMMA OthersUnanswered ==
    ASSUME Inv, NEW d \in Clients, Handle(d), NEW c \in Clients,
           c # d \/ wire[c] \notin Requests \/ wire[c].method # "SETUP"
    PROVE  TrueAnswer(c)
  <1>1. CASE wire[c] \notin Requests \/ wire[c].method # "SETUP"
    BY <1>1 DEF TrueAnswer
  <1>2. CASE c # d
    <2>1. CASE ReadEof(d)
      <3>1. wire'[c] = wire[c]
        BY <1>2, <2>1 DEF ReadEof, Inv, ConnOK
      <3> QED
        BY <3>1, NoAnswer
    <2>2. ASSUME NEW s, NEW r, NEW h, Crash(s, r, h) PROVE TrueAnswer(c)
      BY <2>2, CrashAnswer
    <2>3. ASSUME NEW code \in Codes, NEW s, NEW r, NEW h, Answer(d, code, s, r, h)
          PROVE  TrueAnswer(c)
      <3>1. CASE Finish(d, code, s, r, h)
        <4>1. wire'[c] = wire[c]
          BY <1>2, <3>1, FinishAnswer
        <4> QED
          BY <4>1, NoAnswer
      <3>2. CASE Crash(s, r, h)
        BY <2>2, <3>2
      <3> QED
        BY <2>3, <3>1, <3>2 DEF Answer
    <2>4. CASE HandleSetup(d)
      <3>1. ASSUME NEW code \in {200, 455, 459, 461}, NEW s, NEW h, Answer(d, code, s, relay, h)
            PROVE  TrueAnswer(c)
        BY <2>3, <3>1 DEF Codes
      <3>2. CASE \E code \in {455, 459, 461} : Answer(d, code, sess, relay, holds)
        BY <3>1, <3>2
      <3>3. CASE \E s : Crash(s, relay, holds)
        BY <2>2, <3>3
      <3>4. CASE \E s \in Attributes : Answer(d, 200, s, relay, holds \cup {d})
        BY <3>1, <3>4
      <3>5. \/ \E code \in {455, 459, 461} : Answer(d, code, sess, relay, holds)
            \/ \E s : Crash(s, relay, holds)
            \/ \E s \in Attributes : Answer(d, 200, s, relay, holds \cup {d})
        BY <2>4, SetupSession
      <3> QED
        BY <3>2, <3>3, <3>4, <3>5
    <2>5. CASE HandlePlay(d)
      <3>1. ASSUME NEW code \in {200, 454}, NEW s, NEW r, NEW h, Answer(d, code, s, r, h)
            PROVE  TrueAnswer(c)
        BY <2>3, <3>1 DEF Codes
      <3>2. CASE Error(d, 454)
        BY <3>1, <3>2 DEF Error
      <3>3. ASSUME NEW p \in Free,
                   Answer(d, 200, [sess EXCEPT !.pid = p], [relay EXCEPT ![p] = Child(sess)],
                          holds \cup {d})
            PROVE  TrueAnswer(c)
        BY <3>1, <3>3
      <3>4. CASE Crash(sess, relay, holds \cup {d})
        BY <2>2, <3>4
      <3> QED
        BY <2>5, <3>2, <3>3, <3>4 DEF HandlePlay
    <2>6. CASE HandleTeardown(d)
      <3>1. ASSUME NEW code \in {Quiet, 454}, NEW s, NEW r, NEW h, Answer(d, code, s, r, h)
            PROVE  TrueAnswer(c)
        BY <2>3, <3>1 DEF Codes
      <3> QED
        BY <2>6, <3>1 DEF HandleTeardown, Error, Answer
    <2>7. CASE HandleOptions(d) \/ HandleDescribe(d) \/ HandleOther(d)
      <3>1. ASSUME NEW code \in {200, 400, 405}, Answer(d, code, sess, relay, holds)
            PROVE  TrueAnswer(c)
        BY <2>3, <3>1 DEF Codes
      <3> QED
        BY <2>2, <2>7, <3>1 DEF HandleOptions, HandleDescribe, HandleOther, Error
    <2>8. CASE HandleUnsupportedOption(d) \/ ReadReset(d)
      BY <2>2, <2>8 DEF HandleUnsupportedOption, ReadReset
    <2> QED
      BY <2>1, <2>4, <2>5, <2>6, <2>7, <2>8 DEF Handle
  <1> QED
    BY <1>1, <1>2

(* 200 to SETUP means that the session has what was asked for, 455 that a   *)
(* relay was recorded and the session is as it was.                         *)
THEOREM AnswersAreTrue == Spec => SetupAnswers
  <1>1. Inv /\ [Next]_vars => [\A c \in Clients : TrueAnswer(c)]_vars
    <2> SUFFICES ASSUME Inv, Next, NEW c \in Clients PROVE TrueAnswer(c)
      BY DEF vars
    <2>1. ASSUME NEW d \in Clients, Client(d) \/ Accept(d) PROVE TrueAnswer(c)
      <3>1. wire'[c] \in {wire[c], Reply(Quiet), Eof, Reset} \cup Requests
        BY <2>1 DEF Client, Connect, Send, HangUp, ResetByPeer, Accept, Inv, ConnOK, Requests
      <3> QED
        BY <3>1, NoAnswer
    <2>2. ASSUME NEW d \in Clients, Handle(d) PROVE TrueAnswer(c)
      <3>1. CASE c = d /\ wire[c] \in Requests /\ wire[c].method = "SETUP"
        <4>1. wire[c] \notin Replies \cup {Eof, Reset}
          BY <3>1, RequestIsNoReply
        <4>2. HandleSetup(c) \/ HandleUnsupportedOption(c)
          BY <2>2, <3>1, <4>1
          DEF Handle, HandleOptions, HandleDescribe, HandlePlay, HandleTeardown, HandleOther,
              ReadEof, ReadReset, Reading, NotAllowed
        <4> QED
          BY <4>2, SetupAnswer, CrashAnswer DEF HandleUnsupportedOption
      <3>2. CASE ~(c = d /\ wire[c] \in Requests /\ wire[c].method = "SETUP")
        BY <2>2, <3>2, OthersUnanswered
      <3> QED
        BY <3>1, <3>2
    <2>3. ASSUME NEW p \in Pids, Process(p) PROVE TrueAnswer(c)
      BY <2>3, NoAnswer DEF Process, ChildExec, ChildUnwinds, RelayBinds, RelayDies, RelayExits
    <2>4. CASE ControlGroupKill \/ Activate
      BY <2>4, NoAnswer DEF ControlGroupKill, Activate
    <2> QED
      BY <2>1, <2>2, <2>3, <2>4 DEF Next
  <1> QED
    BY <1>1, Invariance, PTL DEF Spec, SetupAnswers, TrueAnswer

-------------------------------------------------------------------------------
(***************************************************************************)
(* Who ends a stream                                                        *)
(***************************************************************************)
Ends == up' /\ sess.pid # Unset /\ sess'.pid = Unset

(* A client that holds the session, has its SETUP answered or names the id, *)
(* and whose event the step has handled.                                    *)
EndedBy(c) ==
    /\ c \in holds \cup told' \/ (wire[c] \in Requests /\ NamesSession(c))
    /\ conn[c] = "open" /\ (wire'[c] # wire[c] \/ conn'[c] # conn[c])

(* An answer ends the stream only by closing a connection that holds the    *)
(* session, or by a request that names it.                                  *)
LEMMA FinishEnds ==
    ASSUME Inv, Ends, NEW c \in Clients, NEW code \in Codes, NEW s, NEW r, NEW h,
           conn[c] = "open", wire[c] \in Requests,
           \/ NamesSession(c)
           \/ wire[c].method = "SETUP" /\ code = 200
           \/ h = holds /\ s.pid # Unset,
           Finish(c, code, s, r, h)
    PROVE  EndedBy(c)
  <1>1. wire'[c] # wire[c]
    <2>1. \E w \in After(c, code) : wire' = [wire EXCEPT ![c] = w]
      BY DEF Finish
    <2>2. After(c, code) \subseteq Replies \cup {Eof, Reset}
      BY ReplyIsReply DEF After
    <2>3. wire'[c] \in Replies \cup {Eof, Reset}
      BY <2>1, <2>2 DEF Inv, ConnOK
    <2> QED
      BY <2>3, RequestIsNoReply
  <1>2. wire[c].method = "SETUP" /\ code = 200 => c \in told'
    BY DEF Finish
  <1>3. h = holds /\ s.pid # Unset => c \in holds
    BY DEF Finish, Ends
  <1> QED
    BY <1>1, <1>2, <1>3 DEF EndedBy

LEMMA CrashEndsService ==
    ASSUME NEW s, NEW r, NEW h, Crash(s, r, h) PROVE ~Ends
  BY DEF Crash, Ends

LEMMA AnswerEnds ==
    ASSUME Inv, Ends, NEW c \in Clients, NEW code \in Codes, NEW s, NEW r, NEW h,
           conn[c] = "open", wire[c] \in Requests,
           \/ NamesSession(c)
           \/ wire[c].method = "SETUP" /\ code = 200
           \/ h = holds /\ s.pid # Unset,
           Answer(c, code, s, r, h)
    PROVE  EndedBy(c)
  <1>1. Finish(c, code, s, r, h)
    BY CrashEndsService DEF Answer
  <1> QED
    BY <1>1, FinishEnds

LEMMA PlainAnswerEnds ==
    ASSUME Inv, Ends, NEW c \in Clients, NEW code \in Codes,
           conn[c] = "open", wire[c] \in Requests,
           Answer(c, code, sess, relay, holds)
    PROVE  EndedBy(c)
  BY AnswerEnds DEF Ends

LEMMA HandleEnds ==
    ASSUME Inv, Ends, NEW c \in Clients, Handle(c)
    PROVE  EndedBy(c)
  <1>1. CASE ReadEof(c)
    <2>1. c \in holds
      BY <1>1 DEF ReadEof, Ends
    <2>2. conn[c] = "open" /\ conn'[c] = "closed"
      BY <1>1 DEF ReadEof, Inv, ConnOK
    <2> QED
      BY <2>1, <2>2 DEF EndedBy
  <1>2. CASE HandleUnsupportedOption(c) \/ ReadReset(c)
    BY <1>2, CrashEndsService DEF HandleUnsupportedOption, ReadReset
  <1>3. \A code \in {200, 400, 405, 454, 455, 459, 461} : code \in Codes
    BY DEF Codes
  <1>4. CASE HandleOptions(c) \/ HandleDescribe(c) \/ HandleOther(c)
    <2>1. conn[c] = "open" /\ wire[c] \in Requests
      BY <1>4 DEF HandleOptions, HandleDescribe, HandleOther, Reading, Requests
    <2>2. \E code \in {200, 400, 405} : Answer(c, code, sess, relay, holds)
      BY <1>4, CrashEndsService DEF HandleOptions, HandleDescribe, HandleOther, Error
    <2> QED
      BY <1>3, <2>1, <2>2, PlainAnswerEnds
  <1>5. CASE HandleSetup(c)
    <2>1. conn[c] = "open" /\ wire[c] \in Requests /\ wire[c].method = "SETUP"
      BY <1>5 DEF HandleSetup, Reading, Requests
    <2>2. CASE \E code \in {455, 459, 461} : Answer(c, code, sess, relay, holds)
      BY <1>3, <2>1, <2>2, PlainAnswerEnds
    <2>3. CASE \E s \in Attributes : Answer(c, 200, s, relay, holds \cup {c})
      BY <1>3, <2>1, <2>3, AnswerEnds
    <2>4. \/ \E code \in {455, 459, 461} : Answer(c, code, sess, relay, holds)
          \/ \E s : Crash(s, relay, holds)
          \/ \E s \in Attributes : Answer(c, 200, s, relay, holds \cup {c})
      BY <1>5, SetupSession
    <2> QED
      BY <2>2, <2>3, <2>4, CrashEndsService
  <1>6. CASE HandlePlay(c)
    <2>1. conn[c] = "open" /\ wire[c] \in Requests
      BY <1>6 DEF HandlePlay, Reading, Requests
    <2>2. CASE Error(c, 454)
      BY <1>3, <2>1, <2>2, PlainAnswerEnds DEF Error
    <2>3. ASSUME NamesSession(c), NEW p \in Free,
                 Answer(c, 200, [sess EXCEPT !.pid = p], [relay EXCEPT ![p] = Child(sess)],
                        holds \cup {c})
          PROVE  EndedBy(c)
      BY <1>3, <2>1, <2>3, AnswerEnds
    <2>4. CASE Crash(sess, relay, holds \cup {c})
      BY <2>4, CrashEndsService
    <2> QED
      BY <1>6, <2>2, <2>3, <2>4 DEF HandlePlay
  <1>7. CASE HandleTeardown(c)
    <2>1. conn[c] = "open" /\ wire[c] \in Requests
      BY <1>7 DEF HandleTeardown, Reading, Requests
    <2>2. CASE Error(c, 454)
      BY <1>3, <2>1, <2>2, PlainAnswerEnds DEF Error
    <2>3. CASE /\ NamesSession(c)
               /\ Finish(c, Quiet, Stopped(sess), Interrupt(relay, sess.pid), holds \cup {c})
      BY <2>1, <2>3, FinishEnds DEF Codes
    <2> QED
      BY <1>7, <2>2, <2>3 DEF HandleTeardown
  <1> QED
    BY <1>1, <1>2, <1>4, <1>5, <1>6, <1>7 DEF Handle

(* A connection that does not hold the session, set it up or name it comes  *)
(* and goes without harm to the stream.                                     *)
THEOREM OnlyHoldersStop == Spec => StoppedByHolder
  <1>1. Inv /\ [Next]_vars => [Ends => \E c \in Clients : EndedBy(c)]_vars
    <2> SUFFICES ASSUME Inv, Next, Ends PROVE \E c \in Clients : EndedBy(c)
      OBVIOUS
    <2>1. ASSUME NEW c \in Clients, Client(c) \/ Accept(c) PROVE FALSE
      BY <2>1 DEF Client, Connect, Send, HangUp, ResetByPeer, Accept, Ends
    <2>2. ASSUME NEW c \in Clients, Handle(c) PROVE EndedBy(c)
      BY <2>2, HandleEnds
    <2>3. ASSUME NEW p \in Pids, Process(p) PROVE FALSE
      BY <2>3 DEF Process, ChildExec, ChildUnwinds, RelayBinds, RelayDies, RelayExits, Ends
    <2>4. CASE ControlGroupKill \/ Activate
      BY <2>4 DEF ControlGroupKill, Activate, Ends
    <2> QED
      BY <2>1, <2>2, <2>3, <2>4 DEF Next
  <1> QED
    BY <1>1, Invariance, PTL DEF Spec, StoppedByHolder, Ends, EndedBy
===============================================================================
