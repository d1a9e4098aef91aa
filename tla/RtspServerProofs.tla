--------------------------- MODULE RtspServerProofs ---------------------------
(***************************************************************************)
(* Safety of the RTSP front end, for every set of clients, links, requests  *)
(* and process ids.  The inductive invariant is split by what it relates:   *)
(* Consistent ties the session to the forked processes and says nothing of  *)
(* connections; Held, Told and Down tie it to the connections.              *)
(***************************************************************************)
EXTENDS RtspServer, TLAPS

Attributes == [rtp: Nat \cup {Unset}, rtcp: Nat \cup {Unset},
               our: Addresses \cup {Unset}, peer: Addresses \cup {Unset},
               pid: Pids \cup {Unset}]

Table == [Pids -> [stage: {"none", "forked", "execed", "streaming", "dying", "dead"},
                   hit: BOOLEAN,
                   rtp: Nat \cup {Unset}, rtcp: Nat \cup {Unset},
                   our: Addresses \cup {Unset}, peer: Addresses \cup {Unset},
                   inherited: Pids \cup {Unset}]]

(* What the session says is what a process was forked with, unless that     *)
(* process was forked from a session that nobody had set up.                *)
Matches(s, x) == Blank(x) \/ (s.rtp = x.rtp /\ s.rtcp = x.rtcp /\ s.our = x.our)

(* The recorded process was forked with the session's parameters and has    *)
(* not been interrupted.                                                    *)
Recorded(s, r) ==
    s.pid # Unset =>
        /\ r[s.pid].stage # "none"
        /\ r[s.pid].hit = FALSE
        /\ Matches(s, r[s.pid])

(* A process that is a relay or may become one has all its arguments, of    *)
(* one SETUP; one that was forked without any stays Python until it ends.   *)
Fit(x) == Asked(x) \/ (Blank(x) /\ x.stage \in {"forked", "dead"})

(* The pid that a child inherited was used before and is not recorded any   *)
(* more.                                                                    *)
Forked(s, r) ==
    \A p \in Pids : r[p].stage # "none" =>
        /\ Fit(r[p])
        /\ r[p].inherited # Unset =>
              r[p].inherited # s.pid /\ r[r[p].inherited].stage # "none"

(* A process that runs without being recorded was interrupted or superseded. *)
NotStray(s, r) ==
    \A p \in Pids :
        r[p].stage \in {"forked", "execed", "streaming", "dying"} /\ s.pid # p =>
            \/ r[p].hit
            \/ \E o \in Pids : r[o].stage # "none" /\ r[o].inherited = p

Consistent(s, r) ==
    /\ s \in Attributes
    /\ r \in Table
    /\ Recorded(s, r)
    /\ Forked(s, r)
    /\ NotStray(s, r)

(* Between two events the session is blank or has what one SETUP asked for. *)
Unmixed(s) == Blank(s) \/ Asked(s)

ConnOK ==
    /\ up \in BOOLEAN
    /\ conn \in [Clients -> {"closed", "backlog", "open"}]
    /\ gone \subseteq Clients
    /\ wire \in [Clients -> Requests \cup Replies \cup {Eof, Reset}]
    /\ holds \subseteq Clients
    /\ told \subseteq Clients
    /\ id \in Seconds

Held ==
    /\ \A c \in holds : conn[c] = "open"
    /\ sess.pid # Unset => holds # {}

Told == told # {} => Complete(sess)

Down == ~up => sess = FreshSession /\ holds = {} /\ told = {} /\ \A c \in Clients : conn[c] # "open"

Inv ==
    /\ ConnOK
    /\ Consistent(sess, relay)
    /\ Unmixed(sess)
    /\ Held
    /\ Told
    /\ Down

-------------------------------------------------------------------------------
(***************************************************************************)
(* Interrupting and forgetting a process                                    *)
(***************************************************************************)
(* What SIGINT changes: the process that it is sent to is marked, and dead, *)
(* dying, or still Python; nothing else about any process changes.          *)
LEMMA InterruptEffect ==
    ASSUME NEW r \in Table, NEW p \in Pids \cup {Unset}
    PROVE  /\ Interrupt(r, p) \in Table
           /\ \A q \in Pids :
                /\ Interrupt(r, p)[q].inherited = r[q].inherited
                /\ Interrupt(r, p)[q].rtp = r[q].rtp
                /\ Interrupt(r, p)[q].rtcp = r[q].rtcp
                /\ Interrupt(r, p)[q].our = r[q].our
                /\ Interrupt(r, p)[q].peer = r[q].peer
                /\ Interrupt(r, p)[q].stage = "none" <=> r[q].stage = "none"
                /\ r[q].stage \in {"forked", "dead"} => Interrupt(r, p)[q].stage \in {"forked", "dead"}
                /\ Interrupt(r, p)[q].stage \in {"forked", "execed", "streaming", "dying"} =>
                      /\ r[q].stage \in {"forked", "execed", "streaming", "dying"}
                      /\ Interrupt(r, p)[q].hit = (r[q].hit \/ q = p)
                /\ q # p => Interrupt(r, p)[q] = r[q]
  <1>1. CASE p = Unset \/ r[p].stage \notin {"forked", "execed", "streaming", "dying"}
    <2>1. Interrupt(r, p) = r
      BY <1>1 DEF Interrupt
    <2>2. \A q \in Pids : r[q].hit \in BOOLEAN
      BY DEF Table
    <2>3. \A q \in Pids : r[q].stage \in {"forked", "execed", "streaming", "dying"} => q # p
      BY <1>1, ConstantsAssumption DEF ConstantsAssumption
    <2> QED
      BY <2>1, <2>2, <2>3
  <1>2. CASE ~(p = Unset \/ r[p].stage \notin {"forked", "execed", "streaming", "dying"})
    <2>1. p \in Pids
      BY <1>2
    <2>2. Interrupt(r, p) = [r EXCEPT ![p].hit = TRUE, ![p].stage = AfterSigint(@)]
      BY <1>2 DEF Interrupt
    <2> DEFINE after == AfterSigint(r[p].stage)
    <2>7. /\ after \in {"forked", "dead", "dying"}
          /\ r[p].stage = "forked" => after = "forked"
      BY DEF AfterSigint
    <2>8. Interrupt(r, p) = [r EXCEPT ![p].hit = TRUE, ![p].stage = after]
      BY <2>1, <2>2 DEF Table
    <2> HIDE DEF after
    <2> DEFINE i == Interrupt(r, p)
    <2>3. i \in Table
      BY <2>1, <2>7, <2>8 DEF Table
    <2>4. \A q \in Pids : q # p => i[q] = r[q]
      BY <2>1, <2>2 DEF Table
    <2>5. /\ i[p].inherited = r[p].inherited /\ i[p].rtp = r[p].rtp /\ i[p].rtcp = r[p].rtcp
          /\ i[p].our = r[p].our /\ i[p].peer = r[p].peer /\ i[p].hit = TRUE
          /\ i[p].stage \in {"forked", "dead", "dying"}
          /\ r[p].stage = "forked" => i[p].stage = "forked"
      BY <2>1, <2>7, <2>8 DEF Table
    <2>6. \A q \in Pids : r[q].hit \in BOOLEAN
      BY DEF Table
    <2> HIDE DEF i
    <2> QED
      BY <1>2, <2>3, <2>4, <2>5, <2>6 DEF i
  <1> QED
    BY <1>1, <1>2

(* SIGINT starts nobody: a process without arguments stays Python or dead.  *)
LEMMA InterruptFit ==
    ASSUME NEW r \in Table, NEW p \in Pids \cup {Unset}, NEW q \in Pids, Fit(r[q])
    PROVE  Fit(Interrupt(r, p)[q])
  <1> DEFINE i == Interrupt(r, p)
  <1>1. /\ i[q].rtp = r[q].rtp /\ i[q].rtcp = r[q].rtcp /\ i[q].our = r[q].our /\ i[q].peer = r[q].peer
        /\ r[q].stage \in {"forked", "dead"} => i[q].stage \in {"forked", "dead"}
    BY InterruptEffect
  <1> HIDE DEF i
  <1>2. Fit(i[q])
    BY <1>1 DEF Fit, Asked, Blank
  <1> QED
    BY <1>2 DEF i

(* A session that has no pid is consistent with the same processes once     *)
(* SIGINT was sent to the one that was recorded.                            *)
LEMMA ForgetConsistent ==
    ASSUME NEW s, NEW r, NEW t \in Attributes, t.pid = Unset, Consistent(s, r)
    PROVE  Consistent(t, Interrupt(r, s.pid))
  <1> DEFINE i == Interrupt(r, s.pid)
  <1>0. r \in Table /\ s.pid \in Pids \cup {Unset}
    BY DEF Consistent, Attributes
  <1>1. i \in Table
    BY <1>0, InterruptEffect
  <1>2. Recorded(t, i)
    BY DEF Recorded
  <1>3. Forked(t, i)
    <2> SUFFICES ASSUME NEW p \in Pids, i[p].stage # "none"
                 PROVE  /\ Fit(i[p])
                        /\ i[p].inherited # Unset =>
                             i[p].inherited # t.pid /\ i[i[p].inherited].stage # "none"
      BY DEF Forked
    <2>1. r[p].stage # "none" /\ i[p].inherited = r[p].inherited
      BY <1>0, InterruptEffect
    <2>2. Fit(i[p])
      BY <2>1, <1>0, InterruptFit DEF Consistent, Forked
    <2>3. ASSUME i[p].inherited # Unset
          PROVE  i[i[p].inherited].stage # "none"
      <3>1. i[p].inherited \in Pids
        BY <1>1, <2>3 DEF Table
      <3>2. r[r[p].inherited].stage # "none"
        BY <2>1, <2>3 DEF Consistent, Forked
      <3> QED
        BY <3>1, <3>2, <2>1, <1>0, InterruptEffect
    <2> QED
      BY <2>2, <2>3
  <1>4. NotStray(t, i)
    <2> SUFFICES ASSUME NEW p \in Pids, i[p].stage \in {"forked", "execed", "streaming", "dying"}
                 PROVE  \/ i[p].hit
                        \/ \E o \in Pids : i[o].stage # "none" /\ i[o].inherited = p
      BY DEF NotStray
    <2>1. r[p].stage \in {"forked", "execed", "streaming", "dying"} /\ i[p].hit = (r[p].hit \/ p = s.pid)
      BY <1>0, InterruptEffect
    <2>2. CASE p = s.pid
      BY <2>1, <2>2
    <2>3. CASE p # s.pid /\ r[p].hit
      BY <2>1, <2>3
    <2>4. CASE p # s.pid /\ ~r[p].hit
      <3>1. PICK o \in Pids : r[o].stage # "none" /\ r[o].inherited = p
        BY <2>1, <2>4 DEF Consistent, NotStray
      <3>2. i[o].stage # "none" /\ i[o].inherited = p
        BY <3>1, <1>0, InterruptEffect
      <3> QED
        BY <3>2
    <2> QED
      BY <2>2, <2>3, <2>4
  <1> QED
    BY <1>1, <1>2, <1>3, <1>4 DEF Consistent

(* PLAY records a process id that was not in use, with the session's        *)
(* attributes and the pid recorded until then.                              *)
LEMMA ForkConsistent ==
    ASSUME NEW s, NEW r, NEW p \in Pids, Consistent(s, r), Unmixed(s),
           r[p].stage = "none"
    PROVE  Consistent([s EXCEPT !.pid = p], [r EXCEPT ![p] = Child(s)])
  <1> DEFINE t == [s EXCEPT !.pid = p]
             f == [r EXCEPT ![p] = Child(s)]
  <1>0. s \in Attributes /\ r \in Table /\ p # Unset
    BY ConstantsAssumption DEF Consistent, ConstantsAssumption
  <1>1. Child(s) \in [stage: {"none", "forked", "execed", "streaming", "dying", "dead"},
                      hit: BOOLEAN,
                      rtp: Nat \cup {Unset}, rtcp: Nat \cup {Unset},
                      our: Addresses \cup {Unset}, peer: Addresses \cup {Unset},
                      inherited: Pids \cup {Unset}]
    BY <1>0 DEF Attributes, Child
  <1>2. t \in Attributes /\ f \in Table
    BY <1>0, <1>1 DEF Attributes, Table
  <1>3. t.pid = p /\ t.rtp = s.rtp /\ t.rtcp = s.rtcp /\ t.our = s.our
    BY <1>0 DEF Attributes
  <1>4. f[p] = Child(s) /\ \A q \in Pids : q # p => f[q] = r[q]
    BY <1>0 DEF Table
  <1>5. Recorded(t, f)
    BY <1>3, <1>4 DEF Recorded, Matches, Child
  <1>6. s.pid # p
    BY <1>0 DEF Consistent, Recorded
  <1>7. Forked(t, f)
    <2> SUFFICES ASSUME NEW q \in Pids, f[q].stage # "none"
                 PROVE  /\ Fit(f[q])
                        /\ f[q].inherited # Unset =>
                             f[q].inherited # t.pid /\ f[f[q].inherited].stage # "none"
      BY DEF Forked
    <2>1. CASE q = p
      <3>1. Fit(f[q])
        BY <2>1, <1>4 DEF Child, Fit, Unmixed, Asked, Blank
      <3>2. f[q].inherited = s.pid
        BY <2>1, <1>4 DEF Child
      <3>3. ASSUME s.pid # Unset PROVE f[s.pid].stage # "none"
        <4>1. s.pid \in Pids /\ f[s.pid] = r[s.pid]
          BY <3>3, <1>0, <1>4, <1>6 DEF Attributes
        <4> QED
          BY <3>3, <4>1 DEF Consistent, Recorded
      <3> QED
        BY <3>1, <3>2, <3>3, <1>3, <1>6
    <2>2. CASE q # p
      <3>1. f[q] = r[q]
        BY <2>2, <1>4
      <3>2. Fit(r[q])
        BY <3>1 DEF Consistent, Forked
      <3>3. ASSUME r[q].inherited # Unset
            PROVE  r[q].inherited # p /\ f[r[q].inherited].stage # "none"
        <4>1. r[q].inherited \in Pids
          BY <1>0, <3>3 DEF Table
        <4>2. r[r[q].inherited].stage # "none"
          BY <3>1, <3>3 DEF Consistent, Forked
        <4> QED
          BY <4>1, <4>2, <1>4
      <3> QED
        BY <3>1, <3>2, <3>3, <1>3
    <2> QED
      BY <2>1, <2>2
  <1>8. NotStray(t, f)
    <2> SUFFICES ASSUME NEW q \in Pids, f[q].stage \in {"forked", "execed", "streaming", "dying"}, q # p
                 PROVE  \/ f[q].hit
                        \/ \E o \in Pids : f[o].stage # "none" /\ f[o].inherited = q
      BY <1>3 DEF NotStray
    <2>1. f[q] = r[q]
      BY <1>4
    <2>2. CASE s.pid = q
      <3>1. f[p].stage # "none" /\ f[p].inherited = q
        BY <2>2, <1>4 DEF Child
      <3> QED
        BY <3>1
    <2>3. CASE s.pid # q /\ ~r[q].hit
      <3>1. PICK o \in Pids : r[o].stage # "none" /\ r[o].inherited = q
        BY <2>1, <2>3 DEF Consistent, NotStray
      <3>2. f[o] = r[o]
        BY <3>1, <1>4
      <3> QED
        BY <3>1, <3>2
    <2> QED
      BY <2>1, <2>2, <2>3
  <1> HIDE DEF t, f
  <1>9. Consistent(t, f)
    BY <1>2, <1>5, <1>7, <1>8 DEF Consistent
  <1> QED
    BY <1>9 DEF t, f

(* What SETUP may do to the attributes while it keeps the pid: nothing that *)
(* differs from the recorded process, if that one has arguments.            *)
LEMMA SetConsistent ==
    ASSUME NEW s, NEW r, NEW t \in Attributes, Consistent(s, r), t.pid = s.pid,
           s.pid # Unset => \/ Blank(r[s.pid])
                            \/ t.rtp = s.rtp /\ t.rtcp = s.rtcp /\ t.our = s.our
    PROVE  Consistent(t, r)
  <1>1. Recorded(t, r)
    BY DEF Consistent, Recorded, Matches
  <1>2. Forked(t, r)
    BY DEF Consistent, Forked
  <1>3. NotStray(t, r)
    BY DEF Consistent, NotStray
  <1> QED
    BY <1>1, <1>2, <1>3 DEF Consistent

-------------------------------------------------------------------------------
(***************************************************************************)
(* The ends of a handler                                                    *)
(***************************************************************************)
LEMMA FreshAttributes ==
    FreshSession \in Attributes /\ FreshSession.pid = Unset /\ Unmixed(FreshSession)
  BY DEF FreshSession, Attributes, Unmixed, Blank

LEMMA StoppedAttributes ==
    ASSUME NEW s \in Attributes
    PROVE  /\ Stopped(s) \in Attributes
           /\ Stopped(s).pid = Unset
           /\ Complete(s) => Complete(Stopped(s))
           /\ Unmixed(s) => Unmixed(Stopped(s))
  BY DEF Stopped, Attributes, Complete, Unmixed, Blank, Asked

(* One SETUP sets everything that the player needs.                         *)
LEMMA AskedIsComplete == ASSUME NEW s, Asked(s) PROVE Complete(s)
  <1>1. PICK c \in Clients : \E q \in Asks[c] :
          /\ q.method = "SETUP" /\ s.rtp = q.rtp /\ s.rtcp = RtcpPort(q)
          /\ OurAddressFor(c) # Unset /\ s.our = OurAddressFor(c) /\ s.peer = Link[c].peer
    BY DEF Asked
  <1>2. PICK q \in Asks[c] :
          /\ q.method = "SETUP" /\ s.rtp = q.rtp /\ s.rtcp = RtcpPort(q)
          /\ OurAddressFor(c) # Unset /\ s.our = OurAddressFor(c) /\ s.peer = Link[c].peer
    BY <1>1
  <1>3. q.rtp \in Nat /\ q.rtcp \in Nat \cup {Unset} /\ Link[c].peer \in Addresses
    BY <1>2, ConstantsAssumption DEF ConstantsAssumption, RequestType, LinkType, Requests
  <1>4. RtcpPort(q) \in Nat
    BY <1>3 DEF RtcpPort
  <1> QED
    BY <1>2, <1>3, <1>4, ConstantsAssumption DEF ConstantsAssumption, Complete

LEMMA RequestsTyped == Requests \subseteq RequestType
  BY ConstantsAssumption DEF Requests, ConstantsAssumption

LEMMA ReplyIsReply == \A code \in Codes : Reply(code) \in Replies
  BY DEF Reply, Replies

(* An uncaught exception: somebody holds the session if a relay is          *)
(* recorded, so __del__ interrupts it.                                      *)
LEMMA CrashInv ==
    ASSUME ConnOK, NEW s, NEW r, NEW h, Consistent(s, r), s.pid # Unset => h # {},
           Crash(s, r, h)
    PROVE  Inv'
  <1>1. ConnOK'
    <2>1. Reply(Quiet) \in Replies
      BY ReplyIsReply DEF Codes
    <2> QED
      BY <2>1 DEF ConnOK, Crash
  <1>2. Consistent(FreshSession, relay')
    <2>1. relay' = Interrupt(r, s.pid)
      <3>1. CASE h # {}
        BY <3>1 DEF Crash
      <3>2. CASE h = {}
        BY <3>2 DEF Crash, Interrupt
      <3> QED
        BY <3>1, <3>2
    <2> QED
      BY <2>1, FreshAttributes, ForgetConsistent
  <1>3. sess' = FreshSession /\ holds' = {} /\ told' = {}
    BY DEF Crash
  <1>4. \A c \in Clients : conn'[c] # "open"
    BY DEF Crash, ConnOK
  <1>5. Consistent(sess, relay)'
    BY <1>2, <1>3
  <1>6. Held' /\ Told' /\ Down'
    BY <1>3, <1>4, FreshAttributes DEF Held, Told, Down
  <1>7. Unmixed(sess')
    BY <1>3, FreshAttributes
  <1> QED
    BY <1>1, <1>5, <1>6, <1>7 DEF Inv

(* A handler that ends with an answer, or with none for TEARDOWN; h is the  *)
(* set of holders that it leaves.                                           *)
LEMMA FinishInv ==
    ASSUME Inv, NEW c \in Clients, NEW code \in Codes, NEW s, NEW r, NEW h,
           up, conn[c] = "open", wire[c] \in Requests,
           h \in {holds, holds \cup {c}},
           Consistent(s, r), Unmixed(s),
           s.pid # Unset => h # {},
           Complete(sess) => Complete(s),
           code = 200 /\ wire[c].method = "SETUP" => Complete(s),
           Finish(c, code, s, r, h)
    PROVE  Inv'
  <1> DEFINE close == wire[c].close
             stop  == close /\ c \in h
  <1>0. /\ close \in BOOLEAN
        /\ up' = up /\ id' = id
        /\ conn' = [conn EXCEPT ![c] = IF close THEN "closed" ELSE "open"]
        /\ gone' = IF close THEN gone \ {c} ELSE gone
        /\ \E w \in After(c, code) : wire' = [wire EXCEPT ![c] = w]
        /\ holds' = IF close THEN h \ {c} ELSE h
        /\ told' = IF wire[c].method = "SETUP" /\ code = 200 THEN told \cup {c} ELSE told
        /\ sess' = IF stop THEN Stopped(s) ELSE s
        /\ relay' = IF stop THEN Interrupt(r, s.pid) ELSE r
    BY RequestsTyped DEF Finish, RequestType
  <1> HIDE DEF close
  <1>1. ConnOK'
    <2>1. After(c, code) \subseteq Replies \cup {Eof, Reset}
      BY ReplyIsReply DEF After
    <2> QED
      BY <1>0, <2>1 DEF ConnOK, Inv
  <1>2. s \in Attributes
    BY DEF Consistent
  <1>3. Consistent(sess, relay)'
    <2>1. CASE stop
      <3>1. Consistent(Stopped(s), Interrupt(r, s.pid))
        BY <1>2, StoppedAttributes, ForgetConsistent
      <3> QED
        BY <1>0, <2>1, <3>1
    <2>2. CASE ~stop
      BY <1>0, <2>2
    <2> QED
      BY <2>1, <2>2
  <1>4. Held'
    <2>1. \A d \in holds' : conn'[d] = "open"
      BY <1>0 DEF Held, Inv, ConnOK
    <2>2. ASSUME sess'.pid # Unset PROVE holds' # {}
      <3>1. ~stop /\ sess' = s
        BY <1>0, <2>2, <1>2, StoppedAttributes
      <3>2. h # {} /\ (close => c \notin h)
        BY <2>2, <3>1
      <3> QED
        BY <1>0, <3>2
    <2> QED
      BY <2>1, <2>2 DEF Held
  <1>5. Told'
    <2>1. Complete(s) => Complete(sess')
      BY <1>0, <1>2, StoppedAttributes
    <2>2. told' # {} => Complete(s)
      BY <1>0 DEF Inv, Told
    <2> QED
      BY <2>1, <2>2 DEF Told
  <1>6. Down'
    BY <1>0 DEF Down
  <1>7. Unmixed(sess')
    BY <1>0, <1>2, StoppedAttributes
  <1> QED
    BY <1>1, <1>3, <1>4, <1>5, <1>6, <1>7 DEF Inv

LEMMA AnswerInv ==
    ASSUME Inv, NEW c \in Clients, NEW code \in Codes, NEW s, NEW r, NEW h,
           up, conn[c] = "open", wire[c] \in Requests,
           h \in {holds, holds \cup {c}},
           Consistent(s, r), Unmixed(s),
           s.pid # Unset => h # {},
           Complete(sess) => Complete(s),
           code = 200 /\ wire[c].method = "SETUP" => Complete(s),
           Answer(c, code, s, r, h)
    PROVE  Inv'
  <1>1. CASE Finish(c, code, s, r, h)
    BY <1>1, FinishInv
  <1>2. CASE Crash(s, r, h)
    BY <1>2, CrashInv DEF Inv
  <1> QED
    BY <1>1, <1>2 DEF Answer

(* An answer that leaves the session, the processes and the holders alone.  *)
LEMMA PlainAnswerInv ==
    ASSUME Inv, NEW c \in Clients, NEW code \in Codes,
           up, conn[c] = "open", wire[c] \in Requests,
           code # 200 \/ wire[c].method # "SETUP",
           Answer(c, code, sess, relay, holds)
    PROVE  Inv'
  <1>1. Consistent(sess, relay) /\ Unmixed(sess) /\ (sess.pid # Unset => holds # {})
    BY DEF Inv, Held
  <1> QED
    BY <1>1, AnswerInv

-------------------------------------------------------------------------------
(***************************************************************************)
(* The actions                                                              *)
(***************************************************************************)
LEMMA InitInv == Init => Inv
  <1> SUFFICES ASSUME Init PROVE Inv
    OBVIOUS
  <1>1. ConnOK
    BY ReplyIsReply DEF Init, ConnOK, Codes
  <1>2. relay \in Table /\ \A p \in Pids : relay[p].stage = "none"
    BY DEF Init, Table, NotForked
  <1>3. sess \in Attributes /\ sess.pid = Unset
    BY FreshAttributes DEF Init
  <1>4. Consistent(sess, relay)
    BY <1>2, <1>3 DEF Consistent, Recorded, Forked, NotStray
  <1>5. Held /\ Told /\ Down /\ Unmixed(sess)
    BY <1>3, FreshAttributes DEF Init, Held, Told, Down
  <1> QED
    BY <1>1, <1>4, <1>5 DEF Inv

LEMMA HostIpType ==
    \A c \in Clients, ver \in {4, 6} : HostIp(c, ver) \in Addresses \cup {Unset}
  BY ConstantsAssumption DEF ConstantsAssumption, LinkType, HostIp

LEMMA SetupInv == ASSUME Inv, NEW c \in Clients, HandleSetup(c) PROVE Inv'
  <1> DEFINE q     == wire[c]
             rtcp  == RtcpPort(q)
             our   == OurAddressFor(c)
             ports == [sess EXCEPT !.rtp = q.rtp, !.rtcp = rtcp]
             full  == [ports EXCEPT !.our = our, !.peer = Link[c].peer]
  <1>0. up /\ conn[c] = "open" /\ q \in Asks[c] /\ q \in Requests /\ q.method = "SETUP"
    BY DEF HandleSetup, Reading, Requests
  <1>1. q.rtp \in Nat /\ rtcp \in Nat
    <2>1. q.rtp \in Nat /\ q.rtcp \in Nat \cup {Unset}
      BY <1>0, ConstantsAssumption DEF ConstantsAssumption, RequestType
    <2> QED
      BY <2>1 DEF RtcpPort
  <1>2. our \in Addresses \cup {Unset} /\ Link[c].peer \in Addresses
    BY HostIpType, ConstantsAssumption DEF OurAddressFor, ConstantsAssumption, LinkType
  <1>3. /\ sess \in Attributes /\ Consistent(sess, relay) /\ Unmixed(sess)
        /\ sess.pid # Unset => holds # {}
    BY DEF Inv, Held, Consistent
  <1>4. Unset \notin Nat /\ Unset \notin Addresses
    BY ConstantsAssumption DEF ConstantsAssumption
  (* A recorded process has no arguments, or no attribute of the session is   *)
  (* Unset, so that changeable means unchanged.                               *)
  <1>5. ASSUME sess.pid # Unset
        PROVE  Blank(relay[sess.pid]) \/ (sess.rtp # Unset /\ sess.rtcp # Unset /\ sess.our # Unset)
    <2>1. sess.pid \in Pids
      BY <1>3, <1>5 DEF Attributes
    <2>2. Matches(sess, relay[sess.pid]) /\ Fit(relay[sess.pid])
      BY <1>3, <1>5, <2>1 DEF Consistent, Recorded, Forked
    <2>3. CASE Asked(relay[sess.pid])
      BY <2>2, <2>3, AskedIsComplete DEF Matches, Complete
    <2> QED
      BY <2>2, <2>3 DEF Fit
  (* A refusal means that the session was set up, so nothing has changed.     *)
  <1>6. ASSUME Changeable(sess.rtp, q.rtp),
               ~Changeable(sess.rtcp, rtcp) \/ ~Changeable(sess.our, our)
        PROVE  /\ Asked(sess) /\ sess.rtp = q.rtp
               /\ Changeable(sess.rtcp, rtcp) => sess.rtcp = rtcp
    <2>1. sess.pid # Unset /\ ~Blank(sess)
      BY <1>6 DEF Changeable, Blank
    <2>2. Asked(sess) /\ Complete(sess)
      BY <1>3, <2>1, AskedIsComplete DEF Unmixed
    <2> QED
      BY <1>6, <2>1, <2>2 DEF Changeable, Complete
  <1>7. ASSUME Changeable(sess.rtp, q.rtp), Changeable(sess.rtcp, rtcp)
        PROVE  Consistent(ports, relay) /\ ports.pid = sess.pid
    <2>1. ports \in Attributes /\ ports.pid = sess.pid /\ ports.rtp = q.rtp /\ ports.rtcp = rtcp
            /\ ports.our = sess.our
      BY <1>1, <1>3 DEF Attributes
    <2>2. sess.pid # Unset =>
             Blank(relay[sess.pid]) \/ (ports.rtp = sess.rtp /\ ports.rtcp = sess.rtcp)
      BY <1>5, <1>7, <2>1 DEF Changeable
    <2> HIDE DEF ports
    <2> QED
      BY <1>3, <2>1, <2>2, SetConsistent
  <1>8. ASSUME Changeable(sess.rtp, q.rtp), Changeable(sess.rtcp, rtcp), our # Unset,
               Changeable(sess.our, our)
        PROVE  Consistent(full, relay) /\ Complete(full) /\ Unmixed(full)
    <2>1. full \in Attributes /\ full.pid = sess.pid /\ full.rtp = q.rtp /\ full.rtcp = rtcp
            /\ full.our = our /\ full.peer = Link[c].peer
      BY <1>1, <1>2, <1>3, <1>8 DEF Attributes
    <2>2. sess.pid # Unset =>
             \/ Blank(relay[sess.pid])
             \/ full.rtp = sess.rtp /\ full.rtcp = sess.rtcp /\ full.our = sess.our
      BY <1>5, <1>8, <2>1 DEF Changeable
    <2> HIDE DEF full
    <2>3. Consistent(full, relay)
      BY <1>3, <2>1, <2>2, SetConsistent
    <2>4. Asked(full)
      BY <1>0, <1>8, <2>1 DEF Asked
    <2> QED
      BY <2>3, <2>4, AskedIsComplete DEF Unmixed
  <1> HIDE DEF ports, full
  <1>9. CASE \E code \in {455, 459, 461} : Answer(c, code, sess, relay, holds)
    BY <1>0, <1>9, PlainAnswerInv DEF Codes
  <1>10. CASE /\ Changeable(sess.rtp, q.rtp) /\ ~Changeable(sess.rtcp, rtcp)
              /\ Answer(c, 455, [sess EXCEPT !.rtp = q.rtp], relay, holds)
    <2>1. [sess EXCEPT !.rtp = q.rtp] = sess
      BY <1>3, <1>6, <1>10 DEF Attributes
    <2> QED
      BY <1>0, <1>10, <2>1, PlainAnswerInv DEF Codes
  <1>11. CASE /\ Changeable(sess.rtp, q.rtp) /\ Changeable(sess.rtcp, rtcp)
              /\ Crash(ports, relay, holds)
    BY <1>3, <1>7, <1>11, CrashInv DEF Inv
  <1>12. CASE /\ Changeable(sess.rtp, q.rtp) /\ Changeable(sess.rtcp, rtcp)
              /\ ~Changeable(sess.our, our)
              /\ Answer(c, 455, ports, relay, holds)
    <2>1. ports = sess
      BY <1>3, <1>6, <1>12 DEF Attributes, ports
    <2> QED
      BY <1>0, <1>12, <2>1, PlainAnswerInv DEF Codes
  <1>13. CASE /\ Changeable(sess.rtp, q.rtp) /\ Changeable(sess.rtcp, rtcp)
              /\ our # Unset /\ Changeable(sess.our, our)
              /\ Answer(c, 200, full, relay, holds \cup {c})
    <2>1. Consistent(full, relay) /\ Complete(full) /\ Unmixed(full)
      BY <1>8, <1>13
    <2> QED
      BY <1>0, <1>13, <2>1, AnswerInv DEF Codes
  <1> QED
    BY <1>9, <1>10, <1>11, <1>12, <1>13 DEF HandleSetup, SetupPorts, Error, ports, full

LEMMA PlayInv == ASSUME Inv, NEW c \in Clients, HandlePlay(c) PROVE Inv'
  <1>0. /\ up /\ conn[c] = "open" /\ wire[c] \in Requests /\ wire[c].method = "PLAY"
        /\ Consistent(sess, relay) /\ (sess.pid # Unset => holds # {})
    BY DEF HandlePlay, Reading, Requests, Inv, Held
  <1>1. CASE Error(c, 454)
    BY <1>0, <1>1, PlainAnswerInv DEF Error, Codes
  <1>2. ASSUME NamesSession(c), NEW p \in Free,
               Answer(c, 200, [sess EXCEPT !.pid = p], [relay EXCEPT ![p] = Child(sess)],
                      holds \cup {c})
        PROVE  Inv'
    <2> DEFINE s == [sess EXCEPT !.pid = p]
               r == [relay EXCEPT ![p] = Child(sess)]
    <2>1. p \in Pids /\ relay[p].stage = "none" /\ Unmixed(sess)
      BY <1>2 DEF Free, Inv
    <2>2. Consistent(s, r)
      BY <1>0, <2>1, ForkConsistent
    <2>3. (Complete(sess) => Complete(s)) /\ Unmixed(s)
      BY <1>0, <2>1 DEF Complete, Consistent, Attributes, Unmixed, Asked, Blank
    <2>4. Answer(c, 200, s, r, holds \cup {c})
      BY <1>2
    <2> HIDE DEF s, r
    <2> QED
      BY <1>0, <2>2, <2>3, <2>4, AnswerInv DEF Codes
  <1>3. CASE Crash(sess, relay, holds \cup {c})
    BY <1>0, <1>3, CrashInv DEF Inv
  <1> QED
    BY <1>1, <1>2, <1>3 DEF HandlePlay

LEMMA TeardownInv == ASSUME Inv, NEW c \in Clients, HandleTeardown(c) PROVE Inv'
  <1>0. /\ up /\ conn[c] = "open" /\ wire[c] \in Requests /\ wire[c].method = "TEARDOWN"
        /\ Consistent(sess, relay) /\ Unmixed(sess) /\ sess \in Attributes
    BY DEF HandleTeardown, Reading, Requests, Inv, Consistent
  <1>1. CASE Error(c, 454)
    BY <1>0, <1>1, PlainAnswerInv DEF Error, Codes
  <1>2. CASE Finish(c, Quiet, Stopped(sess), Interrupt(relay, sess.pid), holds \cup {c})
    <2>1. Consistent(Stopped(sess), Interrupt(relay, sess.pid))
      BY <1>0, StoppedAttributes, ForgetConsistent
    <2> QED
      BY <1>0, <1>2, <2>1, StoppedAttributes, FinishInv DEF Codes, Quiet
  <1> QED
    BY <1>1, <1>2 DEF HandleTeardown

LEMMA ReadEofInv == ASSUME Inv, NEW c \in Clients, ReadEof(c) PROVE Inv'
  <1>0. Consistent(sess, relay) /\ sess \in Attributes
    BY DEF Inv, Consistent
  <1>1. ConnOK'
    BY ReplyIsReply DEF Inv, ConnOK, ReadEof, Codes
  <1>2. CASE c \in holds
    <2>1. sess' = Stopped(sess) /\ relay' = Interrupt(relay, sess.pid)
      BY <1>2 DEF ReadEof
    <2>2. Consistent(sess, relay)'
      BY <1>0, <2>1, StoppedAttributes, ForgetConsistent
    <2>3. sess'.pid = Unset /\ (Complete(sess) => Complete(sess')) /\ Unmixed(sess')
      BY <1>0, <2>1, StoppedAttributes DEF Inv
    <2>4. Held' /\ Told' /\ Down'
      BY <2>3 DEF ReadEof, Inv, Held, Told, Down, ConnOK
    <2> QED
      BY <1>1, <2>2, <2>3, <2>4 DEF Inv
  <1>3. CASE c \notin holds
    <2>1. sess' = sess /\ relay' = relay /\ holds' = holds
      BY <1>3 DEF ReadEof
    <2>2. Held' /\ Told' /\ Down'
      BY <1>3, <2>1 DEF ReadEof, Inv, Held, Told, Down, ConnOK
    <2> QED
      BY <1>0, <1>1, <2>1, <2>2 DEF Inv
  <1> QED
    BY <1>2, <1>3

LEMMA HandleInv == ASSUME Inv, NEW c \in Clients, Handle(c) PROVE Inv'
  <1>0. Consistent(sess, relay) /\ (sess.pid # Unset => holds # {})
    BY DEF Inv, Held
  <1>1. CASE HandleUnsupportedOption(c)
    BY <1>0, <1>1, CrashInv DEF HandleUnsupportedOption, Inv
  <1>2. CASE HandleOptions(c)
    BY <1>2, PlainAnswerInv DEF HandleOptions, Reading, Requests, Codes
  <1>3. CASE HandleDescribe(c)
    <2>1. CASE Answer(c, 200, sess, relay, holds)
      BY <1>3, <2>1, PlainAnswerInv DEF HandleDescribe, Reading, Requests, Codes
    <2>2. CASE Crash(sess, relay, holds)
      BY <1>0, <2>2, CrashInv DEF Inv
    <2> QED
      BY <1>3, <2>1, <2>2 DEF HandleDescribe
  <1>4. CASE HandleSetup(c)
    BY <1>4, SetupInv
  <1>5. CASE HandlePlay(c)
    BY <1>5, PlayInv
  <1>6. CASE HandleTeardown(c)
    BY <1>6, TeardownInv
  <1>7. CASE HandleOther(c)
    <2>1. CASE Reading(c, NotAllowed) /\ Error(c, 405)
      BY <2>1, PlainAnswerInv DEF Reading, Requests, Error, Codes
    <2>2. CASE Reading(c, {"unknown"}) /\ Error(c, 400)
      BY <2>2, PlainAnswerInv DEF Reading, Requests, Error, Codes
    <2> QED
      BY <1>7, <2>1, <2>2 DEF HandleOther
  <1>8. CASE ReadEof(c)
    BY <1>8, ReadEofInv
  <1>9. CASE ReadReset(c)
    BY <1>0, <1>9, CrashInv DEF ReadReset, Inv
  <1> QED
    BY <1>1, <1>2, <1>3, <1>4, <1>5, <1>6, <1>7, <1>8, <1>9 DEF Handle

(* Processes that move on or die, with nothing else about them changed.     *)
LEMMA StageConsistent ==
    ASSUME NEW s, NEW r, NEW t \in Table, Consistent(s, r),
           \A p \in Pids :
              /\ t[p].hit = r[p].hit /\ t[p].inherited = r[p].inherited
              /\ t[p].rtp = r[p].rtp /\ t[p].rtcp = r[p].rtcp
              /\ t[p].our = r[p].our /\ t[p].peer = r[p].peer
              /\ t[p].stage = "none" <=> r[p].stage = "none"
              /\ Blank(r[p]) /\ r[p].stage \in {"forked", "dead"} => t[p].stage \in {"forked", "dead"}
              /\ t[p].stage \in {"forked", "execed", "streaming", "dying"} =>
                    r[p].stage \in {"forked", "execed", "streaming", "dying"}
    PROVE  Consistent(s, t)
  <1>0. s \in Attributes /\ r \in Table
    BY DEF Consistent
  <1>1. Recorded(s, t)
    BY <1>0 DEF Consistent, Recorded, Matches, Blank, Attributes
  <1>2. Forked(s, t)
    <2> SUFFICES ASSUME NEW p \in Pids, t[p].stage # "none"
                 PROVE  /\ Fit(t[p])
                        /\ t[p].inherited # Unset =>
                             t[p].inherited # s.pid /\ t[t[p].inherited].stage # "none"
      BY DEF Forked
    <2>1. Fit(t[p])
      BY DEF Consistent, Forked, Fit, Asked, Blank
    <2>2. ASSUME t[p].inherited # Unset
          PROVE  t[p].inherited # s.pid /\ t[t[p].inherited].stage # "none"
      <3>1. t[p].inherited \in Pids
        BY <2>2 DEF Table
      <3> QED
        BY <2>2, <3>1 DEF Consistent, Forked
    <2> QED
      BY <2>1, <2>2
  <1>3. NotStray(s, t)
    BY DEF Consistent, NotStray
  <1> QED
    BY <1>0, <1>1, <1>2, <1>3 DEF Consistent

(* A child that unwinds interrupts the process it inherited, which is not   *)
(* the recorded one.                                                        *)
LEMMA InterruptConsistent ==
    ASSUME NEW s, NEW r, NEW p \in Pids \cup {Unset}, Consistent(s, r),
           p # Unset => p # s.pid
    PROVE  Consistent(s, Interrupt(r, p))
  <1> DEFINE i == Interrupt(r, p)
  <1>0. s \in Attributes /\ r \in Table
    BY DEF Consistent
  <1>1. i \in Table
    BY <1>0, InterruptEffect
  <1>2. Recorded(s, i)
    <2> SUFFICES ASSUME s.pid # Unset
                 PROVE  /\ i[s.pid].stage # "none" /\ i[s.pid].hit = FALSE
                        /\ Matches(s, i[s.pid])
      BY DEF Recorded
    <2>1. s.pid \in Pids /\ s.pid # p
      BY <1>0 DEF Attributes
    <2>2. i[s.pid] = r[s.pid]
      BY <1>0, <2>1, InterruptEffect
    <2> QED
      BY <2>2 DEF Consistent, Recorded
  <1>3. Forked(s, i)
    <2> SUFFICES ASSUME NEW q \in Pids, i[q].stage # "none"
                 PROVE  /\ Fit(i[q])
                        /\ i[q].inherited # Unset =>
                             i[q].inherited # s.pid /\ i[i[q].inherited].stage # "none"
      BY DEF Forked
    <2>1. r[q].stage # "none" /\ i[q].inherited = r[q].inherited
      BY <1>0, InterruptEffect
    <2>2. Fit(i[q])
      BY <2>1, <1>0, InterruptFit DEF Consistent, Forked
    <2>3. ASSUME i[q].inherited # Unset
          PROVE  i[q].inherited # s.pid /\ i[i[q].inherited].stage # "none"
      <3>1. i[q].inherited \in Pids
        BY <1>1, <2>3 DEF Table
      <3>2. r[q].inherited # s.pid /\ r[r[q].inherited].stage # "none"
        BY <2>1, <2>3 DEF Consistent, Forked
      <3> QED
        BY <3>1, <3>2, <2>1, <1>0, InterruptEffect
    <2> QED
      BY <2>2, <2>3
  <1>4. NotStray(s, i)
    <2> SUFFICES ASSUME NEW q \in Pids, i[q].stage \in {"forked", "execed", "streaming", "dying"}, s.pid # q
                 PROVE  \/ i[q].hit
                        \/ \E o \in Pids : i[o].stage # "none" /\ i[o].inherited = q
      BY DEF NotStray
    <2>1. r[q].stage \in {"forked", "execed", "streaming", "dying"} /\ i[q].hit = (r[q].hit \/ q = p)
      BY <1>0, InterruptEffect
    <2>2. CASE r[q].hit
      BY <2>1, <2>2
    <2>3. CASE ~r[q].hit
      <3>1. PICK o \in Pids : r[o].stage # "none" /\ r[o].inherited = q
        BY <2>1, <2>3 DEF Consistent, NotStray
      <3>2. i[o].stage # "none" /\ i[o].inherited = q
        BY <3>1, <1>0, InterruptEffect
      <3> QED
        BY <3>2
    <2> QED
      BY <2>2, <2>3
  <1> HIDE DEF i
  <1>5. Consistent(s, i)
    BY <1>0, <1>1, <1>2, <1>3, <1>4 DEF Consistent
  <1> QED
    BY <1>5 DEF i

(* Steps that leave the server and the connections alone.                   *)
LEMMA RelayStepInv ==
    ASSUME Inv, Consistent(sess, relay'), UNCHANGED <<up, conn, gone, wire, holds, told, id, sess>>
    PROVE  Inv'
  BY DEF Inv, ConnOK, Held, Told, Down

LEMMA ProcessInv == ASSUME Inv, NEW p \in Pids, Process(p) PROVE Inv'
  <1>0. Consistent(sess, relay) /\ relay \in Table
    BY DEF Inv, Consistent
  <1>1. ASSUME NEW stage \in {"execed", "streaming", "dead"},
               relay[p].stage \in {"forked", "execed", "streaming", "dying"},
               relay[p].stage = "forked" => Complete(relay[p]) \/ stage = "dead"
        PROVE  Consistent(sess, [relay EXCEPT ![p].stage = stage])
    <2> DEFINE t == [relay EXCEPT ![p].stage = stage]
    <2>1. t \in Table
      BY <1>0 DEF Table
    <2>2. /\ \A q \in Pids : q # p => t[q] = relay[q]
          /\ t[p].hit = relay[p].hit /\ t[p].inherited = relay[p].inherited
          /\ t[p].rtp = relay[p].rtp /\ t[p].rtcp = relay[p].rtcp
          /\ t[p].our = relay[p].our /\ t[p].peer = relay[p].peer
          /\ t[p].stage = stage
      BY <1>0 DEF Table
    <2>4. relay[p].stage \in {"forked", "dead"} /\ Blank(relay[p]) => stage = "dead"
      BY <1>1 DEF Complete, Blank
    <2> HIDE DEF t
    <2>3. Consistent(sess, t)
      BY <1>0, <1>1, <2>1, <2>2, <2>4, StageConsistent
    <2> QED
      BY <2>3 DEF t
  <1>2. CASE ChildExec(p)
    <2>1. Consistent(sess, relay')
      BY <1>1, <1>2 DEF ChildExec
    <2> QED
      BY <1>2, <2>1, RelayStepInv DEF ChildExec
  <1>3. CASE ChildUnwinds(p)
    <2> DEFINE t == [relay EXCEPT ![p].stage = "dead"]
               o == relay[p].inherited
    <2>1. Consistent(sess, t)
      BY <1>1, <1>3 DEF ChildUnwinds
    <2>2. o \in Pids \cup {Unset} /\ (o # Unset => o # sess.pid)
      BY <1>0, <1>3 DEF Consistent, Forked, Table, ChildUnwinds
    <2>3. relay' = Interrupt(t, o)
      BY <1>3 DEF ChildUnwinds
    <2> HIDE DEF t, o
    <2>4. Consistent(sess, relay')
      BY <2>1, <2>2, <2>3, InterruptConsistent
    <2> QED
      BY <1>3, <2>4, RelayStepInv DEF ChildUnwinds
  <1>4. CASE RelayBinds(p)
    <2>1. Consistent(sess, relay')
      BY <1>1, <1>4 DEF RelayBinds
    <2> QED
      BY <1>4, <2>1, RelayStepInv DEF RelayBinds
  <1>5. CASE RelayDies(p)
    <2>1. Consistent(sess, relay')
      BY <1>1, <1>5 DEF RelayDies
    <2> QED
      BY <1>5, <2>1, RelayStepInv DEF RelayDies
  <1>6. CASE RelayExits(p)
    <2>1. Consistent(sess, relay')
      BY <1>1, <1>6 DEF RelayExits
    <2> QED
      BY <1>6, <2>1, RelayStepInv DEF RelayExits
  <1> QED
    BY <1>2, <1>3, <1>4, <1>5, <1>6 DEF Process

LEMMA ControlGroupKillInv == ASSUME Inv, ControlGroupKill PROVE Inv'
  <1>0. Consistent(sess, relay) /\ relay \in Table
    BY DEF Inv, Consistent
  <1>1. relay' = [p \in Pids |-> IF Live(p) THEN [relay[p] EXCEPT !.stage = "dead"] ELSE relay[p]]
    BY DEF ControlGroupKill
  <1>2. relay' \in Table
    BY <1>0, <1>1 DEF Table
  <1>3. \A p \in Pids :
           /\ relay'[p].hit = relay[p].hit /\ relay'[p].inherited = relay[p].inherited
           /\ relay'[p].rtp = relay[p].rtp /\ relay'[p].rtcp = relay[p].rtcp
           /\ relay'[p].our = relay[p].our /\ relay'[p].peer = relay[p].peer
           /\ relay'[p].stage = IF Live(p) THEN "dead" ELSE relay[p].stage
    BY <1>0, <1>1 DEF Table
  <1>4. Consistent(sess, relay')
    BY <1>0, <1>2, <1>3, StageConsistent DEF Live
  <1> QED
    BY <1>4, RelayStepInv DEF ControlGroupKill

LEMMA ActivateInv == ASSUME Inv, Activate PROVE Inv'
  <1>1. relay' \in Table /\ \A p \in Pids : relay'[p].stage = "none"
    BY DEF Activate, Table, NotForked
  <1>2. sess' = FreshSession /\ holds' = holds /\ told' = told /\ conn' = conn
    BY DEF Activate, Inv, Down
  <1>3. Consistent(sess, relay)'
    BY <1>1, <1>2, FreshAttributes DEF Consistent, Recorded, Forked, NotStray
  <1>4. Held' /\ Told' /\ Down' /\ Unmixed(sess')
    BY <1>2, FreshAttributes DEF Activate, Inv, Held, Told, Down
  <1>5. ConnOK'
    BY DEF Activate, Inv, ConnOK
  <1> QED
    BY <1>3, <1>4, <1>5 DEF Inv

LEMMA ClientInv == ASSUME Inv, NEW c \in Clients, Client(c) \/ Accept(c) PROVE Inv'
  <1>1. ConnOK'
    <2>1. CASE Connect(c)
      BY <2>1, ReplyIsReply DEF Connect, Inv, ConnOK, Codes
    <2>2. ASSUME NEW q \in Asks[c], Send(c, q) PROVE ConnOK'
      BY <2>2 DEF Send, Inv, ConnOK, Requests
    <2>3. CASE HangUp(c)
      BY <2>3 DEF HangUp, Inv, ConnOK
    <2>4. CASE ResetByPeer(c)
      BY <2>4 DEF ResetByPeer, Inv, ConnOK
    <2>5. CASE Accept(c)
      BY <2>5 DEF Accept, Inv, ConnOK
    <2> QED
      BY <2>1, <2>2, <2>3, <2>4, <2>5 DEF Client
  <1>2. sess' = sess /\ relay' = relay /\ holds' = holds /\ told' = told /\ up' = up
    BY DEF Client, Connect, Send, HangUp, ResetByPeer, Accept
  <1>3. Held'
    BY <1>2 DEF Client, Connect, Send, HangUp, ResetByPeer, Accept, Inv, Held, ConnOK
  <1>4. Told'
    BY <1>2 DEF Inv, Told
  <1>5. Down'
    BY <1>2 DEF Client, Connect, Send, HangUp, ResetByPeer, Accept, Inv, Down, ConnOK
  <1> QED
    BY <1>1, <1>2, <1>3, <1>4, <1>5 DEF Inv

-------------------------------------------------------------------------------
(***************************************************************************)
(* The theorems                                                             *)
(***************************************************************************)
(* The invariant holds in every reachable state: no interleaving of         *)
(* clients, handlers, children and restarts breaks the ties between the     *)
(* session, the relays and the connections.                                 *)
THEOREM Invariance == Spec => []Inv
  <1>1. Init => Inv
    BY InitInv
  <1>2. Inv /\ [Next]_vars => Inv'
    <2> SUFFICES ASSUME Inv, [Next]_vars PROVE Inv'
      OBVIOUS
    <2>1. ASSUME NEW c \in Clients, Client(c) \/ Accept(c) \/ Handle(c) PROVE Inv'
      BY <2>1, ClientInv, HandleInv
    <2>2. ASSUME NEW p \in Pids, Process(p) PROVE Inv'
      BY <2>2, ProcessInv
    <2>3. CASE ControlGroupKill
      BY <2>3, ControlGroupKillInv
    <2>4. CASE Activate
      BY <2>4, ActivateInv
    <2>5. CASE UNCHANGED vars
      <3>1. Consistent(sess, relay)'
        BY <2>5 DEF vars, Inv
      <3> QED
        BY <2>5, <3>1 DEF vars, Inv, ConnOK, Held, Told, Down
    <2> QED
      BY <2>1, <2>2, <2>3, <2>4, <2>5 DEF Next
  <1> QED
    BY <1>1, <1>2, PTL DEF Spec

(* Every variable keeps its type.                                           *)
THEOREM TypeCorrect == Spec => []TypeOK
  <1>1. Inv => TypeOK
    BY DEF Inv, ConnOK, Consistent, Attributes, Table, TypeOK
  <1> QED
    BY <1>1, Invariance, PTL

(* What the session says is what the recorded relay was started with.       *)
THEOREM ParametersAreFrozen == Spec => []FrozenParameters
  <1>1. Inv => FrozenParameters
    BY ConstantsAssumption DEF Inv, Consistent, Recorded, Matches, FrozenParameters, Current,
       ConstantsAssumption
  <1> QED
    BY <1>1, Invariance, PTL

(* A recorded relay has an open connection that will stop it.               *)
THEOREM StreamIsHeld == Spec => []StreamHasHolder
  <1>1. Inv => StreamHasHolder
    BY DEF Inv, Held, StreamHasHolder
  <1> QED
    BY <1>1, Invariance, PTL

(* Every relay that runs unrecorded was superseded or interrupted.          *)
THEOREM StraysAreKnown == Spec => []NoStrayRelay
  <1>1. Inv => NoStrayRelay
    BY DEF Inv, Consistent, NotStray, NoStrayRelay, Live, Current
  <1> QED
    BY <1>1, Invariance, PTL

(* SIGINT and the recorded pid never meet without stop() resetting it.      *)
THEOREM CurrentIsSpared == Spec => []CurrentNotInterrupted
  <1>1. Inv => CurrentNotInterrupted
    BY ConstantsAssumption DEF Inv, Consistent, Recorded, CurrentNotInterrupted, Current,
       ConstantsAssumption
  <1> QED
    BY <1>1, Invariance, PTL

(* From the first answer to a SETUP until the service ends, and whoever     *)
(* names the session or learned its id elsewhere, no attribute is unset.    *)
THEOREM PlayIsComplete == Spec => []PlayableWhenTold
  <1>1. Inv => PlayableWhenTold
    BY DEF Inv, Told, PlayableWhenTold
  <1> QED
    BY <1>1, Invariance, PTL

(* No stream mixes what different clients asked for.                        *)
THEOREM StreamsAreOneClients == Spec => []OneClientsParameters
  <1>1. Inv => OneClientsParameters
    BY DEF Inv, Unmixed, Consistent, Forked, Fit, OneClientsParameters
  <1> QED
    BY <1>1, Invariance, PTL
===============================================================================
