---------------------------- MODULE MCRelayProcess ----------------------------
(***************************************************************************)
(* Instances of RelayProcess for TLC.  The relay has two descriptors, so    *)
(* that with three slots the loop also visits one that was never written.   *)
(***************************************************************************)
EXTENDS RelayProcess

(* Memory that was clear, events without a callback, and events that find   *)
(* something to call.                                                       *)
AnyGarbage ==
    {[revents |-> {}, handlers |-> {}],
     [revents |-> {"in"}, handlers |-> {"err"}],
     [revents |-> {"in", "err"}, handlers |-> {"err"}]}

(* A report of two sources with an extension, before a description of four  *)
(* with items of every padding; and a packet of a type that is skipped,     *)
(* before a report of none and a description of one.                        *)
Reports ==
    {ReceiverReport(2, 8) \o Description(<<<<3, 2>>, <<0>>, <<1>>, <<>>>>),
     Other(12) \o ReceiverReport(0, 0) \o Description(<<<<5>>>>)}

OneReport == {ReceiverReport(1, 0)}

ReportsAndEmpty == Reports \cup {NoData}
===============================================================================
