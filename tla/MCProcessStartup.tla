--------------------------- MODULE MCProcessStartup ---------------------------
(***************************************************************************)
(* TLC instance of ProcessStartup: two relays and a player that are given   *)
(* one address, and a process for each kind of argument that is refused.    *)
(***************************************************************************)
EXTENDS ProcessStartup

CONSTANTS relay1, relay2, player1, mixed, unscoped, helpless, nopeer, here, there

MCProcs == {relay1, relay2, player1, mixed, unscoped, helpless, nopeer}
MCHosts == {here, there}

Our(fam)  == [opt |-> "x", arg |-> [fam |-> fam, host |-> here]]
Peer(fam) == [opt |-> "a", arg |-> [fam |-> fam, host |-> there]]

OurName      == [opt |-> "x", arg |-> Unreadable]
PeerUnscoped == [opt |-> "a", arg |-> Unscoped]
OurPort      == [opt |-> "y", arg |-> Unreadable]
Help         == [opt |-> "h", arg |-> Unreadable]

Arguments(prog, options) == [prog |-> prog, options |-> options]

MCArgs ==
    [p \in MCProcs |->
        CASE p = relay1   -> Arguments("relay", <<Our("v6"), Peer("v6")>>)
          [] p = relay2   -> Arguments("relay", <<Peer("v4"), Our("v6"), OurPort, OurName, Peer("v6")>>)
          [] p = player1  -> Arguments("player", <<Our("v4"), Our("v6"), Peer("v6")>>)
          [] p = mixed    -> Arguments("player", <<Our("v4"), Peer("v6")>>)
          [] p = unscoped -> Arguments("relay", <<Our("v6"), PeerUnscoped>>)
          [] p = helpless -> Arguments("relay", <<Our("v4"), OurName, Help>>)
          [] p = nopeer   -> Arguments("relay", <<Our("v4")>>)]
===============================================================================
