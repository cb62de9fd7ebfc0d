---------------------------- MODULE MCRelayTunnel ----------------------------
(* RelayTunnel with the code's own delays in the model's units, and beside it  *)
(* the layers a connection of it is made of.  In each behaviour one of them    *)
(* moves and the others rest in one of their initial states.                  *)
EXTENDS RelayTunnel, WsBytes, TunnelHello, TunnelStream

VARIABLE moving

MCInit ==
    /\ moving \in {"tunnel", "bytes", "hello", "stream"}
    /\ Init
    /\ moving # "tunnel" => edge = "gone"
    /\ WsInit
    /\ HelloInit
    /\ moving # "hello" => /\ dialler \in [Connection -> {CHOOSE k \in Install : TRUE}]
                           /\ speaks \in [Install -> {NoRange}] /\ edgeSpeaks = NoRange
    /\ StreamInit
    /\ moving # "stream" => opener = [kind |-> "http", len |-> 1] /\ after = 0

MCNext ==
    /\ UNCHANGED moving
    /\ \/ moving = "tunnel" /\ Next       /\ UNCHANGED <<wsVars, helloVars, streamVars>>
       \/ moving = "bytes"  /\ WsNext     /\ UNCHANGED <<vars, helloVars, streamVars>>
       \/ moving = "hello"  /\ HelloNext  /\ UNCHANGED <<vars, wsVars, streamVars>>
       \/ moving = "stream" /\ StreamNext /\ UNCHANGED <<vars, wsVars, helloVars>>

\* The fairness of RelayTunnel and of WsBytes, for the one that moves.
MCFairSpec ==
    /\ MCInit /\ [][MCNext]_<<moving, vars, wsVars, helloVars, streamVars>>
    /\ WF_vars(moving = "tunnel" /\ Daemon)
    /\ WF_vars(moving = "tunnel" /\ (Hello \/ NoCommonVersion \/ Welcome \/ Refused \/ EdgeGoneMidway))
    /\ WF_vars(moving = "tunnel" /\ OpenControl)
    /\ WF_vars(moving = "tunnel" /\ Elapse)
    /\ WF_wsVars(moving = "bytes" /\ WsReader)
=============================================================================
