------------------------------ MODULE MCWindow ------------------------------
(* The owner's window and the shell around it, one beside the other: in a        *)
(* behaviour one of the two moves and the other rests.                          *)
EXTENDS Window, Supervisor

VARIABLE moving

MCInit == moving \in {"list", "shell"} /\ Init /\ ShellInit

MCNext ==
    /\ UNCHANGED moving
    /\ \/ moving = "list"  /\ Next      /\ UNCHANGED shellVars
       \/ moving = "shell" /\ ShellNext /\ UNCHANGED vars

\* The fairness of the one that moves.
MCFairSpec ==
    /\ MCInit /\ [][MCNext]_<<moving, vars, shellVars>>
    /\ \A v \in Viewer : WF_vars(moving = "list" /\ TimerBeats(v))
    /\ \A m \in Message : WF_vars(moving = "list" /\ Arrives(m))
    /\ WF_vars(moving = "list" /\ Sweep) /\ SF_vars(moving = "list" /\ Tick)
    /\ WF_vars(moving = "list" /\ HearOfLoss)
    /\ WF_vars(moving = "list" /\ Hear) /\ WF_vars(moving = "list" /\ Fetch)
    /\ WF_vars(moving = "list" /\ Resync) /\ WF_vars(moving = "list" /\ Subscribe)
    /\ WF_shellVars(moving = "shell" /\ ShellActs("setup"))
    /\ WF_shellVars(moving = "shell" /\ (ShellActs("main") \/ StopForRestart \/ StopForQuit \/ Exit))
    /\ \A d \in Daemon : WF_shellVars(moving = "shell" /\ Bind(d))
=============================================================================
