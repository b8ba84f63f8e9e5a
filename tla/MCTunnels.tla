----------------------------- MODULE MCTunnels -----------------------------
(***************************************************************************)
(* Access tunnels for model checking.  A behaviour has one of three        *)
(* emphases, so that TLC visits the union of their states: tunnel sessions *)
(* while the agent runs, one session when it stops, and the SSH server.    *)
(***************************************************************************)
EXTENDS MeshServer

VARIABLE emphasis

vars == <<emphasis, meshVars>>

Init == emphasis \in {"sessions", "stop", "ssh"} /\ MeshInit

Next ==
    /\ MeshNext
    /\ emphasis = "sessions" => ~stopping'
    /\ created' <= IF emphasis = "ssh" THEN 0 ELSE IF emphasis = "stop" THEN 1 ELSE MaxCreated
    /\ emphasis # "ssh" => \A c \in Client : sshConn'[c] = "none"
    /\ UNCHANGED emphasis

Spec == Init /\ [][Next]_vars /\ MeshFairness
=============================================================================
