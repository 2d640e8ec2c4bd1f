---------------------------- MODULE ServiceContract ----------------------------
(***************************************************************************)
(* What the callers of the service may rely on: a service that is stopped, *)
(* starts, serves and stops again, and whose port is open only in between. *)
(***************************************************************************)
VARIABLES state,  \* "stopped", "starting", "serving" or "stopping"
          port    \* the RTSP server's port is open

vars == <<state, port>>

Init == state = "stopped" /\ port = FALSE

Start == /\ state = "stopped" /\ ~port
         /\ state' = "starting"
         /\ UNCHANGED port

\* A stop may come while the server is being set up.
OpenPort == /\ state \in {"starting", "stopping"} /\ ~port
            /\ port' = TRUE
            /\ UNCHANGED state

Announce == /\ state = "starting" /\ port
            /\ state' = "serving"
            /\ UNCHANGED port

Fail == /\ state = "starting" /\ ~port
        /\ state' = "stopped"
        /\ UNCHANGED port

Stop == /\ state \in {"starting", "serving"}
        /\ state' = "stopping"
        /\ UNCHANGED port

ClosePort == /\ state = "stopping" /\ port
             /\ port' = FALSE
             /\ UNCHANGED state

Stopped == /\ state = "stopping" /\ ~port
           /\ state' = "stopped"
           /\ UNCHANGED port

Next == Start \/ OpenPort \/ Announce \/ Fail \/ Stop \/ ClosePort \/ Stopped

Spec == Init /\ [][Next]_vars

================================================================================
