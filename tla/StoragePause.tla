---------------------------- MODULE StoragePause ----------------------------
(***************************************************************************)
(* What the timelapse service promises to whoever formats the card: a      *)
(* pause is granted only while nothing of the service touches the card,    *)
(* and nothing new is begun from the moment the pause is asked for.        *)
(***************************************************************************)
VARIABLES
    writing,   \* an operation on the card, or a file left half done on it
    pause      \* "none", "asked", "held"

vars == <<writing, pause>>

Init == writing = FALSE /\ pause = "none"

Begin == ~writing /\ pause = "none" /\ writing' = TRUE /\ UNCHANGED pause

End == writing /\ writing' = FALSE /\ UNCHANGED pause

Ask == pause = "none" /\ pause' = "asked" /\ UNCHANGED writing

Grant == pause = "asked" /\ ~writing /\ pause' = "held" /\ UNCHANGED writing

(* A pause that is not granted in time is withdrawn, a held one released.  *)
Withdraw == pause # "none" /\ pause' = "none" /\ UNCHANGED writing

(* The camera restarts: whatever was on the card stays as it is.           *)
Restart == writing' = FALSE /\ pause' = "none"

Next == Begin \/ End \/ Ask \/ Grant \/ Withdraw \/ Restart

Spec == Init /\ [][Next]_vars
=============================================================================
