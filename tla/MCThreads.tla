------------------------------ MODULE MCThreads ------------------------------
(* Small instances of the daemon's event threads for TLC, one of them per   *)
(* behaviour: they share no state that either of them reads, so the others  *)
(* rest where their first state leaves them.                                *)
EXTENDS DaemonThreads

VARIABLE part   \* the component this behaviour is about

C(debounce, cooldown, init, hold) ==
    [debounce |-> debounce, cooldown |-> cooldown, init |-> init, hold |-> hold]
TwoConfigs == {C(0, 1, 0, 1), C(2, 1, 1, 0)}

MotionRests == MotionInit /\ rvd.config = C(0, 1, 0, 1) /\ ~rvd.active
ActionsRest == ActionInit /\ writer = "closed"

ThreadsInit ==
    \/ part = "poller"  /\ MotionInit  /\ ActionsRest /\ ServerInit
    \/ part = "actions" /\ MotionRests /\ ActionInit  /\ ServerInit
    \/ part = "server"  /\ MotionRests /\ ActionsRest /\ ServerInit

ThreadsNext ==
    /\ UNCHANGED part
    /\ \/ part = "poller"  /\ MotionNext /\ UNCHANGED <<actionVars, serverVars>>
       \/ part = "actions" /\ ActionNext /\ UNCHANGED <<motionVars, serverVars>>
       \/ part = "server"  /\ ServerNext /\ UNCHANGED <<motionVars, actionVars>>

threadsVars == <<part, motionVars, actionVars, serverVars>>

(* The fairness of each module, for the behaviours that are about it.       *)
Of(name, A, others) == part = name /\ A /\ UNCHANGED <<part, others>>
PollerFairness ==
    /\ WF_threadsVars(Of("poller", MotionPoll, <<actionVars, serverVars>>))
    /\ WF_threadsVars(Of("poller", MotionUpdate, <<actionVars, serverVars>>))
    /\ WF_threadsVars(Of("poller", DetectorResumes, <<actionVars, serverVars>>))
ActionsFairness ==
    /\ WF_threadsVars(Of("actions", ActionWorker, <<motionVars, serverVars>>))
    /\ WF_threadsVars(Of("actions", stop_at_passes, <<motionVars, serverVars>>))
    /\ WF_threadsVars(Of("actions", ActionViewer, <<motionVars, serverVars>>))
    /\ WF_threadsVars(Of("actions", format_restores, <<motionVars, serverVars>>))
    /\ WF_threadsVars(Of("actions", WriterOpens, <<motionVars, serverVars>>))
    /\ WF_threadsVars(Of("actions", WriterCloses, <<motionVars, serverVars>>))
ServerFairness ==
    /\ \A w \in Workers : WF_threadsVars(Of("server", Serves(w), <<motionVars, actionVars>>))
    /\ WF_threadsVars(Of("server", join, <<motionVars, actionVars>>))

ThreadsSpec ==
    /\ ThreadsInit /\ [][ThreadsNext]_threadsVars
    /\ PollerFairness /\ ActionsFairness /\ ServerFairness
=============================================================================
