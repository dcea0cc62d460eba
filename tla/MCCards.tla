------------------------------- MODULE MCCards -------------------------------
(* Small instances of the two ways in which the host and the camera take a  *)
(* card from one state to another, one of them per behaviour: the restore   *)
(* of the stock firmware, and the clearing of a card for another build.     *)
EXTENDS StockRestore, MediaQuarantine

VARIABLE work   \* the component this behaviour is about

CardsInit == work \in {"restore", "quarantine"} /\ RestoreInit /\ QuarantineInit

CardsNext ==
    /\ UNCHANGED work
    /\ \/ work = "restore" /\ RestoreNext /\ UNCHANGED quarantineVars
       \/ work = "quarantine" /\ QuarantineNext /\ UNCHANGED restoreVars

cardsVars == <<work, restoreVars, quarantineVars>>

(* The fairness of each module, for the behaviours that are about it.       *)
Restores(A) == work = "restore" /\ A /\ UNCHANGED <<work, quarantineVars>>
Clears(A) == work = "quarantine" /\ A /\ UNCHANGED <<work, restoreVars>>
CardsFairness ==
    /\ WF_cardsVars(Restores(RestorerStep \/ update_mtd1 \/ update_mtd2))
    /\ WF_cardsVars(Restores(power_off)) /\ WF_cardsVars(Restores(boot_updater))
    /\ SF_cardsVars(Restores(boot_firmware /\ Boots("restorer")))
    /\ WF_cardsVars(Clears(HostStep))
    /\ SF_cardsVars(Restores(HostCommand) \/ Clears(resume_quarantine))

CardsSpec == CardsInit /\ [][CardsNext]_cardsVars /\ CardsFairness

(* A restore that is kept up ends with the stock firmware back and the card *)
(* archived, and a quarantine that is resumed with the card cleared or      *)
(* whole again, unless a leftover that the two modules name stays on the    *)
(* card and no command goes on (reauthorize_interrupted_stock_restore and   *)
(* passivate_completed_stock_restore; quarantine --resume).                 *)
CardWorkSettles ==
    /\ work = "restore" => EventuallyRestored
    /\ work = "quarantine" => QuarantineSettles
=============================================================================
