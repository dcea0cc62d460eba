--------------------------- MODULE DaemonRequests ---------------------------
(***************************************************************************)
(* What the daemon's requests change, beside each other: saved settings,   *)
(* the senders of notifications and the credentials.  They share no state. *)
(***************************************************************************)
EXTENDS Settings, Senders, Credentials

(* The types of the three modules, with the limits on queues and sessions; *)
(* and sizes or bounds that exclude each other are never together, in the  *)
(* camera, in a daemon or in its file (Settings, update_geometry).         *)
RequestsAreConsistent ==
    SettingsTypeOK /\ NeverTogether /\ SenderTypeOK /\ CredentialTypeOK
=============================================================================
