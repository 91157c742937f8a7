------------------------------ MODULE MCTeams -------------------------------
(* Instances of Teams, and the Channel it extends, for TLC: every adapter. *)
EXTENDS Teams

AllPlatforms == Webhook \cup Polling \cup Socket
=============================================================================
