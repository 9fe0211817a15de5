--------------------------- MODULE MCDiscordStatus --------------------------
(* Instances of DiscordStatus for TLC.                                     *)
EXTENDS DiscordStatus

=============================================================================
