----------------------------- MODULE MCGameLaunch ----------------------------
(* Instances of GameLaunch: two or three launch threads. *)
EXTENDS GameLaunch

=============================================================================
