-------------------------- MODULE MCRegistration ---------------------------
(* Instances of Registration for TLC.                                       *)
EXTENDS Registration

MCEmby == {{"emby"}}
MCEach == {{"plex"}, {"emby"}, {"libraries"}}

=============================================================================
