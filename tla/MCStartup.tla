----------------------------- MODULE MCStartup -----------------------------
(***************************************************************************)
(* Startup for TLC: every expiration up to a little over the default, with *)
(* and without a refresh period of one's own.                              *)
(***************************************************************************)
EXTENDS Startup

UpToAMinute == 0..61
OwnRefresh == {0, 50}
Dogs == {0, 10000000}
=============================================================================
