----------------------------- MODULE MCHostLaunch -----------------------------
(* HostLaunch with one or two HTTPS workers and two preparation commands.    *)
EXTENDS HostLaunch

CONSTANTS h1, h2, rtsp, control

One == {h1}
Two == {h1, h2}
=============================================================================
