--------------------------- MODULE MCStreamSessions ---------------------------
(* StreamSessions with two sessions, which suffice for one to end while the *)
(* other starts, and one HTTPS thread or probe beside the RTSP thread.      *)
EXTENDS StreamSessions

CONSTANTS a, b, http, probe

TwoVideo == {a, b}
OneVideo == {a}
OneControl == {b}
OneHttp == {http}
OneProbe == {probe}
Nobody == {}
=============================================================================
