---------------------------- MODULE MCDisplaySession ----------------------------
(* DisplaySession with two requests for the monitors of the host, one that    *)
(* needs the virtual display, and two retries.                                *)
EXTENDS DisplaySession

CONSTANTS p1, p2, v1

MCRequests == {p1, p2, v1}
MCVdd == {v1}
Alike == {{p1, p2}, {v1}}
Mixed == {{p1, v1}}
=============================================================================
