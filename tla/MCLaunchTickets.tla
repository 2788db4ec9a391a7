--------------------------- MODULE MCLaunchTickets ---------------------------
(* LaunchTickets on small instances: clients behind one address, of the     *)
(* kinds that register_session and the claims tell apart.                   *)
EXTENDS LaunchTickets

CONSTANTS c1, c2, home, k1, cert1, u1

MCPeers == {home}
MCKeys == {k1}
MCCerts == {cert1}
MCUids == {u1}

Encrypted == [cert |-> cert1, uid |-> u1, peer |-> home, key |-> k1]
Legacy    == [cert |-> NoCert, uid |-> u1, peer |-> home, key |-> NoKey]

Unknown   == [Legacy EXCEPT !.uid = NoUid]
Plaintext == [Encrypted EXCEPT !.key = NoKey]

\* Two connections: the encrypted and the plaintext handshake side by side; a
\* paired client that retries with and without encryption, and one that nothing
\* identifies, so that two plaintext launches wait behind the address and the
\* second unknown one meets the limit.
TwoConns == {c1, c2}
Clients == {Encrypted, Plaintext, Unknown}
=============================================================================
