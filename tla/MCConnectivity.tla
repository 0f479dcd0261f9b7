--------------------------- MODULE MCConnectivity ---------------------------
EXTENDS Connectivity

\* The sockets of the builds without OC_SECURITY.
DefaultSockets == <<"server", "mcast">>
=============================================================================
