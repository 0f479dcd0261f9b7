--------------------------- MODULE MCEventDelivery ---------------------------
EXTENDS EventDelivery

\* The sockets of the default build (IPv6, no OC_SECURITY).
DefaultSockets == <<"server", "mcast">>
=============================================================================
