---------------------------- MODULE PeersClaims ----------------------------
(* What the comments of the coordinator say and the code does not do.        *)
EXTENDS MCPeers

\* A ban "blocks connecting to address for established amount of days"
\* (raddi_coordinator.h:267-268), so that an address leaves the blacklist on its
\* day or by the user's command only. coordinator::unavailable reads the level of
\* a connection again after a ban has changed it, and erases the address there.
BanLastsItsDays ==
  [][\A a \in Addresses : On(blacklisted, a) /\ ~On(blacklisted, a)' =>
       day >= peers[blacklisted][a] \/ heard' > heard]_vars
=============================================================================
