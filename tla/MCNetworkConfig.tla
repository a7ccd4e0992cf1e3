-------------------------- MODULE MCNetworkConfig --------------------------
(***************************************************************************)
(* NetworkConfig with two adapters and two name servers.                   *)
(***************************************************************************)
EXTENDS NetworkConfig

\* No server, one, and two of which the second is that one: a second server
\* added to the servers of the change before shows.
TwoServerLists == {<<>>, <<"s2">>, <<"s1", "s2">>}
=============================================================================
