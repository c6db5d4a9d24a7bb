--------------------------- MODULE MCCommandCall ---------------------------
(* Three workers: the first starts calls, the first two call each other    *)
(* synchronously, the first also assigns commands to the second, and the   *)
(* second redirects commands to the third.                                 *)
EXTENDS CommandCall

CONSTANTS w1, w2, w3

MCWorkers     == {w1, w2, w3}
MCClients     == {w1}
MCSyncRoutes  == {<<w1, w2>>, <<w2, w1>>}
MCAsyncRoutes == {<<w1, w2>>}
MCRedirects   == {<<w2, w3>>}
=============================================================================
