----------------------------- MODULE MCClusterInit -----------------------------
(* A small machine graph for ClusterInit: as in python/partial_config.txt, a  *)
(* worker is fed both by the host and by another worker; one more worker      *)
(* stands between it and the host.                                            *)
EXTENDS ClusterInit

Skip == {<<0, 1>>, <<0, 2>>, <<1, 2>>, <<2, 3>>, <<3, 0>>}
===============================================================================
