---------------------------- MODULE MCFszDaemon ----------------------------
(* Configuration files for TLC.                                            *)
EXTENDS FszDaemon

CONSTANTS p1, p2, s1

First == <<FileToken, p1, SockToken, s1>>

\* the second file names another path and no socket
TwoConfigs == {First, <<FileToken, p2>>}

BadConfig == TwoConfigs \cup {Malformed}
=============================================================================
