------------------------------- MODULE MCSides -------------------------------
EXTENDS Sides

\* Two repositories, one of two pull requests; every commit of the catalog is a release.
MCNames == <<"a", "b">>
MCPullsOf == [a |-> {1, 2}, b |-> {3}]
Releases == [c \in 0..2 |-> "release"]
=============================================================================
