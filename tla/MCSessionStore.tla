--------------------------- MODULE MCSessionStore ---------------------------
(***************************************************************************)
(* SessionStore for TLC.  The two syncs are interchangeable.               *)
(***************************************************************************)
EXTENDS SessionStore, TLC

CONSTANTS a, b, web, fc

SomeFCs == {fc}
TwoWriters == {a, b}
SomeWorlds == {{"download"}, {"two"}, {"clock"}}
OnlyTwo == {{"two"}}

\* Bound: where somebody downloads there is one sync.  A second one with a name of
\* its own would only be one more to delete what is downloaded.
OneToDownload == "download" \in world => runs <= 1

Symmetry == Permutations({a, b})
=============================================================================
