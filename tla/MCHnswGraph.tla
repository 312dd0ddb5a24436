---------------------------- MODULE MCHnswGraph -----------------------------
EXTENDS HnswGraph

\* The distances between these points and 11 all differ.
MCPlacements == {<<0, 4, 1, 9>>}

\* Bound: two deletes and updates in all, or a restart.
MCFewChanges == changed.deletes + changed.updates + 2 * changed.reloads <= 2
=============================================================================
