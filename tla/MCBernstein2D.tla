---------------------------- MODULE MCBernstein2D ----------------------------
(***************************************************************************)
(* Element types and orders for model checking the Bernstein element.      *)
(***************************************************************************)
EXTENDS Bernstein2D

\* Every 2D shape branch: tensor quads, the serendipity QUAD8 and the
\* triangles.  (The shells share these branches, but the DofMap cannot lay
\* out their dofs: see MCShellTypes.)
MCShapeTypes == {"QUAD4", "QUAD8", "QUAD9", "TRI3", "TRI6", "TRI7"}

\* Every type of BERNSTEIN_n_dofs but the edges and shells.
MCDofTypes == {"NODEELEM", "TRI3", "TRI6", "TRI7", "QUAD4", "QUAD8", "QUAD9",
               "HEX8", "HEX20", "HEX27", "TET4", "TET10", "TET14"}

MCEdgeTypes == {"EDGE2"}
MCShellTypes == {"QUADSHELL4", "QUADSHELL8", "QUADSHELL9", "TRISHELL3"}
==============================================================================
