----------------------------- MODULE MCBuffers -----------------------------
(* A dumb buffer, an imported buffer, two framebuffers and two clients. *)
EXTENDS EvdiBuffers, TLC

CONSTANTS dumb, imported, f1, f2, c1, c2

MCObjects == {dumb, imported}
MCImports == {imported}
MCFbs == {f1, f2}
MCClients == {c1, c2}
\* every pair of ioctls that may meet on an object
MCUsers ==
    {{"create", "addfb", "grab", "cursor"}, {"create", "addfb", "grab", "map"},
     {"import", "addfb", "grab"}, {"create", "import", "addfb"},
     {"create", "import", "cursor"}, {"create", "cursor", "map"},
     {"create", "cursor", "dma"}, {"create", "map", "dma"}}

Symmetry == Permutations(MCFbs) \cup Permutations(MCClients)

=============================================================================
