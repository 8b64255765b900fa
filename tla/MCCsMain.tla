------------------------------ MODULE MCCsMain ------------------------------
(* Three plugins.  p1's filter names p2 twice, itself, and holds an empty  *)
(* and a blank atom; p2 subscribes to p1 and p3; p3 failed to load.        *)
EXTENDS CsMain

CONSTANTS p1, p2, p3

MCPlugins == {p1, p2, p3}

MCLoaded == {p1, p2}

MCRawFilter ==
    [p \in MCPlugins |->
        IF p = p1 THEN << p2, "EMPTY", p1, p2, "SPACES" >>
        ELSE IF p = p2 THEN << p1, p3 >>
        ELSE << p1 >>]

=============================================================================
