--------------------------- MODULE MCGaloisFields ---------------------------
EXTENDS GaloisFields

MCBuilds == {{}, {"SSE2"}, {"SSE2", "SSSE3", "SSE4", "PCLMUL"}, {"NEON"}}

(* With the default of each width come a polynomial for every way to       *)
(* reduce, one that is irreducible but not primitive, one that is given    *)
(* with its x^w and one that is too long.                                  *)
MCPolys ==
    {[w |-> w, poly |-> Zero] : w \in {1, 4, 5, 8, 9, 16, 20}}
    \cup {[w |-> 4, poly |-> p] : p \in {{0, 3, 4}, {0, 1, 2, 3}, {0, 6}}}
    \cup {[w |-> 8, poly |-> p] : p \in {{0, 2, 3, 5}, {0, 2, 3, 6}, {0, 1, 3, 4}}}
    \cup {[w |-> 16, poly |-> p] : p \in {{0, 2, 3, 5}, {0, 1, 3, 10}, {0, 2, 3, 13}}}
    \cup {[w |-> 5, poly |-> p] : p \in {{0, 1, 2, 4}}}

RegionFlags == {r \in SUBSET Flags : Cardinality(r) <= 2}

Args(mult, w) ==
    CASE mult = "SPLIT" -> {<<4, w>>, <<w, 4>>, <<8, 8>>, <<8, w>>, <<16, w>>}
      [] mult = "GROUP" -> {<<4, 4>>, <<2, 3>>, <<3, 2>>, <<3, 3>>, <<4, 5>>, <<4, 0>>}
      [] mult = "COMPOSITE" -> {<<2, 0>>}
      [] OTHER -> {<<0, 0>>}

(* Another division than the default one with the plain region only.       *)
AllSettings ==
    UNION {{[w |-> w, mult |-> mult, region |-> r, divide |-> "DEFAULT",
             arg1 |-> x[1], arg2 |-> x[2]] : r \in RegionFlags, x \in Args(mult, w)}
           \cup {[w |-> w, mult |-> mult, region |-> {}, divide |-> d,
                  arg1 |-> x[1], arg2 |-> x[2]] : d \in {"EUCLID", "MATRIX"}, x \in Args(mult, w)} :
           mult \in Multiplications, w \in {1, 4, 5, 8, 9, 16, 20}}

(* The table of a million logarithms is too large for this.                *)
MCSettings == {m \in AllSettings : ~(m.w = 20 /\ m.mult = "LOG_TABLE")}

MCBases == {"DEFAULT", "BYTWO_p", "COMPOSITE"}
MCCompositePolys == {Zero, {1}}

(* 2 to 6, 8 and 9, which have loops of their own.                         *)
MCSmallWords == {{1}, {0, 1}, {2}, {0, 2}, {1, 2}, {3}, {0, 3}}
MCExponents == {0, 13, 255, 5000, 65534}

(* The logarithms of the odd words below 16 in the two primitive fields of *)
(* 16 bits, and of the sample.                                             *)
MCLogExponents == MCExponents \cup {49594, 33653, 49358, 33417, 1783, 4368, 17712}
                              \cup {61481, 57427, 12178, 8124, 669, 44049, 53373}
=============================================================================
