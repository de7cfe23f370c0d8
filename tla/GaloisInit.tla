----------------------------- MODULE GaloisInit -----------------------------
(***************************************************************************)
(* gf.c: which methods are admitted (gf_error_check), how much memory one  *)
(* needs (gf_scratch_size) and how a field is made (gf_init_hard).         *)
(*                                                                         *)
(* A field is a record: w, mult, arg1 and arg2, as the caller gave them;   *)
(* poly, the polynomial without x^w, or for a COMPOSITE field its s; f,    *)
(* the functions and tables its init function chose; alt, whether its flags *)
(* have ALTMAP; base, the field below a COMPOSITE one.  NoField is the      *)
(* absence of one.                                                         *)
(***************************************************************************)
EXTENDS GaloisW4, GaloisW8, GaloisW16, GaloisWgen

NoField == [w |-> 0]

(* gf_mult_type_t: the ways to multiply that a caller can name.            *)
Multiplications ==
    {"DEFAULT", "SHIFT", "CARRY_FREE", "CARRY_FREE_GK", "GROUP", "BYTWO_p", "BYTWO_b",
     "TABLE", "LOG_TABLE", "LOG_ZERO", "LOG_ZERO_EXT", "SPLIT", "COMPOSITE"}

Flags == {"DOUBLE", "QUAD", "LAZY", "SIMD", "NOSIMD", "ALTMAP", "CAUCHY"}

(***************************************************************************)
(* gf_composite_get_default_poly: the s of y^2 + s y + 1 that the library  *)
(* takes over a base field when the caller gives none, Zero if it knows of *)
(* none.  Over a COMPOSITE field it knows one only if that field has the   *)
(* default itself.                                                         *)
(***************************************************************************)
OverPlain(b) ==
    CASE b.w = 4 /\ b.poly = {0, 1}            -> {1}
      [] b.w = 8 /\ b.poly = {0, 2, 3, 4}      -> {0, 1}
      [] b.w = 16 /\ b.poly = {0, 1, 3, 12}    -> {1}
      [] b.w = 16 /\ b.poly = {0, 2, 3, 5}     -> {0, 1, 2}
      [] b.w = 32 /\ b.poly = {0, 1, 2, 22}    -> {1}
      [] b.w = 32 /\ b.poly = {0, 2, 6, 7}     -> {0, 1}
      [] b.w = 64 /\ b.poly = {0, 1, 3, 4}     -> {1}
      [] OTHER                                 -> Zero

OverComposite(w, s) ==
    CASE w = 16 /\ s = {0, 1}        -> {0, 2, 8}
      [] w = 32 /\ s = {1}           -> {0, 2, 16}
      [] w = 32 /\ s = {0, 1, 2}     -> {3, 16}
      [] w = 32 /\ s = {0, 2, 8}     -> {1, 16}
      [] w = 64 /\ s = {0, 1}        -> {0, 3, 32}
      [] w = 64 /\ s = {1}           -> {2, 32}
      [] w = 64 /\ s = {0, 2, 16}    -> {0, 1, 32}
      [] w = 64 /\ s = {1, 16}       -> {0, 2, 32}
      [] w = 64 /\ s = {3, 16}       -> {1, 2, 32}
      [] OTHER                       -> Zero

(* What a field does by what the field below it does.  There are at most   *)
(* four below: a COMPOSITE field has 8 bits at least, and 128 at most.     *)
Over(step(_, _), gf) ==
    step(gf, step(gf.base, step(gf.base.base, step(gf.base.base.base,
         step(gf.base.base.base.base, <<>>)))))

DefaultOver(gf, below) ==
    IF gf.mult # "COMPOSITE" THEN OverPlain(gf)
    ELSE IF below = gf.poly THEN OverComposite(gf.w, gf.poly) ELSE Zero

GfCompositeGetDefaultPoly(base) == Over(DefaultOver, base)

(***************************************************************************)
(* gf_error_check.  poly is the polynomial the caller gave, with or        *)
(* without x^w, Zero for the default; base may be NoField.                 *)
(***************************************************************************)
Sse3(build)   == {"SSSE3", "NEON"} \cap build # {}
Pclmul(build) == {"PCLMUL", "NEON"} \cap build # {}

NoneOf(m, flags) == m.region \cap flags = {}

(* The terms below x^w that CARRY_FREE has no function for.                *)
HighTerms(w) ==
    CASE w = 4   -> 2..3
      [] w = 8   -> {7}
      [] w = 16  -> 13..15
      [] w = 32  -> 25..31
      [] w = 64  -> 49..63
      [] w = 128 -> {}

CarryFreeAllowed(m, build) ==
    /\ m.w \in {4, 8, 16, 32, 64, 128}
    /\ NoneOf(m, {"ALTMAP", "SIMD", "NOSIMD"})
    /\ Pclmul(build)

GroupAllowed(m) ==
    /\ m.arg1 > 0 /\ m.arg2 > 0
    /\ m.w \notin {4, 8}
    /\ m.w = 16 => m.arg1 = 4 /\ m.arg2 = 4
    /\ m.w = 128 => m.arg1 = 4 /\ m.arg2 \in {4, 8, 16}
    /\ m.arg1 <= 27 /\ m.arg2 <= 27 /\ m.arg1 <= m.w /\ m.arg2 <= m.w
    /\ NoneOf(m, {"ALTMAP", "SIMD", "NOSIMD"})

(* Split by 8 8, 8 w or 16 w: no flags.  Split by 4 w: any a build offers. *)
SplitAllowed(m, build) ==
    LET args == {m.arg1, m.arg2}
        wide == CASE m.w = 16 -> {{8}, {8, 16}}
                  [] m.w \in {32, 64} -> {{8}, {8, m.w}, {16, m.w}}
                  [] m.w = 128 -> {{8, 128}}
                  [] OTHER -> {}
    IN  /\ m.w \in {8, 16, 32, 64, 128}
        /\ \/ args \in wide /\ NoneOf(m, {"SIMD", "NOSIMD", "ALTMAP"})
           \/ /\ args = {4, m.w}
              /\ "SIMD" \in m.region => Sse3(build)
              /\ m.w = 8 => "ALTMAP" \notin m.region
              /\ (m.w > 16 /\ "ALTMAP" \in m.region) => Sse3(build) /\ "NOSIMD" \notin m.region

CompositeAllowed(m, poly, base) ==
    /\ m.w \in {8, 16, 32, 64, 128}
    /\ m.w < 128 => Shr(poly, m.w \div 2) = Zero
    /\ m.divide = "DEFAULT"
    /\ m.arg1 = 2
    /\ NoneOf(m, {"SIMD", "NOSIMD"})
    /\ base # NoField => /\ base.w = m.w \div 2
                         /\ poly = Zero => GfCompositeGetDefaultPoly(base) # Zero

MethodAllowed(m, poly, base, build) ==
    CASE m.mult = "SHIFT" -> NoneOf(m, {"ALTMAP", "SIMD", "NOSIMD"})
      [] m.mult = "CARRY_FREE" -> CarryFreeAllowed(m, build) /\ poly \cap HighTerms(m.w) = {}
      [] m.mult = "CARRY_FREE_GK" -> CarryFreeAllowed(m, build)
      [] m.mult \in {"BYTWO_p", "BYTWO_b"} ->
           NoneOf(m, {"ALTMAP"}) /\ ("SIMD" \in m.region => "SSE2" \in build)
      [] m.mult = "LOG_TABLE" -> m.w <= 27 /\ NoneOf(m, {"ALTMAP", "SIMD", "NOSIMD"})
      [] m.mult = "LOG_ZERO" -> m.w \in {8, 16} /\ NoneOf(m, {"ALTMAP", "SIMD", "NOSIMD"})
      [] m.mult = "LOG_ZERO_EXT" -> m.w = 8 /\ NoneOf(m, {"ALTMAP", "SIMD", "NOSIMD"})
      [] m.mult = "GROUP" -> GroupAllowed(m)
      [] m.mult = "TABLE" ->
           /\ m.w = 16 \/ m.w < 15
           /\ m.w # 4 => NoneOf(m, {"SIMD", "NOSIMD"})
           /\ "SIMD" \in m.region => Sse3(build)
           /\ NoneOf(m, {"ALTMAP"})
      [] m.mult = "SPLIT" -> SplitAllowed(m, build)
      [] m.mult = "COMPOSITE" -> CompositeAllowed(m, poly, base)

(* DOUBLE and QUAD are decided before the method is looked at.             *)
TableFlagsAllowed(m) ==
    /\ m.mult = "TABLE"
    /\ NoneOf(m, {"SIMD", "NOSIMD", "ALTMAP"})
    /\ "DOUBLE" \in m.region =>
         /\ "QUAD" \notin m.region
         /\ m.w \in {4, 8}
         /\ m.w = 4 => "LAZY" \notin m.region
    /\ "QUAD" \in m.region => m.w = 4

GfErrorCheck(m, poly, base, build) ==
    /\ m.divide \in {"DEFAULT", "MATRIX", "EUCLID"}
    /\ m.region \subseteq Flags
    /\ m.w \in 1..32 \cup {64, 128}
    /\ (m.mult # "COMPOSITE" /\ m.w < 64) => Shr(poly, m.w + 1) = Zero
    /\ \/ /\ m.mult = "DEFAULT"
          /\ m.divide = "DEFAULT" /\ m.region = {} /\ m.arg1 = 0 /\ m.arg2 = 0
       \/ /\ m.mult # "DEFAULT"
          /\ ~({"SIMD", "NOSIMD"} \subseteq m.region)
          /\ "CAUCHY" \in m.region =>
               m.w <= 32 /\ m.region = {"CAUCHY"} /\ m.mult # "COMPOSITE"
          /\ m.arg1 # 0 => m.mult \in {"COMPOSITE", "SPLIT", "GROUP"}
          /\ m.arg2 # 0 => m.mult \in {"SPLIT", "GROUP"}
          /\ m.divide = "MATRIX" => m.w <= 32
          /\ IF NoneOf(m, {"DOUBLE", "QUAD"})
             THEN "LAZY" \notin m.region /\ MethodAllowed(m, poly, base, build)
             ELSE TableFlagsAllowed(m)

(***************************************************************************)
(* gf_scratch_size: the tables there will be room for, "0" for no room.    *)
(***************************************************************************)
GfScratchSize(m, build) ==
    IF ~GfErrorCheck(m, Zero, NoField, build) THEN "0"
    ELSE CASE m.w = 4  -> GfW4ScratchSize(m, build)
           [] m.w = 8  -> GfW8ScratchSize(m, build)
           [] m.w = 16 -> GfW16ScratchSize(m)
           [] OTHER    -> GfWgenScratchSize(m)

(***************************************************************************)
(* gf_init_hard, and the beginning of the init functions, where a default  *)
(* polynomial is filled in.                                                *)
(***************************************************************************)
DefaultPoly(m, base) ==
    CASE m.mult = "COMPOSITE" -> GfCompositeGetDefaultPoly(base)
      [] m.mult # "COMPOSITE" /\ m.w = 4  -> GfW4DefaultPoly
      [] m.mult # "COMPOSITE" /\ m.w = 8  -> GfW8DefaultPoly
      [] m.mult # "COMPOSITE" /\ m.w = 16 -> GfW16DefaultPoly
      [] OTHER -> GfWgenDefaultPoly(m.w)

PolyOf(m, poly, base) ==
    IF poly = Zero THEN DefaultPoly(m, base)
    ELSE IF m.mult = "COMPOSITE" THEN poly ELSE Cut(poly, m.w)

(* gf_w4_get_mult_table, gf_w8_get_mult_table: whether the base has a table *)
(* in which a COMPOSITE field can look products up.                        *)
BaseTable(base) ==
    IF base = NoField THEN "NULL"
    ELSE IF \/ base.w = 4 /\ base.f.multiply = "single_table"
            \/ base.w = 8 /\ base.f.multiply \in {"default", "table"}
         THEN "table" ELSE "none"

(* P are the powers of x, primitive whether they are all the words.        *)
WidthInit(m, F, base, build, P, primitive) ==
    CASE m.w = 4  -> GfW4Init(m, P, build)
      [] m.w = 8  -> GfW8Init(m, F, P, BaseTable(base), build)
      [] m.w = 16 -> GfW16Init(m, F, primitive, BaseTable(base), build)
      [] OTHER    -> GfWgenInit(m, primitive)

PolyField(m, poly, base) == [w |-> m.w, poly |-> PolyOf(m, poly, base)]

(* The field a call leaves; without room for it, it returns with NoField.  *)
GfInitHard(m, poly, base, build, P, primitive) ==
    LET F == PolyField(m, poly, base)
    IN  IF GfScratchSize(m, build) = "0" THEN NoField
        ELSE [w |-> m.w, mult |-> m.mult, arg1 |-> m.arg1, arg2 |-> m.arg2,
              poly |-> F.poly, alt |-> "ALTMAP" \in m.region, base |-> base,
              f |-> WidthInit(m, F, base, build, P, primitive)]

=============================================================================
