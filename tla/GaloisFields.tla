---------------------------- MODULE GaloisFields ----------------------------
(***************************************************************************)
(* A program that makes fields with GF-Complete and calculates in them:    *)
(* gf_init_hard, of a field by itself or of one on top of the last one,    *)
(* and then the calls through its pointers, of which the words a and b are *)
(* the arguments.  What the calls return is compared with the arithmetic   *)
(* of polynomials: Ref below, which knows nothing of methods.              *)
(***************************************************************************)
EXTENDS GaloisCalls

LOCAL Seqs == INSTANCE SequencesExt

CONSTANTS
    Builds,         \* the sets of instruction sets the library is built for
    Settings,       \* the methods a caller may ask for
    Bases,          \* the multiplications of fields that get one on top
    CompositePolys, \* the polynomials s given for fields on top of others
    SmallWords,     \* the words that are multiplied: these,
    Exponents       \* and these powers of x

(* What these are: fields of the widths that have a model, of 31 bits at   *)
(* most, a polynomial for every width, and no negative numbers.            *)
ASSUME FieldAssumption ==
    /\ \A m \in Settings : /\ m.w \in 1..31 /\ m.mult \in Multiplications
                           /\ m.arg1 \in Nat /\ m.arg2 \in Nat
                           /\ \E P \in Polys : P.w = m.w
    /\ \A P \in Polys : P.poly \subseteq Nat
    /\ CompositePolys \subseteq Bits
    /\ SmallWords \subseteq Bits
    /\ Exponents \subseteq Nat

VARIABLES
    field,          \* the field made last
    asked,          \* the call of gf_init_hard that made it
    multiplier, operand \* the words

FieldVars == <<field, asked, multiplier, operand>>

NoCall  == [build |-> {"none"}]
NotYet  == {-1}

FieldInit == field = NoField /\ asked = NoCall /\ multiplier = NotYet /\ operand = NotYet

(* A call that gf_error_check lets through.  A COMPOSITE field goes on top *)
(* of the field there is, of the same build of the library.                *)
Make(build, m, poly, base) ==
    /\ GfErrorCheck(m, poly, base, build)
    /\ LET F == PolyField(m, poly, base)
       IN  field' = GfInitHard(m, poly, base, build, PowersOf(F), Primitive(F))
    /\ asked' = [build |-> build, m |-> m, poly |-> poly]
    /\ UNCHANGED <<multiplier, operand>>

MakeField ==
    /\ asked = NoCall
    /\ field = NoField
    /\ \E build \in Builds, m \in Settings : \E P \in Polys :
        /\ m.mult # "COMPOSITE" /\ P.w = m.w
        /\ Make(build, m, P.poly, NoField)

MakeComposite ==
    /\ asked # NoCall
    /\ field # NoField
    /\ field.f.ok /\ field.f.multiply # "NULL" /\ field.mult \in Bases
    /\ \E m \in Settings, poly \in CompositePolys :
        m.mult = "COMPOSITE" /\ Make(asked.build, m, poly, field)

PowersOfX(F) == {PowerOfX(F, e) : e \in Exponents}
PowersIn == [F \in KnownFields |-> PowersOfX(F)]

(* The words a call may be given.  Those of a COMPOSITE field are taken    *)
(* from another field of its width, as its own have no power of x.         *)
SampleField(g) ==
    IF g.mult = "COMPOSITE" THEN CHOOSE F \in DefaultPolys : F.w = g.w ELSE FieldOf(g)

Firsts(g)  == {Zero} \cup {s \in SmallWords : Shr(s, g.w) = Zero} \cup PowersIn[SampleField(g)]
Seconds(g) == {Zero} \cup PowersIn[SampleField(g)]

(* From here on only the functions in the field matter: fields that hold   *)
(* the same are the same state.                                            *)
TakeFirst ==
    /\ field # NoField
    /\ field.f.ok /\ field.f.multiply # "NULL"
    /\ multiplier = NotYet
    /\ multiplier' \in Firsts(field)
    /\ asked' = NoCall
    /\ UNCHANGED <<field, operand>>

TakeSecond ==
    /\ multiplier # NotYet
    /\ operand = NotYet
    /\ operand' \in Seconds(field)
    /\ UNCHANGED <<field, asked, multiplier>>

FieldNext == MakeField \/ MakeComposite \/ TakeFirst \/ TakeSecond

FieldSpec == FieldInit /\ [][FieldNext]_FieldVars

(***************************************************************************)
(* The reference: the product of polynomials reduced by the field's, in a  *)
(* COMPOSITE field of polynomials over the base by y^2 = s y + 1.          *)
(***************************************************************************)
RefOver(g, below, x, y) ==
    IF g.mult # "COMPOSITE" THEN Times(FieldOf(g), x, y)
    ELSE LET h    == g.w \div 2
             high == below[<<Shr(x, h), Shr(y, h)>>]
         IN  Xor(below[<<Cut(x, h), Cut(y, h)>>], high)
               \cup Shl(Xor(Xor(below[<<Cut(x, h), Shr(y, h)>>], below[<<Shr(x, h), Cut(y, h)>>]),
                            below[<<high, g.poly>>]), h)

RefOn(g, below) == Binary(LAMBDA x, y : RefOver(g, below, x, y))

Ref(g, x, y) == RefOver(g, Over(RefOn, g.base), x, y)

(***************************************************************************)
(* y^2 + s y + 1 has no root, so that there is a field on top of g, if and *)
(* only if the trace of 1/s is 1.  1/s is the product of s^2, s^4, ...     *)
(***************************************************************************)
NoRoot(g, s) ==
    LET words == SUBSET (0..(g.w - 1))
        over[n \in Nat, power \in words, product \in words] ==
            IF n = 0 THEN product
            ELSE LET next == Ref(g, power, power) IN over[n - 1, next, Ref(g, product, next)]
        trace[n \in Nat, power \in words, sum \in words] ==
            IF n = 0 THEN sum
            ELSE LET next == Ref(g, power, power) IN trace[n - 1, next, Xor(sum, next)]
        inverse == over[g.w - 1, s, One]
    IN  trace[g.w - 1, inverse, inverse] = One

IsField(g) ==
    \/ g.mult # "COMPOSITE"
    \/ /\ NoRoot(g.base, g.poly)
       /\ g.base.mult = "COMPOSITE" => NoRoot(g.base.base, g.base.poly)

(***************************************************************************)
(* What the properties are about.                                          *)
(***************************************************************************)
Made      == asked # NoCall
Ready(g)  == g # NoField /\ g.f.ok /\ "NULL" \notin {g.f.multiply, g.f.divide, g.f.inverse, g.f.region}

(* The calls that fail although gf_error_check lets them through: those    *)
(* that ask for logarithms where x is not a generator, which is found when *)
(* the tables are filled and reported as GF_E_LOGPOLY; CARRY_FREE_GK where *)
(* only the great fields have it, and CARRY_FREE of 16 bits with NEON; and *)
(* the multiplication left out when SPLIT, TABLE or DEFAULT fall back to a *)
(* CARRY_FREE that has no function for the polynomial.                     *)
LogsOnly(m) ==
    \/ m.mult \in {"LOG_TABLE", "LOG_ZERO", "LOG_ZERO_EXT"}
    \/ m.mult = "DEFAULT" /\ m.w \in 9..15

MayFail(call) ==
    LET m == call.m
        F == [w |-> m.w, poly |-> PolyOf(m, call.poly, NoField)]
    IN  \/ m.mult = "CARRY_FREE_GK" /\ m.w <= 16
        \/ m.mult = "CARRY_FREE" /\ m.w = 16 /\ "PCLMUL" \notin call.build
        \/ m.mult # "COMPOSITE" /\ ~Primitive(F) /\ LogsOnly(m)
        \/ /\ m.mult \in {"DEFAULT", "SPLIT", "TABLE"} /\ m.w = 16
           /\ "PCLMUL" \in call.build
           /\ GfW16Reductions(F) = 0 /\ ~Primitive(F)

(* Fields that compute something else than the product: see the README.    *)
WrongProduct(g) ==
    \/ g.f.multiply = "neon_clm" /\ g.w = 8 /\ Reductions(FieldOf(g)) > 2
    \/ g.f.multiply = "group" /\ g.arg1 = g.w
    \/ g.f.multiply = "quad_table_lazy" /\ ~Primitive(FieldOf(g))
    \/ g.f.multiply = "log_zero" /\ ~Primitive(FieldOf(g))

WrongQuotient(g, x, y) == g.f.divide = "logzero" /\ x = Zero /\ y = One

Lower(g)     == IF g.mult = "COMPOSITE" THEN g.base ELSE g
Layers(g)    == {g, Lower(g), Lower(Lower(g))}

(* The field of 4 bits that multiplies no region by 9, and those whose     *)
(* regions are multiplied by it, through ALTMAP on ALTMAP.                 *)
SkipsNine(g) == g.w = 4 /\ g.f.multiply = "BYTWO_b" /\ g.f.region = "bytwo_nosse"

WrongRegion(g, val, xor) ==
    \/ SkipsNine(g) /\ val = {0, 3} /\ ~xor
    \/ /\ g.mult = "COMPOSITE"
       /\ \A h \in Layers(g) : h.mult = "COMPOSITE" => h.f.region = "composite_alt"
       /\ \E h \in Layers(g) : SkipsNine(h)

Computes(g)  == \A h \in Layers(g) : ~WrongProduct(h)

(* A region with an initial word, a middle and final words, in which the   *)
(* sample's words follow each other.                                       *)
RegionBytes(g) ==
    CASE g.f.region = "cauchy" -> 3 * g.w
      [] g.f.region # "cauchy" /\ g.w = 16 -> 38
      [] OTHER -> 35

SampleWords == [F \in KnownFields |-> Seqs!SetToSeq(PowersIn[F] \cup {Zero})]

RegionOf(g, val, xor) ==
    LET bytes == RegionBytes(g)
        words == SampleWords[SampleField(g)]
        at    == 16 - WordBytes(g.w)
    IN  [src  |-> UNION {Shl(words[1 + (k % Len(words))], k * g.w) : k \in 0..((8 * bytes) \div g.w - 1)},
         dest |-> {i \in 0..(8 * bytes - 1) : i % 3 = 0},
         val |-> val, xor |-> xor, bytes |-> bytes, at |-> at, to |-> at]

(* The towers of fields for which the library has a polynomial.            *)
PlainBases ==
    {[w |-> F[1], mult |-> "SHIFT", poly |-> F[2]] :
        F \in {<<4, {0, 1}>>, <<8, {0, 2, 3, 4}>>, <<16, {0, 1, 3, 12}>>, <<16, {0, 2, 3, 5}>>,
               <<32, {0, 1, 2, 22}>>, <<32, {0, 2, 6, 7}>>}}

OnTop(bases) ==
    {[w |-> 2 * g.w, mult |-> "COMPOSITE", poly |-> GfCompositeGetDefaultPoly(g), base |-> g] :
        g \in {h \in bases : h.w <= 32 /\ GfCompositeGetDefaultPoly(h) # Zero}}

Towers ==
    LET one   == OnTop(PlainBases)
        two   == OnTop(one)
        three == OnTop(two)
    IN  one \cup two \cup three \cup OnTop(three)

(***************************************************************************)
(* Properties.                                                             *)
(***************************************************************************)

(* A field's polynomial is stored without its x^w, and no word, given or   *)
(* returned, is longer than the field's.                                   *)
FieldTypeOK ==
    /\ field # NoField => /\ field.w \in 1..128
                       /\ field.f.ok \in BOOLEAN
                       /\ field.poly \subseteq 0..(field.w - 1)
    /\ multiplier # NotYet => multiplier \subseteq 0..(field.w - 1)
    /\ operand # NotYet => operand \subseteq 0..(field.w - 1)

(* The polynomial the library takes over a base has no root there, so that *)
(* every COMPOSITE field with a default polynomial is a field.             *)
CompositeIsField == field = NoField => \A g \in Towers : NoRoot(g.base, g.poly)

(* gf_multby_one adds every byte of a region once, however source and      *)
(* destination are aligned.  Regions of less than 16 bytes are left out:   *)
(* one that ends before the first aligned address the code runs beyond.    *)
XorPartsMeet ==
    field = NoField =>
        \A at, to \in 0..15, bytes \in {16, 17, 31, 40, 131}, simd \in BOOLEAN :
            LET parts == GfMultbyOneParts([at |-> at, to |-> to, bytes |-> bytes], simd)
            IN  /\ UNION parts = 0..(bytes - 1)
                /\ \A p, q \in parts : p # q => p \cap q = {}

(* gf_error_check and the init functions decide apart from each other what *)
(* can be done, and gf_scratch_size a third time, for which tables there   *)
(* must be room: for a call that is let through they agree.                *)
AcceptedIsReady ==
    /\ FieldTypeOK
    /\ (Made /\ ~MayFail(asked)) =>
        /\ Ready(field)
        /\ field.f.tables \in {"none", GfScratchSize(asked.m, asked.build)}

(* Whatever the method, the tables and the instructions, multiply returns  *)
(* the product.                                                            *)
ProductsAgree ==
    (operand # NotYet /\ Computes(field)) => Multiply(field, multiplier, operand) = Ref(field, multiplier, operand)

(* What divide returns times the divisor is the dividend, what inverse     *)
(* returns times the word is 1; with the polynomials the library chooses   *)
(* there are inverses.                                                     *)
QuotientsUndo ==
    /\ CompositeIsField
    /\ (/\ operand \notin {NotYet, Zero} /\ Computes(field) /\ IsField(field)
        /\ ~WrongQuotient(field, multiplier, operand)) =>
            /\ Ref(field, Divide(field, multiplier, operand), operand) = multiplier
            /\ Ref(field, InverseOf(field, operand), operand) = One

(* multiply_region multiplies every word of the region once, in whichever  *)
(* layout extract_word finds it, and adds it to the destination if asked,  *)
(* however the region is cut for its alignment; but for regions of less    *)
(* than 16 bytes, as above.                                                *)
RegionsAgree ==
    /\ XorPartsMeet
    /\ (multiplier # NotYet /\ operand = NotYet /\ Computes(field)) =>
        \A xor \in BOOLEAN :
            LET rd  == RegionOf(field, multiplier, xor)
                out == MultiplyRegion(field, rd)
                Word(x, i) == ExtractWord(field, x, rd.bytes, rd.at, i)
            IN  ~WrongRegion(field, multiplier, xor) =>
                    \A i \in 0..((8 * rd.bytes) \div field.w - 1) :
                      Word(out, i) = Xor(IF xor THEN Word(rd.dest, i) ELSE Zero,
                                         Ref(field, multiplier, Word(rd.src, i)))

=============================================================================
