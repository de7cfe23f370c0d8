---------------------------- MODULE GaloisMethod ----------------------------
(***************************************************************************)
(* The methods of a field (gf.c, gf_int.h, gf_complete.h).  A method is a  *)
(* record: w; mult, the way to multiply; region, the set of the region     *)
(* flags; divide; arg1 and arg2.  build is the set of the instruction sets *)
(* the library was compiled for, of "SSE2", "SSSE3", "SSE4", "PCLMUL" and  *)
(* "NEON".                                                                 *)
(*                                                                         *)
(* What an init function leaves in the field is a record of the names of   *)
(* the functions it chose, "NULL" for none, and of the tables it fills in  *)
(* the scratch memory; every width ends with the same completion.          *)
(***************************************************************************)
EXTENDS Integers, FiniteSets

Failed == [ok |-> FALSE, multiply |-> "NULL", divide |-> "NULL", inverse |-> "NULL",
           region |-> "NULL", tables |-> "none"]

Chosen(multiply, divide, inverse, region, tables) ==
    [ok |-> TRUE, multiply |-> multiply, divide |-> divide, inverse |-> inverse,
     region |-> region, tables |-> tables]

Simd(build) == {"SSSE3", "NEON"} \cap build # {}

(* The division the caller asked for, where a width offers it.             *)
AskedDivision(m, f) ==
    CASE m.divide = "EUCLID" -> [f EXCEPT !.divide = "divide_from_inverse", !.inverse = "euclid"]
      [] m.divide = "MATRIX" -> [f EXCEPT !.divide = "divide_from_inverse", !.inverse = "matrix"]
      [] m.divide = "DEFAULT" -> f

(* Each of division and inverse from the other, both from Euclid.          *)
CompletedDivision(f) ==
    LET inverse == IF f.divide = "NULL" /\ f.inverse = "NULL" THEN "euclid" ELSE f.inverse
        divide  == IF f.divide = "NULL" THEN "divide_from_inverse" ELSE f.divide
    IN  [f EXCEPT !.divide = divide,
                  !.inverse = IF inverse = "NULL" THEN "inverse_from_divide" ELSE inverse]

CompletedRegion(m, f) ==
    CASE m.region = {"CAUCHY"} -> [f EXCEPT !.region = "cauchy"]
      [] m.region # {"CAUCHY"} /\ f.region = "NULL" -> [f EXCEPT !.region = "from_single"]
      [] OTHER -> f

Completed(m, f) ==
    IF ~f.ok THEN Failed
    ELSE CompletedRegion(m, CompletedDivision(AskedDivision(m, f)))

============================================================================
