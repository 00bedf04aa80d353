-------------------------------- MODULE Sheet -------------------------------
(***************************************************************************)
(* What the playbook compiler makes of a sheet's numbers (zoomieball-core/ *)
(* src/playbook/ron.rs): decimal literals become words, and forms whose    *)
(* layout could leave the word are refused.                                *)
(***************************************************************************)
EXTENDS Formation

CONSTANTS
  PodExtentMax,   \* POD_EXTENT_MAX
  FormGapMax      \* FORM_GAP_MAX, raw

ASSUME SheetAssumption == PodExtentMax \in Nat /\ FormGapMax \in Nat

InvalidFixed == WordLimit   \* the error: no word

TenTo[digits \in Nat] == IF digits = 0 THEN 1 ELSE 10 * TenTo[digits - 1]

(* Mutant: the digits past the last unit are dropped. *)
FractionTruncated(numerator, digits) == (numerator * One) \div TenTo[digits]

(* The fraction's digits, rounded to the nearest unit, half up. *)
Fraction(numerator, digits) == (numerator * One + TenTo[digits] \div 2) \div TenTo[digits]

(* parse_fixed: a sign, whole digits and up to nine digits of fraction. *)
ParseFixed(negative, whole, numerator, digits) ==
  LET magnitude == whole * One + Fraction(numerator, digits)
      signed    == IF negative THEN -magnitude ELSE magnitude
  IN  IF signed \in Word THEN signed ELSE InvalidFixed

(* Mutant: Fx::abs, which leaves the negative endpoint negative. *)
WrappingAbs(value) == IF value = -WordLimit THEN value ELSE AbsOf(value)
UnsignedAbs(value) == AbsOf(value)

GapOf(form) == IF form.kind = "Point" THEN 0 ELSE form.gap

(* validate_nodes, on one form. *)
AcceptedForm(form) ==
  /\ form.kind = "Pod" => form.rank \in 1 .. PodExtentMax /\ form.file \in 1 .. PodExtentMax
  /\ UnsignedAbs(GapOf(form)) <= FormGapMax

=============================================================================
