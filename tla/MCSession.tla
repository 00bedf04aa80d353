----------------------------- MODULE MCSession -----------------------------
(* A small population with which TLC checks Session.  A member is two      *)
(* digits.  A quiet member over quiet inputs stays as it is, so that two   *)
(* backends can meet again after different pasts; a rule that is not zero  *)
(* perturbs its members on every step.                                     *)
EXTENDS Session, TLC

MCSeeded(role, seed) == [inference |-> 0, credit |-> 0]

Perturbation(rule, tick) == rule * (tick + 1)

MCPulsed(rule, member, input, tick) ==
  [inference |-> (member.inference + input[1] + 2 * input[2] + Perturbation(rule, tick)) % 3,
   credit    |-> (member.credit + input[1] + Perturbation(rule, tick)) % 3]

MCReinforced(rule, member, gate, tick) ==
  [inference |-> (member.inference + gate * member.credit) % 3,
   credit    |-> (member.credit * (1 + gate + Perturbation(rule, tick))) % 3]

MCSpoken(member) == [mail |-> member.inference, logits |-> (2 * member.inference) % 3]

Sensing(zero, one) == [team \in Team |-> IF team = "zero" THEN zero ELSE one]

TwoSenses == {Sensing(0, 0), Sensing(1, 0)}
TwoBatches == {Sensing(0, 0), Sensing(2, -2)}
NoBatch == Sensing(0, 0)

=============================================================================
