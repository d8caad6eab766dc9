------------------------------- MODULE MCVDD -------------------------------
(***************************************************************************)
(* The instance of VDD that TLC checks: seven parties, F = 2, since with   *)
(* F = 1 two Strong and the star decode and no Weak is ever needed.        *)
(***************************************************************************)
EXTENDS VDD

CONSTANTS a, b, c, d, e, f, g, w, x, y, z

(* What each party lacks, if the others lack nothing.                      *)
Lacks(some) == [p \in Party |-> IF p \in DOMAIN some THEN some[p] ELSE {}]

(***************************************************************************)
(* Two parties lack both proposals and three have them; each proposal is   *)
(* lacked by one party of its own and by one that lacks both; only one     *)
(* party lacks anything.                                                   *)
(***************************************************************************)
Lacking ==
  {Lacks([p \in {d, e} |-> {x, y}]),
   Lacks([p \in {c, d, e} |-> IF p = c THEN {y} ELSE IF p = d THEN {x} ELSE {x, y}]),
   Lacks([p \in {e} |-> {x, y}])}

-----------------------------------------------------------------------------
(***************************************************************************)
(* The behaviours in which parties that lack w decode something else early.*)
(* Each of a, b and c lacks one of x, y and z; d lacks all.                *)
(***************************************************************************)
Early ==
  {Lacks([p \in Party \ {g} |->
     CASE p = a -> {w, x} [] p = b -> {w, y} [] p = c -> {w, z}
       [] p = d -> {w, x, y, z} [] p \in {e, f} -> {x, y, z}])}

Before(p) ==
  CASE p = a -> {} [] p = b -> {a} [] p = c -> {a, b} [] p = d -> {a, b, c}
    [] p = e -> {a, b, c, d} [] p = f -> {a, b, c, d, e}
    [] OTHER -> Party \ {g}

(***************************************************************************)
(* Answers are taken in the order of their senders, and the Strong of g is *)
(* late at a, b and c.                                                     *)
(***************************************************************************)
Late ==
  \A m \in (strong \cup weak) \ (strong' \cup weak') :
    /\ \A n \in strong \cup weak : n.to = m.to => n.from \notin Before(m.from)
    /\ m.from = g /\ m.to \in {a, b, c} =>
         \E j \in required[m.to] : decoder[m.to][j] = "finished"

(* A party decodes what it can, then helps, then asks.                     *)
Turn(p) ==
  LET decodes == \E j \in Chosen : DecoderStep(p, j)
      asks == CallerStep(p) /\ Late
  IN \/ decodes
     \/ HelperStep(p) /\ ~ ENABLED decodes
     \/ asks /\ ~ ENABLED (decodes \/ HelperStep(p))

(* It goes on while it can.                                                *)
InTurn ==
  \E p \in Up : Turn(p) /\ \A q \in Before(p) : ~ ENABLED Turn(q)

InTurnSpec == Init /\ [][InTurn]_vars
=============================================================================
