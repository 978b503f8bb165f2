------------------------------- MODULE MCDrafts -------------------------------
(* The instance of Drafts for the run that follows one server's transactions.  *)
EXTENDS Drafts

\* What a turn asks for: an amount, or an amount under a condition on the product.
MCPatches == {[fields |-> Fields, conds |-> {}, promises |-> {}],
              [fields |-> Fields, conds |-> Conds, promises |-> {}]}
===============================================================================
