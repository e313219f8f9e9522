-------------------------- MODULE MCProgressWindow --------------------------
EXTENDS ProgressWindow

MCPlans == {<<"write", "read">>}
MCOutcomes ==
  [read |-> {<<"succeeded", "shown">>},
   write |-> {<<"succeeded", "shown">>, <<"failed", Truncated>>},
   verify |-> {<<"failed", "shown">>}]
MCSymmetry == Permutations(Workers) \cup Permutations(Keys)
=============================================================================
