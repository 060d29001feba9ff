----------------------------- MODULE MCIntent -----------------------------
(* Small options for the generator.  The bytes reach every kind at weight 0  *)
(* and both outcomes of every chance.                                        *)
EXTENDS IntentReading

Opt(depth, members, string, weight) ==
  [max_depth |-> depth, max_members |-> members, max_string |-> string,
   nesting_bias |-> 0, adversarial_weight |-> weight]

MCBytes == {b \in 0 .. 255 : b % 16 \in {0, 11}}
\* The last two trap, in pick_members() and in gen_string_body().
MCOptions == {Opt(1, 2, 1, 0), Opt(2, 1, 1, 0), Opt(1, 2, 1, 50), Opt(2, 1, 1, 100),
              Opt(1, 255, 1, 0), Opt(1, 1, 255, 0)}
\* 255 members at most: pick(256).
Wide == {Opt(1, 255, 1, 0)}
=============================================================================
