-------------------------- MODULE MCSessionHistory --------------------------
(* SessionHistory for TLC: turns are interchangeable.                      *)
EXTENDS SessionHistory, TLC

Symmetry == Permutations(Turn)

\* A plain chat in chat mode, and an agent's with a retrieved document.
SomePrefaces == {[system |-> 1, untrusted |-> 0, dated |-> 1],
                 [system |-> 1, untrusted |-> 1, dated |-> 0]}
PlainPreface == {[system |-> 1, untrusted |-> 0, dated |-> 1]}
=============================================================================
