----------------------------- MODULE MCClientStart -----------------------------
(* Values for model checking ClientStart.                                    *)
EXTENDS ClientStart

Host == [host |-> TRUE, size |-> 2]
Number(n) == [host |-> FALSE, size |-> n]

Line(k, v) == [key |-> k, value |-> v]

(* A server with and without a port, with port 8 (cut to nothing), 0, and a  *)
(* port too large; an empty value, three fragments, the action, a comment.   *)
MixedLines ==
  {Line("server", v) : v \in {<<Host>>, <<[Host EXCEPT !.size = 1], Number(8080)>>, <<Host, Number(8)>>,
                              <<Host, Number(0)>>, <<Host, Number(70000)>>, <<Host, Host>>, <<>>,
                              <<Host, Host, Number(1)>>}}
    \cup {Line("action", <<Host>>), Line("mode", <<>>), Line("none", <<>>)}

UpToThreeLines ==
  [lines : UNION {[1..n -> MixedLines] : n \in 0..3}, closed : BOOLEAN]

================================================================================
