----------------------------- MODULE MCModelStream -----------------------------
(* Small instances of ModelStream.                                         *)
EXTENDS ModelStream

Nothing == [reasoning |-> FALSE, text |-> FALSE, calls |-> <<>>, finish |-> "none", usage |-> FALSE]
Calling(index, id) == [Nothing EXCEPT !.calls = <<[index |-> index, id |-> id]>>]

MCWireChunks ==
  {[Nothing EXCEPT !.reasoning = TRUE],
   [Nothing EXCEPT !.text = TRUE, !.finish = "length"],
   Calling(0, ""),
   [Nothing EXCEPT !.text = TRUE, !.calls = <<[index |-> 0, id |-> "a"]>>],
   [Nothing EXCEPT !.calls = <<[index |-> 1, id |-> "b"], [index |-> 0, id |-> "c"]>>],
   [Nothing EXCEPT !.finish = "tool_calls", !.usage = TRUE]}
=============================================================================
