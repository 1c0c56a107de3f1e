------------------------------ MODULE MCHttpHost ------------------------------
(* The request of the parser's unit test, with three of its headers.       *)
EXTENDS HttpParser

MCHeads == {[request |-> TRUE, headers |-> 3, body |-> 1]}

=============================================================================
