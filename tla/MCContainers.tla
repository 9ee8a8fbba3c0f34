---------------------------- MODULE MCContainers -----------------------------
(* A small instance of Containers.  Among the literals are an int and a     *)
(* float of the same value, NaN, and an index that a C int cuts to 0.       *)
EXTENDS Containers

MCVocabularies == {{Number(0), Number(1)}, {Number(1), Float(1)}, {Number(8), Float(NaN)}}
MCFieldNames == <<Text(1), Text(2)>>
MCOtherName == Text(3)

(* What comes next does not depend on the value of the last expression.     *)
Future == <<objects, stack, failed, fuel, literals, result = Stray>>
=============================================================================
