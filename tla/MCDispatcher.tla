---------------------------- MODULE MCDispatcher ----------------------------
(* Four instructions: one in the middle that can be overwritten, one with  *)
(* a stop and one with a breakpoint; a bound and an unbound IAT stub.      *)
EXTENDS Dispatcher

MCAddr == 0..3
MCWritable == {1}
MCStubs == {8, 9}
MCBound == {8}
MCInitCode == {[a \in MCAddr |-> IF a = 0 THEN "store" ELSE "op"]}

=============================================================================
