---------------------------- MODULE MCRunLedger ----------------------------
(* Reports of one run for two tasks, with and without usage, and a retry.  *)
EXTENDS RunLedger

CONSTANTS r1, t1, t2, o1

Used(tokens) == [operation |-> o1, tokens |-> tokens]
Report(of, calls, accounting) ==
  [run |-> r1, task |-> of, optimizerCalls |-> calls, accounting |-> accounting]
MCReports == {Report(t1, <<Used(1)>>, None), Report(None, <<Used(2), Used(None)>>, 1),
              Report(t2, <<Used(None)>>, None)}
=============================================================================
