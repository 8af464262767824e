----------------------------- MODULE MCHarness ------------------------------
(* One benchmark, with detection on one and on two processors and without it;  *)
(* one of two functions is annotated, with every form of expression, or none.  *)
EXTENDS Harness, TLC

Conf(d, n) == [detects |-> d, procs |-> n]
MCConfigs == {Conf(TRUE, 1), Conf(TRUE, 2), Conf(FALSE, 1)}
MCRepeats == {1}
Fns == {"f", "g"}
Note(l, f, e) == [line |-> l, fn |-> f, expr |-> e]
MCPrograms == [annotations : { {}, {Note(1, "f", MoreThan(0)), Note(2, "f", Number(1)),
                                   Note(3, "f", Number(0))} },
               deadlock : {TRUE}]
              \cup {[annotations |-> {}, deadlock |-> FALSE]}
=============================================================================
