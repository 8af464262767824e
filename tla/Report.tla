------------------------------- MODULE Report -------------------------------
(* What the harness makes of a trace (src/tester/trace-validator.go and        *)
(* src/tester/report.go): the goroutines reported in one execution are         *)
(* compared with the annotations of the benchmark, and the comparisons are     *)
(* added up per annotated line and number of processors.  A trace is the       *)
(* number of reports per function; results maps an execution, a record with    *)
(* its target and config, to its entry.  Pure operators; Harness uses them.    *)
EXTENDS Integers, FiniteSets

CONSTANT Functions      \* names of goroutine functions

\* An annotation "deadlocks: e" has a line, a function and an expression.  Of the
\* expressions these are the documented forms: none, a number, a comparison of x.
NoExpr == [op |-> "none", k |-> 0]
Number(k) == [op |-> "number", k |-> k]
MoreThan(k) == [op |-> "more", k |-> k]

\* evaluate with x = n, and the two ways its answer is used.
evaluate(e, n) == IF e.op = "more" THEN n > e.k ELSE e.k

DeadlockShouldBeFound(e) ==
    CASE e.op = "none"   -> FALSE
      [] e.op = "more"   -> evaluate(e, 20)
      [] e.op = "number" -> evaluate(e, 20) # 0

\* Mutant: the value that decides whether deadlocks are expected at all.
CompareWithTwenty(e, n) == DeadlockShouldBeFound(e) \/ n = 0

CompareWithTraceValue(e, n) ==
    CASE e.op = "none"   -> n > 0
      [] e.op = "more"   -> evaluate(e, n)
      [] e.op = "number" -> evaluate(e, n) = n

\* CompareWithTrace: the lines of the annotations that are not met, and the
\* functions that are reported without being annotated.
Mismatches(entry) ==
    {a.line : a \in {b \in entry.annotations : ~CompareWithTraceValue(b.expr, entry.trace[b.fn])}}
Unexpected(entry) ==
    {f \in Functions : entry.trace[f] > 0 /\ \A a \in entry.annotations : a.fn # f}

\* Report.String lists an execution with detection if something was unexpected
\* or went wrong.
Listed(results) ==
    {t \in DOMAIN results : /\ t.config.detects
                            /\ Unexpected(results[t]) # {} \/ results[t].exception # {}}

\* Report.Tabulated: a row per target and line with an annotation that expects a
\* deadlock, and how often the annotations of that line were met.  A mismatch is
\* recognised by its line alone.
Expecting(entry) == {a \in entry.annotations : DeadlockShouldBeFound(a.expr)}

Rows(results) ==
    UNION {{[target |-> t.target, line |-> a.line] : a \in Expecting(results[t])} :
           t \in {u \in DOMAIN results : u.config.detects}}

Met(entry, line) ==
    {a \in Expecting(entry) : a.line = line /\ line \notin Mismatches(entry)}

Found(results, row) ==
    Cardinality(UNION {{<<t, a>> : a \in Met(results[t], row.line)} :
                       t \in {u \in DOMAIN results : u.config.detects /\ u.target = row.target}})

\* The rows whose total is 100 %; the table only says how many they are.
Remaining(results, executions) ==
    {row \in Rows(results) : Found(results, row) = executions}
=============================================================================
