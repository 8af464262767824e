------------------------------ MODULE Harness -------------------------------
(* The benchmark runner of src/tester/main.go.  Every benchmark is run in      *)
(* every configuration and repetition by a goroutine of its own, which takes   *)
(* one of `parallelism' tickets, lets a helper goroutine compile (once per     *)
(* directory, under a mutex) and run the program, and waits for it or for a    *)
(* timeout.  A task is an execution: repetition, configuration, target.  The   *)
(* compilers, the programs and the file system may do what they like: some of  *)
(* it is an error in the report, some of it ends the harness with log.Fatal.   *)
EXTENDS Report

CONSTANTS Repeats,      \* 1..numberOfRepeats
          Configs,      \* records [detects |-> BOOLEAN, procs |-> Nat]
          Targets,      \* directories with a main.go
          Programs,     \* records [annotations, deadlock]: under a directory "deadlock"?
          parallelism,
          perf,         \* performance measurements
          MaxReports,   \* bound on the reports per function in one execution
          None

Tasks == [repeat : Repeats, config : Configs, target : Targets]

\* nil is no task, no compiler and no reason to end.
ASSUME NoneAssumption ==
    /\ None \notin Tasks /\ None \notin {"leftover", "baselineCompiler", "goCompiler"}
    /\ None \notin {"annotations", "trace file", "unexpected reports", "report file"}

\* Configurations are combinations of flags and numbers of processors; an annotation
\* names a function and has one of the documented expressions.
ASSUME InputAssumption ==
    /\ IsFiniteSet(Repeats) /\ IsFiniteSet(Configs)
    /\ Configs \subseteq [detects : BOOLEAN, procs : Nat]
    /\ \A p \in Programs : \A a \in p.annotations :
          /\ a.fn \in Functions
          /\ a.expr \in [op : {"none", "number", "more"}, k : Nat]

NoTrace == [f \in Functions |-> 0]

VARIABLES
    program,        \* target -> what is in it; does not change
    pc,             \* task -> where its goroutine is
    helper,         \* task -> where its helper goroutine is
    exception,      \* task -> report.Exception, a set of errors
    mu,             \* the task whose helper holds mu, or None
    compiledTargets,
    binary,         \* target -> the compiler that built ./main, or None
    started,        \* task -> the binary its program was started from, or None
    printed,        \* task -> what its program has printed
    results,        \* fullReport.Results
    reported,       \* the report has been written
    fatal           \* what log.Fatal has ended the harness for, or None

vars == <<program, pc, helper, exception, mu, compiledTargets, binary,
          started, printed, results, reported, fatal>>
compilation == <<mu, compiledTargets, binary>>

Holding == {t \in Tasks : pc[t] \notin {"ticket", "finished"}}

Annotations(t) == program[t.target].annotations
gocmd(t) == IF perf /\ ~t.config.detects THEN "baselineCompiler" ELSE "goCompiler"

Init ==
    /\ program \in [Targets -> Programs]
    /\ pc = [t \in Tasks |-> "ticket"]
    /\ helper = [t \in Tasks |-> "none"]
    /\ exception = [t \in Tasks |-> {}]
    /\ mu = None
    /\ compiledTargets = {}
    /\ binary = [d \in Targets |-> "leftover"]      \* from an earlier run of the harness
    /\ started = [t \in Tasks |-> None]
    /\ printed = [t \in Tasks |-> NoTrace]
    /\ results = [t \in {} |-> None]
    /\ reported = FALSE
    /\ fatal = None

\* fullReport.Append copies the report.
Append(t, errors, expected, trace) ==
    results' = [u \in DOMAIN results \cup {t} |->
        IF u = t THEN [exception |-> errors, annotations |-> expected, trace |-> trace]
                 ELSE results[u]]

\* log.Fatal ends the process, all its goroutines with it, and writes no report.
Fatal(reason) ==
    /\ fatal' = reason
    /\ UNCHANGED <<program, pc, helper, exception, compilation, started, printed, results,
                   reported>>

-----------------------------------------------------------------------------
(* The goroutine of a task *)

FailsToPrepare(t) ==
    /\ pc[t] = "ticket" /\ Cardinality(Holding) < parallelism
    /\ Append(t, {"result file"}, {}, NoTrace)
    /\ pc' = [pc EXCEPT ![t] = "finished"]
    /\ UNCHANGED <<program, helper, exception, compilation, started, printed, reported, fatal>>

\* The directory of the benchmark cannot be read or parsed.
UnreadableAnnotations(t) ==
    /\ pc[t] = "ticket" /\ Cardinality(Holding) < parallelism
    /\ Fatal("annotations")

Start(t) ==
    /\ pc[t] = "ticket" /\ Cardinality(Holding) < parallelism
    /\ pc' = [pc EXCEPT ![t] = "select"]
    /\ helper' = [helper EXCEPT ![t] = "lock"]
    /\ UNCHANGED <<program, exception, compilation, started, printed, results, reported, fatal>>

\* Mutant: the time starts with the program, not with the compilation.
TimesOutRunning(t) ==
    /\ pc[t] = "select" /\ helper[t] = "running"
    /\ exception' = [exception EXCEPT ![t] = {"timed out"}]
    /\ pc' = [pc EXCEPT ![t] = "expired"]
    /\ UNCHANGED <<program, helper, compilation, started, printed, results, reported, fatal>>

TimesOut(t) ==
    /\ pc[t] = "select"
    /\ exception' = [exception EXCEPT ![t] = {"timed out"}]
    /\ pc' = [pc EXCEPT ![t] = "expired"]
    /\ UNCHANGED <<program, helper, compilation, started, printed, results, reported, fatal>>

AppendExpired(t) ==
    /\ pc[t] = "expired"
    /\ Append(t, exception[t], Annotations(t), NoTrace)
    /\ pc' = [pc EXCEPT ![t] = "signal"]
    /\ UNCHANGED <<program, helper, exception, compilation, started, printed, reported, fatal>>

\* The signals reach a process that has been started: an interrupt for the compiler,
\* SIGQUIT for the program.
Signal(t) ==
    /\ pc[t] = "signal"
    /\ helper' = [helper EXCEPT ![t] = CASE @ = "compile" -> "interrupted"
                                         [] @ = "running" -> "quitting"
                                         [] OTHER -> @]
    /\ pc' = [pc EXCEPT ![t] = "finished"]
    /\ UNCHANGED <<program, exception, compilation, started, printed, results, reported, fatal>>

Done(t) ==
    /\ pc[t] = "select" /\ helper[t] = "send"
    /\ pc' = [pc EXCEPT ![t] = "done"]
    /\ helper' = [helper EXCEPT ![t] = "end"]
    /\ UNCHANGED <<program, exception, compilation, started, printed, results, reported, fatal>>

\* The trace cannot be written to its file.
UnwrittenTrace(t) == pc[t] = "done" /\ Fatal("trace file")

\* Reports although detection is off mean a bug in the implementation.
UnexpectedReports(t) ==
    /\ pc[t] = "done" /\ ~t.config.detects /\ printed[t] # NoTrace
    /\ Fatal("unexpected reports")

\* Reading the trace back, which may have malformed lines, and what is done with it.
Settle(t) ==
    /\ pc[t] = "done" /\ (t.config.detects \/ printed[t] = NoTrace)
    /\ \E malformed \in {{}, {"trace"}} :
          LET errors == exception[t] \cup malformed IN
          IF ~t.config.detects \/ Annotations(t) # {}
          THEN Append(t, errors, Annotations(t), printed[t])
          ELSE IF program[t.target].deadlock
               THEN Append(t, errors \cup {"missing annotations"}, {}, printed[t])
               ELSE UNCHANGED results
    /\ pc' = [pc EXCEPT ![t] = "finished"]
    /\ UNCHANGED <<program, helper, exception, compilation, started, printed, reported, fatal>>

-----------------------------------------------------------------------------
(* Its helper.  What it writes to the report or the trace file once the report *)
(* has been appended is not read again, and left out.                          *)
Read(t) == pc[t] \in {"select", "expired"}

\* mu.Lock with the lookup; on a hit mu.Unlock follows at once.
FindsCompiled(t) ==
    /\ helper[t] = "lock" /\ mu = None
    /\ t.target \in compiledTargets
    /\ helper' = [helper EXCEPT ![t] = "run"]
    /\ UNCHANGED <<program, pc, exception, compilation, started, printed, results, reported, fatal>>

\* Mutant: the lookup was made before the lock was taken.
CompileUnchecked(t) ==
    /\ helper[t] = "lock" /\ mu = None
    /\ mu' = t
    /\ binary' = [binary EXCEPT ![t.target] = None]
    /\ helper' = [helper EXCEPT ![t] = "compile"]
    /\ UNCHANGED <<program, pc, exception, compiledTargets, started, printed, results,
                   reported, fatal>>

Compile(t) ==
    /\ helper[t] = "lock" /\ mu = None
    /\ t.target \notin compiledTargets
    /\ mu' = t
    /\ binary' = [binary EXCEPT ![t.target] = None]
    /\ helper' = [helper EXCEPT ![t] = "compile"]
    /\ UNCHANGED <<program, pc, exception, compiledTargets, started, printed, results,
                   reported, fatal>>

CompileSucceeds(t) ==
    /\ helper[t] \in {"compile", "interrupted"}
    /\ binary' = [binary EXCEPT ![t.target] = gocmd(t)]
    /\ compiledTargets' = compiledTargets \cup {t.target}
    /\ mu' = None
    /\ helper' = [helper EXCEPT ![t] = "run"]
    /\ UNCHANGED <<program, pc, exception, started, printed, results, reported, fatal>>

\* Mutant: returns without telling the report.
CompileFailsSilently(t) ==
    /\ helper[t] \in {"compile", "interrupted"}
    /\ mu' = None
    /\ helper' = [helper EXCEPT ![t] = "send"]
    /\ UNCHANGED <<program, pc, exception, compiledTargets, binary, started, printed, results,
                   reported, fatal>>

CompileFails(t) ==
    /\ helper[t] \in {"compile", "interrupted"}
    /\ mu' = None
    /\ exception' = [exception EXCEPT ![t] = IF Read(t) THEN {"compilation failure"} ELSE @]
    /\ helper' = [helper EXCEPT ![t] = "send"]
    /\ UNCHANGED <<program, pc, compiledTargets, binary, started, printed, results,
                   reported, fatal>>

Run(t) ==
    /\ helper[t] = "run"
    /\ started' = [started EXCEPT ![t] = binary[t.target]]
    /\ helper' = [helper EXCEPT ![t] = "running"]
    /\ UNCHANGED <<program, pc, exception, compilation, printed, results, reported, fatal>>

Exits(t) ==
    /\ helper[t] \in {"running", "quitting"}
    /\ \E found \in [Functions -> 0..MaxReports] :
          /\ ~Read(t) => found = NoTrace
          /\ printed' = [printed EXCEPT ![t] = found]
    /\ \/ helper[t] = "running" /\ UNCHANGED exception
       \/ exception' = [exception EXCEPT ![t] = IF Read(t) THEN {"runtime failure"} ELSE @]
    /\ helper' = [helper EXCEPT ![t] = "send"]
    /\ UNCHANGED <<program, pc, compilation, started, results, reported, fatal>>

-----------------------------------------------------------------------------

\* fullReport.Wait, and the report; its file may not be writable.
WriteReport ==
    /\ \A t \in Tasks : pc[t] = "finished"
    /\ ~reported
    /\ \/ reported' = TRUE
          /\ UNCHANGED <<program, pc, helper, exception, compilation, started, printed, results,
                         fatal>>
       \/ Fatal("report file")

Task(t) == \/ FailsToPrepare(t) \/ UnreadableAnnotations(t) \/ Start(t)
           \/ TimesOut(t) \/ AppendExpired(t) \/ Signal(t)
           \/ Done(t) \/ UnwrittenTrace(t) \/ UnexpectedReports(t) \/ Settle(t)
Helper(t) == \/ FindsCompiled(t) \/ Compile(t) \/ CompileSucceeds(t) \/ CompileFails(t)
             \/ Run(t) \/ Exits(t)

GoesOn(t) == fatal = None /\ Task(t)
Ends == fatal = None /\ WriteReport
Next == fatal = None /\ ((\E t \in Tasks : Task(t) \/ Helper(t)) \/ WriteReport)

\* Goroutines go on and timers fire.  Programs and compilers may hang.
Spec == /\ Init /\ [][Next]_vars
        /\ WF_vars(Ends)
        /\ \A t \in Tasks : WF_vars(GoesOn(t))

-----------------------------------------------------------------------------

\* Nobody removes or rebuilds the binary of a directory between the moment some helper
\* has found it compiled and the end of the program it starts, also when tasks have
\* timed out and their helpers come late; no program is started that this run has not built.
BinaryIntact ==
    \A t \in Tasks : helper[t] \in {"run", "running", "quitting"} =>
        /\ binary[t.target] \notin {None, "leftover"}
        /\ helper[t] # "run" => started[t] = binary[t.target]
        /\ \A u \in Tasks : u.target = t.target => helper[u] \notin {"compile", "interrupted"}

\* An execution with detection of an annotated program that the report does not list has
\* compiled, run to its normal end within the time, and reported annotated functions only.
UnlistedIsClean ==
    reported => \A t \in Tasks :
        /\ t.config.detects /\ Annotations(t) # {}
        /\ t \notin Listed(results)
        => /\ helper[t] = "end" /\ started[t] = "goCompiler"
           /\ exception[t] = {}
           /\ \A f \in Functions : printed[t][f] > 0 => \E a \in Annotations(t) : a.fn = f

\* A line the table counts under "Remaining" was found in every single execution with
\* detection: none of them timed out, and each printed what the annotation asks for.
RemainingFoundEverywhere ==
    reported => \A row \in Remaining(results, Cardinality(Repeats)
                                      * Cardinality({c.procs : c \in Configs})) :
        \A t \in Tasks : t.config.detects /\ t.target = row.target =>
            /\ "timed out" \notin results[t].exception
            /\ \E a \in Annotations(t) : a.line = row.line /\ printed[t][a.fn] > 0

\* Unless one of the four errors that log.Fatal is for ends the harness, the report is
\* written in the end: whatever program or compiler hangs, fails or comes late, and
\* whoever waits for a ticket or for the mutex behind it.
ReportWritten == <>(reported \/ fatal # None)

\* In a performance measurement, what runs without detection is the baseline's.
OffRunsBaseline ==
    perf => \A t \in Tasks : helper[t] = "running" /\ ~t.config.detects =>
                started[t] = "baselineCompiler"
=============================================================================
