---------------------------- MODULE Harness_proof ----------------------------
(***************************************************************************)
(* Proofs about the benchmark runner, for any set of benchmarks,           *)
(* configurations and repetitions and any number of tickets: the binary a  *)
(* helper has found is left alone until its program has ended, an          *)
(* execution the report does not list went well, and a line that the table *)
(* leaves out was found by every execution.                                *)
(***************************************************************************)
EXTENDS Harness, FiniteSetTheorems, TLAPS

Places == {"ticket", "select", "expired", "signal", "done", "finished"}
Compiling == {"compile", "interrupted"}
Started == {"running", "quitting"}
Helpers == {"none", "lock", "run", "send", "end"} \cup Compiling \cup Started
Errors == {"timed out", "compilation failure", "runtime failure"}
Compilers == {"baselineCompiler", "goCompiler"}
Traces == [Functions -> 0 .. MaxReports] \cup {NoTrace}

TypeInv ==
  /\ program \in [Targets -> Programs]
  /\ pc \in [Tasks -> Places]
  /\ helper \in [Tasks -> Helpers]
  /\ exception \in [Tasks -> SUBSET Errors]
  /\ binary \in [Targets -> {None, "leftover"} \cup Compilers]
  /\ started \in [Tasks -> {None, "leftover"} \cup Compilers]
  /\ printed \in [Tasks -> Traces]

\* Who compiles holds mu and was the first to look its directory up; what has been
\* compiled is there.
Building ==
  /\ \A t \in Tasks : helper[t] \in Compiling => mu = t /\ t.target \notin compiledTargets
  /\ \A t \in Tasks : helper[t] \in {"run"} \cup Started => t.target \in compiledTargets
  /\ \A d \in Targets \cap compiledTargets : binary[d] \in Compilers
  /\ \A t \in Tasks : helper[t] \in Started => started[t] = binary[t.target]

BuildInv == TypeInv /\ Building

\* Without performance measurements there is one compiler.
OneCompiler ==
  /\ \A d \in Targets \cap compiledTargets : binary[d] = "goCompiler"
  /\ \A t \in Tasks : helper[t] \in {"send", "end"} /\ exception[t] = {} => started[t] = "goCompiler"

\* How far a task may be without its helper, and when it must have an error.
InStep(t) ==
  /\ pc[t] = "ticket" => helper[t] = "none"
  /\ pc[t] = "done" => helper[t] = "end"
  /\ helper[t] = "end" => pc[t] \in {"done", "finished"}
  /\ pc[t] \in {"expired", "signal"} => exception[t] # {}
  /\ pc[t] = "finished" => helper[t] \in {"none", "end"} \/ exception[t] # {}

\* What the report says of it is what happened.
Reported(t) ==
  /\ t \in DOMAIN results
  /\ results[t].exception = {} =>
       /\ helper[t] = "end" /\ exception[t] = {}
       /\ results[t].annotations = Annotations(t) /\ results[t].trace = printed[t]

Recorded(t) ==
  pc[t] \in {"signal", "finished"} /\ t.config.detects /\ Annotations(t) # {} => Reported(t)

Outcomes ==
  /\ \A t \in Tasks : InStep(t) /\ Recorded(t)
  /\ reported => \A t \in Tasks : pc[t] = "finished"

-----------------------------------------------------------------------------
\* What a task that stays in its course does.
Course(t) == \/ FailsToPrepare(t) \/ Start(t) \/ TimesOut(t) \/ AppendExpired(t) \/ Signal(t)
             \/ Done(t) \/ Settle(t)

\* The other steps only end the harness, with or without the report, or stutter.
Ending ==
  /\ UNCHANGED <<program, pc, helper, exception, mu, compiledTargets, binary, started, printed,
                 results>>
  /\ reported' # reported => \A t \in Tasks : pc[t] = "finished"

LEMMA StepCases == [Next]_vars => (\E t \in Tasks : Course(t) \/ Helper(t)) \/ Ending
<1>1. ASSUME NEW reason, Fatal(reason) PROVE Ending
  BY <1>1 DEF Fatal, Ending, compilation
<1>2. ASSUME NEW t \in Tasks, Task(t) PROVE Course(t) \/ Ending
  BY <1>1, <1>2 DEF Task, Course, UnreadableAnnotations, UnwrittenTrace, UnexpectedReports
<1>3. ASSUME WriteReport PROVE Ending
  <2>1. CASE Fatal("report file")
    BY <1>1, <2>1
  <2>2. CASE ~Fatal("report file")
    BY <1>3, <2>2 DEF WriteReport, Ending, compilation
  <2> QED
    BY <2>1, <2>2
<1>4. UNCHANGED vars => Ending
  BY DEF vars, Ending
<1>5. Next => (\E t \in Tasks : Task(t) \/ Helper(t)) \/ WriteReport
  BY Zenon DEF Next
<1>6. [Next]_vars => Next \/ UNCHANGED vars
  OBVIOUS
<1> QED
  BY <1>2, <1>3, <1>4, <1>5, <1>6, Zenon

LEMMA TargetOfTask == \A t \in Tasks : t.target \in Targets
  BY DEF Tasks

LEMMA gocmdIsCompiler == \A t \in Tasks : gocmd(t) \in Compilers
  BY DEF gocmd, Compilers

LEMMA TypeInvInit == Init => TypeInv
  BY DEF Init, TypeInv, Places, Helpers, Traces

LEMMA TypeInvStep == TypeInv /\ [Next]_vars => TypeInv'
<1> SUFFICES ASSUME TypeInv, [Next]_vars PROVE TypeInv'
  OBVIOUS
<1> USE DEF TypeInv, Places, Helpers, Compiling, Started, Errors, compilation
<1>1. ASSUME NEW t \in Tasks, FailsToPrepare(t) \/ Start(t) \/ Done(t) \/ Settle(t) \/ AppendExpired(t)
      PROVE TypeInv'
  BY <1>1 DEF FailsToPrepare, Start, Done, Settle, AppendExpired
<1>2. ASSUME NEW t \in Tasks, TimesOut(t) PROVE TypeInv'
  BY <1>2 DEF TimesOut
<1>3. ASSUME NEW t \in Tasks, Signal(t) PROVE TypeInv'
  BY <1>3 DEF Signal
<1>4. ASSUME NEW t \in Tasks, FindsCompiled(t) PROVE TypeInv'
  BY <1>4 DEF FindsCompiled
<1>5. ASSUME NEW t \in Tasks, Compile(t) PROVE TypeInv'
  BY <1>5, TargetOfTask DEF Compile
<1>6. ASSUME NEW t \in Tasks, CompileSucceeds(t) PROVE TypeInv'
  BY <1>6, TargetOfTask, gocmdIsCompiler DEF CompileSucceeds
<1>7. ASSUME NEW t \in Tasks, CompileFails(t) PROVE TypeInv'
  BY <1>7 DEF CompileFails
<1>8. ASSUME NEW t \in Tasks, Run(t) PROVE TypeInv'
  BY <1>8, TargetOfTask DEF Run
<1>9. ASSUME NEW t \in Tasks, Exits(t) PROVE TypeInv'
  <2>1. PICK found \in [Functions -> 0 .. MaxReports] : printed' = [printed EXCEPT ![t] = found]
    BY <1>9 DEF Exits
  <2>2. printed' \in [Tasks -> Traces]
    BY <2>1 DEF Traces
  <2>3. exception' \in [Tasks -> SUBSET Errors]
    <3>1. \/ exception' = exception
          \/ exception' = [exception EXCEPT ![t] = IF Read(t) THEN {"runtime failure"} ELSE @]
      BY <1>9, Zenon DEF Exits
    <3>2. CASE exception' = exception
      BY <3>2
    <3>3. CASE exception' = [exception EXCEPT ![t] = IF Read(t) THEN {"runtime failure"} ELSE @]
      BY <3>3
    <3> QED
      BY <3>1, <3>2, <3>3
  <2> QED
    BY <1>9, <2>2, <2>3 DEF Exits
<1>10. CASE Ending
  BY <1>10 DEF Ending
<1> QED
  BY <1>1, <1>2, <1>3, <1>4, <1>5, <1>6, <1>7, <1>8, <1>9, <1>10, StepCases DEF Course, Helper

LEMMA BuildingInit == Init => Building
  BY DEF Init, Building, Compiling, Started

LEMMA BuildingStep == BuildInv /\ [Next]_vars => Building'
<1> SUFFICES ASSUME BuildInv, [Next]_vars PROVE Building'
  OBVIOUS
<1> USE DEF BuildInv, TypeInv, Building, Compiling, Started, compilation
\* The steps of a task's goroutine change no helper but its own, and that harmlessly.
<1>1. ASSUME NEW t \in Tasks, Course(t) PROVE Building'
  <2>1. /\ UNCHANGED <<mu, compiledTargets, binary, started>>
        /\ \A u \in Tasks :
             \/ helper'[u] = helper[u]
             \/ helper'[u] \in {"lock", "end"}
             \/ helper[u] = "compile" /\ helper'[u] = "interrupted"
             \/ helper[u] = "running" /\ helper'[u] = "quitting"
    <3>1. CASE FailsToPrepare(t) \/ Start(t) \/ TimesOut(t) \/ AppendExpired(t) \/ Done(t) \/ Settle(t)
      BY <3>1 DEF FailsToPrepare, Start, TimesOut, AppendExpired, Done, Settle
    <3>2. CASE Signal(t)
      BY <3>2 DEF Signal
    <3> QED
      BY <1>1, <3>1, <3>2 DEF Course
  <2> QED
    BY <2>1
<1>2. ASSUME NEW t \in Tasks, FindsCompiled(t) PROVE Building'
  BY <1>2 DEF FindsCompiled
<1>3. ASSUME NEW t \in Tasks, Compile(t) PROVE Building'
  <2>1. \A u \in Tasks : helper[u] \notin Compiling
    BY <1>3, NoneAssumption DEF Compile
  <2> QED
    BY <1>3, <2>1, TargetOfTask DEF Compile
<1>4. ASSUME NEW t \in Tasks, CompileSucceeds(t) PROVE Building'
  <2>1. t.target \notin compiledTargets /\ \A u \in Tasks : helper[u] \in Compiling => u = t
    BY <1>4 DEF CompileSucceeds
  <2>2. gocmd(t) \in Compilers
    BY gocmdIsCompiler
  <2> QED
    BY <1>4, <2>1, <2>2, TargetOfTask DEF CompileSucceeds
<1>5. ASSUME NEW t \in Tasks, CompileFails(t) PROVE Building'
  <2>1. \A u \in Tasks : helper[u] \in Compiling => u = t
    BY <1>5 DEF CompileFails
  <2> QED
    BY <1>5, <2>1 DEF CompileFails
<1>6. ASSUME NEW t \in Tasks, Run(t) PROVE Building'
  BY <1>6 DEF Run
<1>7. ASSUME NEW t \in Tasks, Exits(t) PROVE Building'
  BY <1>7 DEF Exits
<1>8. CASE Ending
  BY <1>8 DEF Ending
<1> QED
  BY <1>1, <1>2, <1>3, <1>4, <1>5, <1>6, <1>7, <1>8, StepCases DEF Helper

\* From the moment a helper has found its directory compiled until its program has
\* ended nobody removes or rebuilds the binary, and it was built in this run: for any
\* number of tickets, however late the helpers of expired tasks come.
THEOREM BinaryStaysIntact == Spec => []BinaryIntact
<1>1. Init => BuildInv
  BY TypeInvInit, BuildingInit DEF BuildInv
<1>2. BuildInv /\ [Next]_vars => BuildInv'
  BY TypeInvStep, BuildingStep DEF BuildInv
<1>3. BuildInv => BinaryIntact
  <2> SUFFICES ASSUME BuildInv, NEW t \in Tasks, helper[t] \in {"run", "running", "quitting"}
               PROVE  /\ binary[t.target] \notin {None, "leftover"}
                      /\ helper[t] # "run" => started[t] = binary[t.target]
                      /\ \A u \in Tasks : u.target = t.target =>
                                           helper[u] \notin {"compile", "interrupted"}
    BY DEF BinaryIntact
  <2>1. t.target \in compiledTargets
    BY DEF BuildInv, Building, Started
  <2>2. binary[t.target] \in Compilers
    BY <2>1, TargetOfTask DEF BuildInv, Building
  <2>3. binary[t.target] \notin {None, "leftover"}
    BY <2>2, NoneAssumption DEF Compilers
  <2>4. helper[t] # "run" => started[t] = binary[t.target]
    BY DEF BuildInv, Building, Started
  <2>5. \A u \in Tasks : u.target = t.target => helper[u] \notin {"compile", "interrupted"}
    BY <2>1 DEF BuildInv, Building, Compiling
  <2> QED
    BY <2>3, <2>4, <2>5
<1> QED
  BY <1>1, <1>2, <1>3, PTL DEF Spec

-----------------------------------------------------------------------------
LEMMA AppendOnly ==
  ASSUME NEW t, NEW errors, NEW expected, NEW trace, Append(t, errors, expected, trace)
  PROVE  /\ t \in DOMAIN results'
         /\ results'[t].exception = errors
         /\ results'[t].annotations = expected /\ results'[t].trace = trace
         /\ \A u \in DOMAIN results : u \in DOMAIN results' /\ (u # t => results'[u] = results[u])
  BY DEF Append

\* What is never Read any more was given up with an error.
LEMMA GivenUp ==
  ASSUME NEW t \in Tasks, TypeInv, InStep(t), helper[t] \notin {"none", "end"}, ~Read(t)
  PROVE  exception[t] # {}
  BY DEF TypeInv, Places, InStep, Read

LEMMA OneCompilerInit == Init => OneCompiler
  BY DEF Init, OneCompiler

LEMMA OneCompilerStep ==
  ASSUME ~perf, BuildInv, \A t \in Tasks : InStep(t), OneCompiler, [Next]_vars
  PROVE  OneCompiler'
<1> USE DEF OneCompiler, TypeInv, Compiling, Started, compilation
<1>0. TypeInv /\ Building
  BY DEF BuildInv
<1>1. ASSUME NEW t \in Tasks, Course(t) PROVE OneCompiler'
  <2>1. UNCHANGED <<compiledTargets, binary, started>>
    BY <1>1 DEF Course, FailsToPrepare, Start, TimesOut, AppendExpired, Signal, Done, Settle
  <2>2. \A u \in Tasks : helper'[u] \in {"send", "end"} => helper[u] \in {"send", "end"}
    <3>1. CASE FailsToPrepare(t) \/ Start(t) \/ TimesOut(t) \/ AppendExpired(t) \/ Done(t) \/ Settle(t)
      BY <1>0, <3>1 DEF FailsToPrepare, Start, TimesOut, AppendExpired, Done, Settle
    <3>2. CASE Signal(t)
      BY <1>0, <3>2 DEF Signal
    <3> QED
      BY <1>1, <3>1, <3>2 DEF Course
  <2>3. \A u \in Tasks : exception'[u] = {} => exception[u] = {}
    <3>1. CASE TimesOut(t)
      BY <1>0, <3>1 DEF TimesOut
    <3>2. CASE UNCHANGED exception
      BY <3>2
    <3> QED
      BY <1>1, <3>1, <3>2 DEF Course, FailsToPrepare, Start, AppendExpired, Signal, Done, Settle
  <2> QED
    BY <2>1, <2>2, <2>3
<1>2. ASSUME NEW t \in Tasks, FindsCompiled(t) PROVE OneCompiler'
  BY <1>0, <1>2 DEF FindsCompiled
<1>3. ASSUME NEW t \in Tasks, Compile(t) PROVE OneCompiler'
  BY <1>0, <1>3, TargetOfTask DEF Compile
<1>4. ASSUME NEW t \in Tasks, CompileSucceeds(t) PROVE OneCompiler'
  <2>1. gocmd(t) = "goCompiler"
    BY DEF gocmd
  <2> QED
    BY <1>0, <1>4, <2>1, TargetOfTask DEF CompileSucceeds
<1>5. ASSUME NEW t \in Tasks, CompileFails(t) PROVE OneCompiler'
  <2>1. exception'[t] # {}
    BY <1>0, <1>5, GivenUp DEF CompileFails
  <2> QED
    BY <1>0, <1>5, <2>1 DEF CompileFails
<1>6. ASSUME NEW t \in Tasks, Run(t) PROVE OneCompiler'
  BY <1>0, <1>6 DEF Run
<1>7. ASSUME NEW t \in Tasks, Exits(t) PROVE OneCompiler'
  <2>1. started[t] = "goCompiler"
    BY <1>0, <1>7, TargetOfTask DEF Exits, Building
  <2>2. /\ helper' = [helper EXCEPT ![t] = "send"]
        /\ UNCHANGED <<compiledTargets, binary, started>>
    BY <1>7 DEF Exits
  <2>3. \A u \in Tasks : u # t => exception'[u] = exception[u]
    BY <1>0, <1>7 DEF Exits
  <2> QED
    BY <1>0, <2>1, <2>2, <2>3
<1>8. CASE Ending
  BY <1>8 DEF Ending
<1> QED
  BY <1>1, <1>2, <1>3, <1>4, <1>5, <1>6, <1>7, <1>8, StepCases DEF Helper

-----------------------------------------------------------------------------
LEMMA OutcomesInit == Init => Outcomes
  BY DEF Init, Outcomes, InStep, Recorded

\* A step of t or its helper leaves the others alone.
Alone(t) ==
  /\ UNCHANGED <<program, reported>>
  /\ pc[t] = "finished" => pc'[t] = "finished"
  /\ \A u \in Tasks \ {t} :
       /\ pc'[u] = pc[u] /\ helper'[u] = helper[u] /\ exception'[u] = exception[u]
       /\ printed'[u] = printed[u]
       /\ u \in DOMAIN results => u \in DOMAIN results' /\ results'[u] = results[u]

LEMMA OutcomesFrame ==
  ASSUME NEW t \in Tasks, Outcomes, Alone(t), InStep(t)', Recorded(t)'
  PROVE  Outcomes'
<1>1. \A u \in Tasks : InStep(u)'
  BY DEF Outcomes, Alone, InStep
<1>2. ASSUME NEW u \in Tasks PROVE Recorded(u)'
  <2>1. CASE u = t
    BY <2>1
  <2>2. CASE u # t
    <3>1. Annotations(u)' = Annotations(u)
      BY DEF Annotations, Alone
    <3> QED
      BY <2>2, <3>1 DEF Outcomes, Alone, Recorded, Reported
  <2> QED
    BY <2>1, <2>2
<1>3. (reported => \A u \in Tasks : pc[u] = "finished")'
  BY DEF Outcomes, Alone
<1> QED
  BY <1>1, <1>2, <1>3 DEF Outcomes

LEMMA OutcomesStep == TypeInv /\ Outcomes /\ [Next]_vars => Outcomes'
<1> SUFFICES ASSUME TypeInv, Outcomes, [Next]_vars PROVE Outcomes'
  OBVIOUS
<1> USE DEF TypeInv, Places, compilation
<1>0. \A t \in Tasks : InStep(t) /\ Recorded(t)
  BY DEF Outcomes
<1>1. ASSUME NEW t \in Tasks, FailsToPrepare(t) PROVE Outcomes'
  <2>1. Append(t, {"result file"}, {}, NoTrace)
    BY <1>1 DEF FailsToPrepare
  <2>2. results'[t].exception # {}
    <3>1. results'[t].exception = {"result file"}
      BY <2>1, AppendOnly, Zenon
    <3> QED
      BY <3>1
  <2>3. Alone(t)
    BY <1>1, <2>1, AppendOnly DEF FailsToPrepare, Alone
  <2>4. InStep(t)'
    BY <1>0, <1>1 DEF FailsToPrepare, InStep
  <2>5. Recorded(t)'
    BY <2>1, <2>2, AppendOnly DEF Recorded, Reported
  <2> QED
    BY <2>3, <2>4, <2>5, OutcomesFrame
<1>2. ASSUME NEW t \in Tasks, Start(t) PROVE Outcomes'
  <2>1. Alone(t)
    BY <1>2 DEF Start, Alone
  <2>2. InStep(t)' /\ Recorded(t)'
    BY <1>0, <1>2 DEF Start, InStep, Recorded
  <2> QED
    BY <2>1, <2>2, OutcomesFrame
<1>3. ASSUME NEW t \in Tasks, TimesOut(t) PROVE Outcomes'
  <2>1. Alone(t)
    BY <1>3 DEF TimesOut, Alone
  <2>2. InStep(t)' /\ Recorded(t)'
    BY <1>0, <1>3 DEF TimesOut, InStep, Recorded
  <2> QED
    BY <2>1, <2>2, OutcomesFrame
<1>4. ASSUME NEW t \in Tasks, AppendExpired(t) PROVE Outcomes'
  <2>1. Append(t, exception[t], Annotations(t), NoTrace)
    BY <1>4 DEF AppendExpired
  <2>2. results'[t].exception # {}
    BY <1>0, <1>4, <2>1, AppendOnly DEF AppendExpired, InStep
  <2>3. Alone(t)
    BY <1>4, <2>1, AppendOnly DEF AppendExpired, Alone
  <2>4. InStep(t)'
    BY <1>0, <1>4 DEF AppendExpired, InStep
  <2>5. Recorded(t)'
    BY <2>1, <2>2, AppendOnly DEF Recorded, Reported
  <2> QED
    BY <2>3, <2>4, <2>5, OutcomesFrame
<1>5. ASSUME NEW t \in Tasks, Signal(t) PROVE Outcomes'
  <2>1. /\ pc[t] = "signal" /\ pc' = [pc EXCEPT ![t] = "finished"]
        /\ UNCHANGED <<program, exception, printed, results, reported>>
    BY <1>5 DEF Signal
  <2>2. /\ \A u \in Tasks \ {t} : helper'[u] = helper[u]
        /\ helper'[t] = "end" <=> helper[t] = "end"
        /\ exception[t] # {} /\ helper[t] # "end"
    BY <1>0, <1>5 DEF Signal, InStep
  <2>3. Alone(t)
    BY <2>1, <2>2 DEF Alone
  <2>4. InStep(t)'
    BY <2>1, <2>2 DEF InStep
  <2>5. Annotations(t)' = Annotations(t)
    BY <2>1 DEF Annotations
  <2>6. Recorded(t)'
    BY <1>0, <2>1, <2>2, <2>5 DEF Recorded, Reported
  <2> QED
    BY <2>3, <2>4, <2>6, OutcomesFrame
<1>6. ASSUME NEW t \in Tasks, Done(t) PROVE Outcomes'
  <2>1. Alone(t)
    BY <1>6 DEF Done, Alone
  <2>2. InStep(t)' /\ Recorded(t)'
    BY <1>0, <1>6 DEF Done, InStep, Recorded
  <2> QED
    BY <2>1, <2>2, OutcomesFrame
<1>7. ASSUME NEW t \in Tasks, Settle(t) PROVE Outcomes'
  <2>1. /\ pc[t] = "done" /\ pc' = [pc EXCEPT ![t] = "finished"]
        /\ UNCHANGED <<program, helper, exception, printed, reported>>
    BY <1>7 DEF Settle
  <2>2. \/ UNCHANGED results
        \/ \E errors, expected : Append(t, errors, expected, printed[t])
    BY <1>7, Zenon DEF Settle
  <2>3. t.config.detects /\ Annotations(t) # {} =>
           \E malformed : Append(t, exception[t] \cup malformed, Annotations(t), printed[t])
    BY <1>7, Zenon DEF Settle
  <2>4. \A u \in Tasks \ {t} : u \in DOMAIN results => u \in DOMAIN results' /\ results'[u] = results[u]
    <3>1. CASE UNCHANGED results
      BY <3>1
    <3>2. ASSUME NEW errors, NEW expected, Append(t, errors, expected, printed[t])
          PROVE  \A u \in Tasks \ {t} :
                   u \in DOMAIN results => u \in DOMAIN results' /\ results'[u] = results[u]
      BY <3>2, AppendOnly
    <3> QED
      BY <2>2, <3>1, <3>2
  <2>5. Alone(t)
    BY <2>1, <2>4 DEF Alone
  <2>6. InStep(t)' /\ helper[t] = "end"
    BY <1>0, <2>1 DEF InStep
  <2>7. Annotations(t)' = Annotations(t)
    BY <2>1 DEF Annotations
  <2>8. ASSUME t.config.detects, Annotations(t) # {} PROVE Reported(t)'
    <3>1. PICK malformed : Append(t, exception[t] \cup malformed, Annotations(t), printed[t])
      BY <2>3, <2>8
    <3>2. /\ t \in DOMAIN results'
          /\ results'[t].exception = exception[t] \cup malformed
          /\ results'[t].annotations = Annotations(t) /\ results'[t].trace = printed[t]
      BY <3>1, AppendOnly
    <3>3. results'[t].exception = {} => exception[t] = {}
      BY <3>2
    <3> QED
      BY <2>1, <2>6, <2>7, <3>2, <3>3 DEF Reported
  <2>9. Recorded(t)'
    BY <2>7, <2>8 DEF Recorded
  <2> QED
    BY <2>5, <2>6, <2>9, OutcomesFrame
<1>8. ASSUME NEW t \in Tasks, FindsCompiled(t) \/ Compile(t) \/ CompileSucceeds(t) \/ Run(t)
      PROVE Outcomes'
  <2>1. /\ UNCHANGED <<program, pc, exception, printed, results, reported>>
        /\ \E at \in {"compile", "run", "running"} : helper' = [helper EXCEPT ![t] = at]
        /\ helper[t] \notin {"none", "end"}
    BY <1>8 DEF FindsCompiled, Compile, CompileSucceeds, Run
  <2>2. Alone(t)
    BY <2>1 DEF Alone
  <2>3. InStep(t)'
    BY <1>0, <2>1 DEF InStep
  <2>4. Annotations(t)' = Annotations(t)
    BY <2>1 DEF Annotations
  <2>5. Recorded(t)'
    BY <1>0, <2>1, <2>4 DEF Recorded, Reported
  <2> QED
    BY <2>2, <2>3, <2>5, OutcomesFrame
<1>9. ASSUME NEW t \in Tasks, CompileFails(t) \/ Exits(t) PROVE Outcomes'
  <2>1. /\ UNCHANGED <<program, pc, results, reported>>
        /\ helper' = [helper EXCEPT ![t] = "send"]
        /\ helper[t] \notin {"none", "end"}
        /\ \A u \in Tasks \ {t} : exception'[u] = exception[u] /\ printed'[u] = printed[u]
    BY <1>9 DEF CompileFails, Exits
  <2>2. exception[t] # {} => exception'[t] # {}
    <3>1. CASE CompileFails(t)
      BY <3>1 DEF CompileFails
    <3>2. CASE Exits(t)
      <4>1. \/ exception' = exception
            \/ exception' = [exception EXCEPT ![t] = IF Read(t) THEN {"runtime failure"} ELSE @]
        BY <3>2, Zenon DEF Exits
      <4>2. CASE exception' = exception
        BY <4>2
      <4>3. CASE exception' = [exception EXCEPT ![t] = IF Read(t) THEN {"runtime failure"} ELSE @]
        BY <4>3
      <4> QED
        BY <4>1, <4>2, <4>3
    <3> QED
      BY <1>9, <3>1, <3>2
  <2>3. Alone(t)
    BY <2>1 DEF Alone
  <2>4. InStep(t)'
    BY <1>0, <2>1, <2>2 DEF InStep
  <2>5. Annotations(t)' = Annotations(t)
    BY <2>1 DEF Annotations
  <2>6. Recorded(t)'
    BY <1>0, <2>1, <2>5 DEF Recorded, Reported
  <2> QED
    BY <2>3, <2>4, <2>6, OutcomesFrame
<1>10. CASE Ending
  <2>1. \A t \in Tasks : Annotations(t)' = Annotations(t)
    BY <1>10 DEF Ending, Annotations
  <2> QED
    BY <1>10, <2>1 DEF Ending, Outcomes, InStep, Recorded, Reported
<1> QED
  BY <1>1, <1>2, <1>3, <1>4, <1>5, <1>6, <1>7, <1>8, <1>9, <1>10, StepCases DEF Course, Helper

\* An execution with detection of an annotated benchmark that the report does not list
\* has compiled, run to its normal end in time and reported annotated functions only:
\* whatever is slow or fails elsewhere, for any number of executions.  With two compilers,
\* in performance measurements, the binary may be the wrong one.
THEOREM UnlistedAreClean ==
  ASSUME ~perf
  PROVE  Spec => []UnlistedIsClean
<1> DEFINE Inv == BuildInv /\ Outcomes /\ OneCompiler
<1>1. Init => Inv
  BY TypeInvInit, BuildingInit, OutcomesInit, OneCompilerInit DEF BuildInv
<1>2. Inv /\ [Next]_vars => Inv'
  <2> SUFFICES ASSUME Inv, [Next]_vars PROVE Inv'
    OBVIOUS
  <2>1. TypeInv /\ Building /\ \A t \in Tasks : InStep(t)
    BY DEF BuildInv, Outcomes
  <2> QED
    BY <2>1, TypeInvStep, BuildingStep, OutcomesStep, OneCompilerStep DEF BuildInv
<1>3. Inv => UnlistedIsClean
  <2> SUFFICES ASSUME Inv, reported, NEW t \in Tasks,
                      t.config.detects, Annotations(t) # {}, t \notin Listed(results)
               PROVE  /\ helper[t] = "end" /\ started[t] = "goCompiler"
                      /\ exception[t] = {}
                      /\ \A f \in Functions : printed[t][f] > 0 =>
                                                \E a \in Annotations(t) : a.fn = f
    BY DEF UnlistedIsClean
  <2>1. Reported(t)
    BY DEF Outcomes, Recorded
  <2>2. results[t].exception = {} /\ Unexpected(results[t]) = {}
    BY <2>1 DEF Listed, Reported
  <2>3. /\ helper[t] = "end" /\ exception[t] = {}
        /\ results[t].annotations = Annotations(t) /\ results[t].trace = printed[t]
    BY <2>1, <2>2 DEF Reported
  <2>4. started[t] = "goCompiler"
    BY <2>3 DEF OneCompiler
  <2>5. \A f \in Functions : printed[t][f] > 0 => \E a \in Annotations(t) : a.fn = f
    BY <2>2, <2>3 DEF Unexpected
  <2> QED
    BY <2>3, <2>4, <2>5
<1> QED
  BY <1>1, <1>2, <1>3, PTL DEF Spec

-----------------------------------------------------------------------------
\* The entry of a task is made when it is about to finish, with the annotations of its
\* benchmark or with none; its trace is empty, or what the program printed in time.
Entry(t) ==
  /\ pc[t] \in {"ticket", "select", "done"} => "timed out" \notin exception[t]
  /\ t \in DOMAIN results =>
       /\ pc[t] \in {"signal", "finished"}
       /\ results[t].annotations \in {{}, Annotations(t)}
       /\ \/ results[t].trace = NoTrace
          \/ /\ helper[t] = "end" /\ results[t].trace = printed[t]
             /\ "timed out" \notin results[t].exception

Entries == DOMAIN results \subseteq Tasks /\ \A t \in Tasks : Entry(t)

\* A step of t or its helper makes no entry but that of t.
Apart(t) ==
  /\ UNCHANGED program
  /\ DOMAIN results' \subseteq DOMAIN results \cup {t}
  /\ \A u \in Tasks \ {t} :
       /\ pc'[u] = pc[u] /\ helper'[u] = helper[u] /\ exception'[u] = exception[u]
       /\ printed'[u] = printed[u]
       /\ u \in DOMAIN results => results'[u] = results[u]

LEMMA AppendApart ==
  ASSUME NEW t, NEW errors, NEW expected, NEW trace, Append(t, errors, expected, trace),
         DOMAIN results \subseteq Tasks
  PROVE  /\ DOMAIN results' = DOMAIN results \cup {t}
         /\ \A u \in DOMAIN results : u # t => results'[u] = results[u]
  BY DEF Append

LEMMA EntriesInit == Init => Entries
  BY DEF Init, Entries, Entry

LEMMA EntriesFrame ==
  ASSUME NEW t \in Tasks, Entries, Apart(t), Entry(t)'
  PROVE  Entries'
<1>1. DOMAIN results' \subseteq Tasks
  BY DEF Entries, Apart
<1>2. ASSUME NEW u \in Tasks PROVE Entry(u)'
  <2>1. CASE u = t
    BY <2>1
  <2>2. CASE u # t
    <3>1. Annotations(u)' = Annotations(u)
      BY DEF Annotations, Apart
    <3>2. u \in DOMAIN results' => u \in DOMAIN results
      BY <2>2 DEF Apart
    <3> QED
      BY <2>2, <3>1, <3>2 DEF Entries, Apart, Entry
  <2> QED
    BY <2>1, <2>2
<1> QED
  BY <1>1, <1>2 DEF Entries

LEMMA EntriesStep == TypeInv /\ Outcomes /\ Entries /\ [Next]_vars => Entries'
<1> SUFFICES ASSUME TypeInv, Outcomes, Entries, [Next]_vars PROVE Entries'
  OBVIOUS
<1> USE DEF TypeInv, Places, compilation
<1>0. DOMAIN results \subseteq Tasks /\ \A t \in Tasks : InStep(t) /\ Entry(t)
  BY DEF Outcomes, Entries
<1>1. ASSUME NEW t \in Tasks, FailsToPrepare(t) PROVE Entries'
  <2>1. /\ Append(t, {"result file"}, {}, NoTrace)
        /\ pc' = [pc EXCEPT ![t] = "finished"]
        /\ UNCHANGED <<program, helper, exception, printed>>
    BY <1>1 DEF FailsToPrepare
  <2>2. Apart(t)
    BY <1>0, <2>1, AppendApart DEF Apart
  <2>3. Entry(t)'
    BY <2>1, AppendOnly DEF Entry
  <2> QED
    BY <2>2, <2>3, EntriesFrame
<1>2. ASSUME NEW t \in Tasks, Start(t) PROVE Entries'
  <2>1. Apart(t)
    BY <1>2 DEF Start, Apart
  <2>2. Entry(t)'
    BY <1>0, <1>2 DEF Start, Entry
  <2> QED
    BY <2>1, <2>2, EntriesFrame
<1>3. ASSUME NEW t \in Tasks, TimesOut(t) PROVE Entries'
  <2>1. Apart(t)
    BY <1>3 DEF TimesOut, Apart
  <2>2. Entry(t)'
    BY <1>0, <1>3 DEF TimesOut, Entry
  <2> QED
    BY <2>1, <2>2, EntriesFrame
<1>4. ASSUME NEW t \in Tasks, AppendExpired(t) PROVE Entries'
  <2>1. /\ Append(t, exception[t], Annotations(t), NoTrace)
        /\ pc' = [pc EXCEPT ![t] = "signal"]
        /\ UNCHANGED <<program, helper, exception, printed>>
    BY <1>4 DEF AppendExpired
  <2>2. Apart(t)
    BY <1>0, <2>1, AppendApart DEF Apart
  <2>3. Annotations(t)' = Annotations(t)
    BY <2>1 DEF Annotations
  <2>4. Entry(t)'
    BY <2>1, <2>3, AppendOnly DEF Entry
  <2> QED
    BY <2>2, <2>4, EntriesFrame
<1>5. ASSUME NEW t \in Tasks, Signal(t) PROVE Entries'
  <2>1. /\ pc[t] = "signal" /\ pc' = [pc EXCEPT ![t] = "finished"]
        /\ UNCHANGED <<program, exception, printed, results>>
    BY <1>5 DEF Signal
  <2>2. /\ \A u \in Tasks \ {t} : helper'[u] = helper[u]
        /\ helper[t] = "end" => helper'[t] = "end"
    BY <1>5 DEF Signal
  <2>3. Apart(t)
    BY <2>1, <2>2 DEF Apart
  <2>4. Annotations(t)' = Annotations(t)
    BY <2>1 DEF Annotations
  <2>5. Entry(t)'
    BY <1>0, <2>1, <2>2, <2>4 DEF Entry
  <2> QED
    BY <2>3, <2>5, EntriesFrame
<1>6. ASSUME NEW t \in Tasks, Done(t) PROVE Entries'
  <2>1. Apart(t)
    BY <1>6 DEF Done, Apart
  <2>2. Entry(t)'
    BY <1>0, <1>6 DEF Done, Entry
  <2> QED
    BY <2>1, <2>2, EntriesFrame
<1>7. ASSUME NEW t \in Tasks, Settle(t) PROVE Entries'
  <2>1. /\ pc[t] = "done" /\ pc' = [pc EXCEPT ![t] = "finished"]
        /\ UNCHANGED <<program, helper, exception, printed>>
    BY <1>7 DEF Settle
  <2>2. \/ UNCHANGED results
        \/ \E errors, expected :
             /\ "timed out" \in errors => "timed out" \in exception[t]
             /\ expected \in {{}, Annotations(t)}
             /\ Append(t, errors, expected, printed[t])
    <3>1. \E malformed \in {{}, {"trace"}} :
            \/ UNCHANGED results
            \/ Append(t, exception[t] \cup malformed, Annotations(t), printed[t])
            \/ Append(t, (exception[t] \cup malformed) \cup {"missing annotations"}, {}, printed[t])
      BY <1>7, Zenon DEF Settle
    <3>2. \A malformed \in {{}, {"trace"}} :
            /\ "timed out" \in exception[t] \cup malformed => "timed out" \in exception[t]
            /\ "timed out" \in (exception[t] \cup malformed) \cup {"missing annotations"}
                 => "timed out" \in exception[t]
      OBVIOUS
    <3> QED
      BY <3>1, <3>2, Zenon
  <2>3. helper[t] = "end" /\ "timed out" \notin exception[t] /\ t \notin DOMAIN results
    BY <1>0, <2>1 DEF InStep, Entry
  <2>4. Annotations(t)' = Annotations(t)
    BY <2>1 DEF Annotations
  <2>5. CASE UNCHANGED results
    <3>1. Apart(t)
      BY <2>1, <2>5 DEF Apart
    <3>2. Entry(t)'
      BY <2>1, <2>3, <2>5 DEF Entry
    <3> QED
      BY <3>1, <3>2, EntriesFrame
  <2>6. ASSUME NEW errors, NEW expected, "timed out" \in errors => "timed out" \in exception[t],
               expected \in {{}, Annotations(t)}, Append(t, errors, expected, printed[t])
        PROVE  Entries'
    <3>1. Apart(t)
      BY <1>0, <2>1, <2>6, AppendApart DEF Apart
    <3>2. /\ results'[t].exception = errors
          /\ results'[t].annotations = expected /\ results'[t].trace = printed[t]
      BY <2>6, AppendOnly
    <3>3. pc'[t] = "finished" /\ helper'[t] = "end" /\ printed'[t] = printed[t]
      BY <2>1, <2>3
    <3>4. "timed out" \notin errors
      BY <2>3, <2>6
    <3>5. Entry(t)'
      BY <2>4, <2>6, <3>2, <3>3, <3>4 DEF Entry
    <3> QED
      BY <3>1, <3>5, EntriesFrame
  <2> QED
    BY <2>2, <2>5, <2>6
<1>8. ASSUME NEW t \in Tasks, FindsCompiled(t) \/ Compile(t) \/ CompileSucceeds(t) \/ Run(t)
      PROVE Entries'
  <2>1. /\ UNCHANGED <<program, pc, exception, printed, results>>
        /\ \E at \in {"compile", "run", "running"} : helper' = [helper EXCEPT ![t] = at]
        /\ helper[t] # "end"
    BY <1>8 DEF FindsCompiled, Compile, CompileSucceeds, Run
  <2>2. Apart(t)
    BY <2>1 DEF Apart
  <2>3. Annotations(t)' = Annotations(t)
    BY <2>1 DEF Annotations
  <2>4. Entry(t)'
    BY <1>0, <2>1, <2>3 DEF Entry
  <2> QED
    BY <2>2, <2>4, EntriesFrame
<1>9. ASSUME NEW t \in Tasks, CompileFails(t) \/ Exits(t) PROVE Entries'
  <2>1. /\ UNCHANGED <<program, pc, results>>
        /\ helper' = [helper EXCEPT ![t] = "send"]
        /\ helper[t] # "end"
        /\ \A u \in Tasks \ {t} : exception'[u] = exception[u] /\ printed'[u] = printed[u]
    BY <1>9 DEF CompileFails, Exits
  <2>2. "timed out" \in exception'[t] => "timed out" \in exception[t]
    <3>1. \/ exception' = exception
          \/ \E e \in {"compilation failure", "runtime failure"} :
               exception' = [exception EXCEPT ![t] = IF Read(t) THEN {e} ELSE @]
      BY <1>9, Zenon DEF CompileFails, Exits
    <3>2. ASSUME NEW e \in {"compilation failure", "runtime failure"},
                 exception' = [exception EXCEPT ![t] = IF Read(t) THEN {e} ELSE @]
          PROVE  "timed out" \in exception'[t] => "timed out" \in exception[t]
      BY <3>2
    <3> QED
      BY <3>1, <3>2
  <2>3. Apart(t)
    BY <2>1 DEF Apart
  <2>4. Annotations(t)' = Annotations(t)
    BY <2>1 DEF Annotations
  <2>5. Entry(t)'
    BY <1>0, <2>1, <2>2, <2>4 DEF Entry
  <2> QED
    BY <2>3, <2>5, EntriesFrame
<1>10. CASE Ending
  <2>1. \A t \in Tasks : Annotations(t)' = Annotations(t)
    BY <1>10 DEF Ending, Annotations
  <2> QED
    BY <1>10, <2>1 DEF Ending, Entries, Entry
<1> QED
  BY <1>1, <1>2, <1>3, <1>4, <1>5, <1>6, <1>7, <1>8, <1>9, <1>10, StepCases DEF Course, Helper

-----------------------------------------------------------------------------
\* The table recognises an annotation by its line, which identifies it where no line of
\* a benchmark has two.
OnePerLine == \A p \in Programs : \A a, b \in p.annotations : a.line = b.line => a = b

\* What an annotation that expects a deadlock and is met by a trace was met with.
LEMMA MetMeansReported ==
  ASSUME NEW entry, NEW line, NEW a \in Met(entry, line),
         a.expr \in [op : {"none", "number", "more"}, k : Nat], entry.trace[a.fn] \in Nat
  PROVE  a \in entry.annotations /\ a.line = line /\ entry.trace[a.fn] > 0
<1>1. a \in entry.annotations /\ a.line = line /\ DeadlockShouldBeFound(a.expr)
  BY DEF Met, Expecting
<1>2. CompareWithTraceValue(a.expr, entry.trace[a.fn])
  BY <1>1 DEF Met, Mismatches
<1>3. a.expr.op \in {"none", "number", "more"} /\ a.expr.k \in Nat
  OBVIOUS
<1>4. CASE a.expr.op = "none"
  BY <1>1, <1>4, Zenon DEF DeadlockShouldBeFound
<1>5. CASE a.expr.op = "number"
  <2>1. a.expr.k # 0 /\ a.expr.k = entry.trace[a.fn]
    BY <1>1, <1>2, <1>5 DEF DeadlockShouldBeFound, CompareWithTraceValue, evaluate
  <2> QED
    BY <1>1, <1>3, <2>1
<1>6. CASE a.expr.op = "more"
  <2>1. entry.trace[a.fn] > a.expr.k
    BY <1>2, <1>6 DEF CompareWithTraceValue, evaluate
  <2> QED
    BY <1>1, <1>3, <2>1
<1> QED
  BY <1>3, <1>4, <1>5, <1>6

\* Numbers of processors
Procs == {c.procs : c \in Configs}

LEMMA FiniteExecutions ==
  /\ IsFiniteSet(Repeats \X Procs)
  /\ Cardinality(Repeats \X Procs) = Cardinality(Repeats) * Cardinality(Procs)
<1>1. IsFiniteSet(Repeats) /\ IsFiniteSet(Configs)
  BY InputAssumption
<1>2. IsFiniteSet(Procs)
  <2>1. [c \in Configs |-> c.procs] \in Surjection(Configs, Procs)
    BY DEF Surjection, Procs
  <2> QED
    BY <1>1, <2>1, FS_Surjection
<1> QED
  BY <1>1, <1>2, FS_Product

\* The pairs that Found counts.
Hits(row) == UNION {{<<t, a>> : a \in Met(results[t], row.line)} :
                    t \in {u \in DOMAIN results : u.config.detects /\ u.target = row.target}}

LEMMA InHits ==
  ASSUME NEW row, NEW h
  PROVE  h \in Hits(row) <=>
           \E t \in DOMAIN results : \E a \in Met(results[t], row.line) :
              h = <<t, a>> /\ t.config.detects /\ t.target = row.target
  BY DEF Hits

\* There are as many as there are executions only if every execution has one.
LEMMA FoundEverywhere ==
  ASSUME OnePerLine, TypeInv, Entries, NEW row,
         Cardinality(Hits(row)) = Cardinality(Repeats \X Procs),
         NEW t \in Tasks, t.config.detects, t.target = row.target
  PROVE  t \in DOMAIN results /\ Met(results[t], row.line) # {}
<1> DEFINE f == [h \in Hits(row) |-> <<h[1].repeat, h[1].config.procs>>]
<1>1. ASSUME NEW h \in Hits(row)
      PROVE  /\ h = <<h[1], h[2]>> /\ h[1] \in Tasks /\ h[1] \in DOMAIN results
             /\ h[1].config.detects /\ h[1].target = row.target
             /\ h[2] \in Met(results[h[1]], row.line)
             /\ h[2] \in Annotations(h[1]) /\ h[2].line = row.line
  <2>1. PICK u \in DOMAIN results : \E a \in Met(results[u], row.line) :
           h = <<u, a>> /\ u.config.detects /\ u.target = row.target
    BY InHits
  <2>2. PICK a \in Met(results[u], row.line) :
           h = <<u, a>> /\ u.config.detects /\ u.target = row.target
    BY <2>1
  <2>3. h[1] = u /\ h[2] = a
    BY <2>2
  <2>4. u \in Tasks /\ results[u].annotations \in {{}, Annotations(u)}
    BY DEF Entries, Entry
  <2>5. a \in Annotations(u) /\ a.line = row.line
    BY <2>4 DEF Met, Expecting
  <2> QED
    BY <2>2, <2>3, <2>4, <2>5
<1>2. ASSUME NEW u \in Tasks
      PROVE  u.repeat \in Repeats /\ u.config.procs \in Procs
  BY DEF Tasks, Procs
\* Detection, processors, repetition and target make the execution.
<1>3. ASSUME NEW u \in Tasks, NEW v \in Tasks, u.config.detects, v.config.detects,
             u.target = v.target, u.repeat = v.repeat, u.config.procs = v.config.procs
      PROVE  u = v
  <2>1. /\ u.config \in [detects : BOOLEAN, procs : Nat]
        /\ v.config \in [detects : BOOLEAN, procs : Nat]
    BY InputAssumption DEF Tasks
  <2>2. u.config.detects = TRUE /\ v.config.detects = TRUE
    BY <1>3, <2>1
  <2>3. u.config = v.config
    BY <1>3, <2>1, <2>2
  <2> QED
    BY <1>3, <2>3 DEF Tasks
<1>4. f \in Injection(Hits(row), Repeats \X Procs)
  <2>1. f \in [Hits(row) -> Repeats \X Procs]
    BY <1>1, <1>2
  <2>2. ASSUME NEW h \in Hits(row), NEW i \in Hits(row), f[h] = f[i] PROVE h = i
    <3>1. h[1].repeat = i[1].repeat /\ h[1].config.procs = i[1].config.procs
      BY <2>2
    <3>2. h[1] = i[1]
      BY <1>1, <1>3, <3>1
    <3>3. program[h[1].target] \in Programs
      BY <1>1, TargetOfTask DEF TypeInv
    <3>4. h[2] = i[2]
      <4>1. /\ h[2] \in program[h[1].target].annotations
            /\ i[2] \in program[h[1].target].annotations
            /\ h[2].line = i[2].line
        BY <1>1, <3>2 DEF Annotations
      <4> QED
        BY <3>3, <4>1 DEF OnePerLine
    <3> QED
      BY <1>1, <3>2, <3>4
  <2> QED
    BY <2>1, <2>2 DEF Injection, IsInjective
<1>5. f \in Surjection(Hits(row), Repeats \X Procs)
  BY <1>4, FiniteExecutions, FS_Injection
<1>6. PICK h \in Hits(row) : f[h] = <<t.repeat, t.config.procs>>
  <2>1. <<t.repeat, t.config.procs>> \in Repeats \X Procs
    BY <1>2
  <2> QED
    BY <1>5, <2>1 DEF Surjection
<1>7. h[1] = t
  <2>1. h[1].repeat = t.repeat /\ h[1].config.procs = t.config.procs
    BY <1>6
  <2> QED
    BY <1>1, <1>3, <2>1
<1> QED
  BY <1>1, <1>7

\* A line that the table leaves out and counts as remaining was found by every single
\* execution with detection: each was in time, and printed a report of a function that
\* the benchmark annotates on that line.  For any repetitions, configurations, numbers of
\* tickets and benchmarks with at most one annotation on a line.
THEOREM RemainingAreFound ==
  ASSUME OnePerLine
  PROVE  Spec => []RemainingFoundEverywhere
<1> DEFINE Inv == TypeInv /\ Outcomes /\ Entries
<1>1. Init => Inv
  BY TypeInvInit, OutcomesInit, EntriesInit
<1>2. Inv /\ [Next]_vars => Inv'
  BY TypeInvStep, OutcomesStep, EntriesStep
<1>3. Inv => RemainingFoundEverywhere
  <2> SUFFICES ASSUME Inv,
                      NEW row \in Remaining(results, Cardinality(Repeats)
                                               * Cardinality({c.procs : c \in Configs})),
                      NEW t \in Tasks, t.config.detects, t.target = row.target
               PROVE  /\ "timed out" \notin results[t].exception
                      /\ \E a \in Annotations(t) : a.line = row.line /\ printed[t][a.fn] > 0
    BY DEF RemainingFoundEverywhere
  <2>1. Cardinality(Hits(row)) = Cardinality(Repeats \X Procs)
    <3>1. Found(results, row) = Cardinality(Repeats) * Cardinality(Procs)
      BY DEF Remaining, Procs
    <3>2. Found(results, row) = Cardinality(Hits(row))
      BY DEF Found, Hits
    <3> QED
      BY <3>1, <3>2, FiniteExecutions
  <2>2. t \in DOMAIN results /\ Met(results[t], row.line) # {}
    BY <2>1, FoundEverywhere
  <2>3. PICK a : a \in Met(results[t], row.line)
    BY <2>2
  <2>4. a \in results[t].annotations
    BY <2>3 DEF Met, Expecting
  <2>5. a \in Annotations(t)
    BY <2>2, <2>4 DEF Entries, Entry
  <2>6. a.fn \in Functions /\ a.expr \in [op : {"none", "number", "more"}, k : Nat]
    <3>1. program[t.target] \in Programs
      BY TargetOfTask DEF TypeInv
    <3> QED
      BY <2>5, <3>1, InputAssumption DEF Annotations
  <2>7. /\ printed[t][a.fn] \in Nat
        /\ results[t].trace \in {NoTrace, printed[t]}
        /\ results[t].trace # NoTrace =>
             results[t].trace = printed[t] /\ "timed out" \notin results[t].exception
    <3>1. printed[t] \in Traces
      BY DEF TypeInv
    <3>2. printed[t][a.fn] \in Nat
      BY <2>6, <3>1 DEF Traces, NoTrace
    <3> QED
      BY <2>2, <3>2 DEF Entries, Entry
  <2>8. NoTrace[a.fn] = 0
    BY <2>6 DEF NoTrace
  <2>9. results[t].trace[a.fn] \in Nat
    <3>1. results[t].trace[a.fn] = 0 \/ results[t].trace[a.fn] = printed[t][a.fn]
      BY <2>7, <2>8, Zenon
    <3>2. 0 \in Nat
      OBVIOUS
    <3> QED
      BY <2>7, <3>1, <3>2, Zenon
  <2>10. a.line = row.line /\ results[t].trace[a.fn] > 0
    BY <2>3, <2>6, <2>9, MetMeansReported
  <2>11. results[t].trace # NoTrace
    BY <2>8, <2>10
  <2> QED
    BY <2>5, <2>7, <2>10, <2>11
<1> QED
  BY <1>1, <1>2, <1>3, PTL DEF Spec

=============================================================================
