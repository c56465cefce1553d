----------------------------- MODULE SlaxRunning -----------------------------
(***************************************************************************)
(* What follows a script while it runs, one part in each behaviour: the    *)
(* debugger, its profiler and mutable variables.                           *)
(***************************************************************************)
EXTENDS SlaxDebugger

\* Those of SlaxProfiler (its Insts and MaxFrames have names of their own here) and
\* of SlaxMvar.
CONSTANTS Timed, LastLine, MaxClock, TimedFrames, MaxHits,
          Globals, Locals, Others, Imported, Input, Trees, Strings,
          MaxDocs, MaxKids, MaxStatements

VARIABLES what,  \* the part of this behaviour
          at, frames, inst, on, clock, prof, ran, entered,
          docs, persistRVT, values, shadow, fragment, seen, phase, statements

Profiler == INSTANCE SlaxProfiler
    WITH pc <- at, Insts <- Timed, MaxFrames <- TimedFrames
Mvar == INSTANCE SlaxMvar

ASSUME RunningAssumption == Profiler!ProfilerAssumption /\ Mvar!MvarAssumption

profilerVars == <<at, frames, inst, on, clock, prof, ran, entered>>
mvarVars == <<docs, persistRVT, values, shadow, fragment, seen, phase, statements>>
runningVars == <<what, vars, profilerVars, mvarVars>>

RunningInit ==
    /\ what \in {"debugger", "profiler", "mvar"}
    /\ Init /\ Profiler!Init /\ Mvar!Init
    /\ what # "debugger" => style.buffer

RunningNext ==
    /\ \/ what = "debugger" /\ Next /\ UNCHANGED <<profilerVars, mvarVars>>
       \/ what = "profiler" /\ Profiler!Next /\ UNCHANGED <<vars, mvarVars>>
       \/ what = "mvar" /\ Mvar!Next /\ UNCHANGED <<vars, profilerVars>>
    /\ UNCHANGED what

RunningSpec == RunningInit /\ [][RunningNext]_runningVars

-----------------------------------------------------------------------------
\* The profiler's promise: each tick is charged once, to the line that ran, and
\* hits count what began and ended (slaxProfEnter, slaxProfExit).
TimeAccounted == what = "profiler" => Profiler!TimeAccounted

\* What the values of variables refer to lives, and is freed once (slaxmvar.c).
DocumentsSound == what = "mvar" => Mvar!DocumentsSound

\* Mutable variables are values that are declared, set and appended to, and each
\* statement does to the variable it names what doc/constructs.rst and the
\* comment on slaxMvarAppend say, with the value it was given, and nothing to any
\* other (slaxMvarSet, slaxMvarAppend).
StatementsTakeEffect == [][what = "mvar" => Mvar!Effects]_mvarVars

\* What doc/notes.rst says of strings: appending one to another assigns it
\* (slaxMvarAppend joins them, so TLC refutes this).
StringsAreAssigned == Mvar!StringsAreAssigned
=============================================================================
