---------------------------- MODULE SlaxProfiler ----------------------------
(* The profiler of the debugger (src/libslax/slaxprofiler.c) and where     *)
(* slaxdebugger.c calls it: the callbacks from the XSLT engine end the     *)
(* instruction that was running and begin the next, the user turns         *)
(* profiling on and off, clears and reports in the shell, and a run or a   *)
(* reload begins with nothing counted.                                     *)
EXTENDS Integers

CONSTANTS Insts,      \* instructions [line, own]; own is FALSE in an included file
          LastLine,   \* the line of the document's last node (slaxProfCountLines)
          MaxClock,   \* bound: ticks of wall-clock time
          MaxFrames,  \* bound: frames at once
          MaxHits     \* bound: times a line is begun between two clears

ProfilerAssumption ==
    /\ {LastLine, MaxClock, MaxFrames, MaxHits} \subseteq Nat
    /\ \A i \in Insts : i.line \in Nat /\ i.own \in BOOLEAN

VARIABLES pc,      \* "prompt", "engine", "shell", "crashed"
          frames,  \* frames that will be dropped
          inst,    \* the instruction the shell stopped at
          on,      \* DSF_PROFILER
          clock,
          prof,    \* slax_profile: [line, user, wall, hits, time]
          ran, entered  \* history since the last clear: engine's ticks, entries by line

vars == <<pc, frames, inst, on, clock, prof, ran, entered>>

Lines == 0 .. LastLine
None == [line |-> 0, own |-> FALSE]

\* Data is cleared, the instruction that is running is not.
slaxProfClear(p) == [p EXCEPT !.hits = [l \in Lines |-> 0], !.time = [l \in Lines |-> 0]]

slaxProfOpen == [line |-> 0, user |-> FALSE, wall |-> 0,
                 hits |-> [l \in Lines |-> 0], time |-> [l \in Lines |-> 0]]

\* user is FALSE for a processor time that is zero and not recorded.
slaxProfEnter(p, i, valid) ==
    IF i.own /\ i.line \in 1 .. LastLine
    THEN [p EXCEPT !.line = i.line, !.user = valid, !.wall = clock]
    ELSE [p EXCEPT !.user = FALSE, !.wall = clock]

\* Wrong: what was charged stays as if it were running.
ExitKeeping(p) ==
    IF p.line = 0 \/ ~p.user THEN p
    ELSE [p EXCEPT !.hits[p.line] = @ + 1, !.time[p.line] = @ + (clock - p.wall)]

slaxProfExit(p) ==
    IF p.line = 0 \/ ~p.user THEN p
    ELSE [p EXCEPT !.hits[p.line] = @ + 1,
                   !.time[p.line] = IF p.wall # 0 THEN @ + (clock - p.wall) ELSE @,
                   !.wall = 0, !.user = FALSE, !.line = 0]

\* The sum over all lines.
Total(f) ==
    LET upTo[l \in Lines] == IF l = 0 THEN f[0] ELSE upTo[l - 1] + f[l]
    IN upTo[LastLine]

\* Totals of nothing divide by zero for the first line of the file.
slaxProfReportFails(p) == Total(p.hits) = 0 \/ Total(p.time) = 0

-----------------------------------------------------------------------------
Init == /\ pc = "prompt" /\ frames = 0 /\ inst = None /\ on = TRUE /\ clock = 1
        /\ prof = slaxProfOpen /\ ran = 0 /\ entered = [l \in Lines |-> 0]

ExitIfOn == IF on THEN slaxProfExit(prof) ELSE prof

\* Time passes; the engine is charged for it only while it runs.
Tick == /\ clock < MaxClock /\ pc # "crashed" /\ clock' = clock + 1
        /\ ran' = IF pc = "engine" THEN ran + 1 ELSE ran
        /\ UNCHANGED <<pc, frames, inst, on, prof, entered>>

Forget == ran' = 0 /\ entered' = [l \in Lines |-> 0]

\* The engine goes on with instruction i, p being the profile by now.
GoOn(p, i) ==
    IF ~on THEN prof' = p /\ UNCHANGED entered
    ELSE \E valid \in BOOLEAN :
        /\ prof' = slaxProfEnter(p, i, valid)
        /\ entered' = IF valid /\ i.own /\ i.line \in 1 .. LastLine
                      THEN [entered EXCEPT ![i.line] = @ + 1] ELSE entered
        /\ entered'[i.line] <= MaxHits

\* The handler, before an instruction: it goes on or brings the shell.
slaxDebugHandler(i) ==
    /\ pc = "engine" /\ frames > 0
    /\ \/ GoOn(ExitIfOn, i) /\ UNCHANGED <<pc, inst>>
       \/ prof' = ExitIfOn /\ inst' = i /\ pc' = "shell" /\ UNCHANGED entered
    /\ UNCHANGED <<frames, on, clock, ran>>

slaxDebugAddFrame ==
    /\ pc = "engine" /\ frames < MaxFrames
    /\ prof' = ExitIfOn /\ frames' = frames + 1
    /\ UNCHANGED <<pc, inst, on, clock, ran, entered>>

\* The script ends with its last frame.
slaxDebugDropFrame ==
    /\ pc = "engine" /\ frames > 0
    /\ prof' = ExitIfOn /\ frames' = frames - 1
    /\ pc' = IF frames = 1 THEN "prompt" ELSE "engine"
    /\ UNCHANGED <<inst, on, clock, ran, entered>>

Continue ==
    /\ pc = "shell" /\ pc' = "engine" /\ GoOn(prof, inst) /\ inst' = None
    /\ UNCHANGED <<frames, on, clock, ran>>

AtShell == pc \in {"prompt", "shell"}

slaxDebugCmdProfiler ==
    /\ AtShell /\ on' = ~on
    /\ UNCHANGED <<pc, frames, inst, clock, prof, ran, entered>>

ProfileClear ==
    /\ AtShell /\ prof' = slaxProfClear(prof) /\ Forget
    /\ UNCHANGED <<pc, frames, inst, on, clock>>

ProfileReport ==
    /\ AtShell /\ pc' = IF slaxProfReportFails(prof) THEN "crashed" ELSE pc
    /\ UNCHANGED <<frames, inst, on, clock, prof, ran, entered>>

Run ==
    /\ pc = "prompt" /\ pc' = "engine" /\ frames' = 1
    /\ prof' = LET p == slaxProfClear(prof) IN IF on THEN slaxProfExit(p) ELSE p
    /\ Forget /\ UNCHANGED <<inst, on, clock>>

Reload ==
    /\ pc = "prompt" /\ prof' = slaxProfOpen /\ Forget
    /\ UNCHANGED <<pc, frames, inst, on, clock>>

Next == \/ Tick \/ slaxDebugAddFrame \/ slaxDebugDropFrame \/ Continue
        \/ (\E i \in Insts : slaxDebugHandler(i))
        \/ slaxDebugCmdProfiler \/ ProfileClear \/ ProfileReport \/ Run \/ Reload

Spec == Init /\ [][Next]_vars

-----------------------------------------------------------------------------
\* Every tick is charged to one line at most, and never one in which the
\* engine did not run: not the time a user spends in the shell, at the
\* prompt or before profiling was turned on or cleared (slaxProfEnter and
\* slaxProfExit called by three callbacks).
ChargedOnce ==
    Total(prof.time) + (IF prof.line # 0 /\ prof.user /\ pc = "engine"
                        THEN clock - prof.wall ELSE 0) <= ran

\* A line's hits are the instructions of the line that began since the last
\* clear and have ended, through shells, frames and switching off.
HitsCounted ==
    \A l \in 1 .. LastLine :
        prof.hits[l] + (IF prof.line = l /\ prof.user THEN 1 ELSE 0) = entered[l]

\* "At any point, profiling information can be displayed or cleared"
\* (doc/distribution.rst:728): a report does not end the program.
ReportAnyTime == pc # "crashed"

\* What a report shows is what ran.
TimeAccounted == ChargedOnce /\ HitsCounted
=============================================================================
