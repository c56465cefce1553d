----------------------------- MODULE SlaxDebugger -----------------------------
(***************************************************************************)
(* The control of sdb, the SLAX debugger (libslax/slaxdebugger.c).  libxslt *)
(* runs the script and calls back before each instruction (the handler),   *)
(* when it enters a template (addFrame) and when it leaves one (dropFrame); *)
(* the callbacks talk with slaxDebugApplyStylesheet and with the commands   *)
(* of the shell through one global status and a word of flags, and none of *)
(* them knows which of the others wrote them last.                          *)
(*                                                                          *)
(* An instruction is <<g, n>>: node n of the g-th stylesheet the process    *)
(* loaded, so that a reference into a stylesheet that was replaced can be   *)
(* told from one into the current.  What the commands print, the list       *)
(* position, call-flow reports, the indexes of local variables (and with    *)
(* them DSF_FRESHADD) and profiler counts are left out.  Of ds_last_inst    *)
(* only whether it is set is ever tested, so last is that.  A blank         *)
(* line at the shell repeats a command that the model offers anyway.        *)
(* Callbacks while a command evaluates an expression (DSF_INSHELL) return   *)
(* at once and are no steps here.                                           *)
(***************************************************************************)
EXTENDS Naturals, Sequences, FiniteSets, SequencesExt, FiniteSetsExt

CONSTANTS Versions,    \* the contents of the script file: a sequence of sets of nodes
          Kind,        \* Kind[n]: "template", "call", "param" or "plain"
          Line,        \* Line[n]: several nodes may stem from one SLAX statement
          Locations,   \* the nodes the user names in commands
          MaxFrames,   \* bound on the engine's nested calls
          MaxBreaks,   \* bound on breakpoints made (slaxDebugBreakpointNumber)
          ReloadFails  \* the stylesheets whose replacement may fail to load

VARIABLES dbg,    \* slaxDebugState, the debugger status, the stack and the breakpoints
          pc,     \* where the process is: "prompt", "engine", "shell" or "exited"
          calls,  \* the engine's open calls, TRUE if addFrame asked for a dropFrame
          style,  \* style and save_style of slaxDebugApplyStylesheet, and what is freed
          asked   \* history: the quit or run the user confirmed during this run, and
                  \* whether a frame was marked to stop then

vars == <<dbg, pc, calls, style, asked>>

NULL == <<0, 0>>
Nodes == UNION {Versions[g] : g \in DOMAIN Versions}
Insts == {<<g, n>> : g \in DOMAIN Versions, n \in Nodes}
Script == {<<style.cur, n>> : n \in Versions[style.cur]}

Statuses == {"NONE", "INIT", "STEP", "OVER", "CONT", "QUIT", "DONE"}
Flags == {"OVER", "RESTART", "CONTINUE", "RELOAD"}
NoRequest == [what |-> "none", marked |-> FALSE]

ASSUME ScriptAssumption == /\ Versions \in Seq(SUBSET (Nat \ {0})) /\ Versions # <<>>
                           /\ Locations \subseteq Nat
                           /\ {MaxFrames, MaxBreaks} \subseteq Nat
ASSUME KindAssumption == \A n \in Nodes : Kind[n] \in {"template", "call", "param", "plain"}

-----------------------------------------------------------------------------
(* Breakpoints. *)

AtBreakpoint(d, i) == \E k \in DOMAIN d.bps : d.bps[k].inst = i
AtStop(d, i) == d.stopAt # NULL /\ d.stopAt = i

\* The breakpoint the handler consults for a condition is the first of these, none
\* if i is the one-time stop of "continue i".
slaxDebugFindBreakpoint(d, i) ==
    IF AtStop(d, i) THEN {} ELSE {k \in DOMAIN d.bps : d.bps[k].inst = i}

\* Wrong: a one-time stop hides the breakpoint status.
AnnounceQuietly(d, i) ==
    IF AtStop(d, i) THEN [d EXCEPT !.stopAt = NULL]
    ELSE IF AtBreakpoint(d, i) THEN [d EXCEPT !.status = "INIT"] ELSE d

slaxDebugAnnounceBreakpoint(d, i) ==
    IF AtStop(d, i) THEN [d EXCEPT !.status = "INIT", !.stopAt = NULL]
    ELSE IF AtBreakpoint(d, i) THEN [d EXCEPT !.status = "INIT"] ELSE d

slaxDebugClearBreakpoints(d) == [d EXCEPT !.bps = <<>>, !.bpnum = 0]
slaxDebugClearStacktrace(d) == [d EXCEPT !.stack = <<>>]

\* 0 stands for a missing argument, the current instruction.
slaxDebugGetNode(d, g, where) ==
    CASE where = 0 -> d.inst
      [] where \in Versions[g] -> <<g, where>>
      [] OTHER -> NULL

\* Wrong: a breakpoint whose target is gone keeps its node.
ReloadKeeping(d, g) ==
    LET node(b) == slaxDebugGetNode(d, g, b.where)
        At(b) == IF node(b) = NULL THEN b ELSE [b EXCEPT !.inst = node(b)]
    IN [d EXCEPT !.bps = [k \in DOMAIN d.bps |-> At(d.bps[k])]]

slaxDebugReloadBreakpoints(d, g) ==
    LET At(b) == [b EXCEPT !.inst = slaxDebugGetNode(d, g, b.where)]
    IN [d EXCEPT !.bps = [k \in DOMAIN d.bps |-> At(d.bps[k])]]

slaxDebugSetStylesheet(d) ==
    [d EXCEPT !.inst = NULL, !.last = FALSE, !.stopAt = NULL]

-----------------------------------------------------------------------------
(* The commands.  arg is a node number or 0, yes the answer to a question    *)
(* (for break: whether a condition was given).                              *)

\* xsltStopEngine marks the context, if there is one.
StopEngine(d) == IF d.ctxt = "live" THEN [d EXCEPT !.halted = TRUE] ELSE d

slaxDebugCheckDone(d) == d.status \in {"NONE", "DONE"}
slaxDebugCheckStart(d) == d.status = "DONE"
Starting(d) == IF d.status = "NONE" THEN [d EXCEPT !.flags = @ \union {"RESTART"}] ELSE d

\* A target that is the one-time stop counts as a duplicate, and the stop is
\* forgotten (slaxDebugCheckBreakpoint).
slaxDebugCmdBreak(d, g, arg, cond) ==
    LET node == slaxDebugGetNode(d, g, arg)
    IN CASE node = NULL -> d
         [] AtStop(d, node) -> [d EXCEPT !.stopAt = NULL]
         [] ~AtStop(d, node) /\ AtBreakpoint(d, node) -> d
         [] OTHER -> [d EXCEPT !.bpnum = @ + 1,
                               !.bps = Append(@, [num |-> d.bpnum + 1, where |-> arg,
                                                  inst |-> node, cond |-> cond])]

slaxDebugCmdDelete(d, num, yes) ==
    LET found == {k \in DOMAIN d.bps : d.bps[k].num = num}
    IN CASE num = 0 -> IF yes THEN slaxDebugClearBreakpoints(d) ELSE d
         [] num # 0 /\ found # {} -> [d EXCEPT !.bps = RemoveAt(@, Min(found))]
         [] OTHER -> d

slaxDebugCmdContinue(d, g, arg) ==
    LET e == Starting(d)
        node == slaxDebugGetNode(d, g, arg)
    IN CASE slaxDebugCheckStart(d) -> d
         [] ~slaxDebugCheckStart(d) /\ arg # 0 /\ node = NULL -> e
         [] OTHER -> [e EXCEPT !.stopAt = IF arg = 0 THEN @ ELSE node,
                               !.status = "CONT", !.flags = @ \union {"CONTINUE"}]

\* The innermost template's frame is marked, or else the outermost frame.
slaxDebugCmdFinish(d) ==
    LET templates == {k \in DOMAIN d.stack : Kind[d.stack[k].inst[2]] = "template"}
        k == IF templates = {} THEN 1 ELSE CHOOSE m \in templates : \A j \in templates : j <= m
    IN IF slaxDebugCheckDone(d) \/ d.stack = <<>> THEN d
       ELSE [d EXCEPT !.stack[k].stop = TRUE, !.status = "CONT"]

slaxDebugCmdStep(d) ==
    IF slaxDebugCheckStart(d) THEN d ELSE [Starting(d) EXCEPT !.status = "STEP"]

slaxDebugCmdOver(d) ==
    IF slaxDebugCheckDone(d) THEN d
    ELSE [d EXCEPT !.status = "OVER", !.flags = @ \union {"OVER"}]

slaxDebugCmdNext(d) ==
    IF slaxDebugCheckStart(d) THEN d
    ELSE IF d.inst # NULL /\ Kind[d.inst[2]] = "call"
         THEN [Starting(d) EXCEPT !.status = "OVER", !.flags = @ \union {"OVER"}]
         ELSE slaxDebugCmdStep(d)

\* Wrong: the status is cleared, as the main loop does.
ReloadClearing(d, yes) ==
    IF d.status \notin {"NONE", "DONE", "QUIT"} /\ ~yes THEN d
    ELSE [StopEngine(d) EXCEPT !.status = "NONE", !.flags = @ \union {"RELOAD"}]

slaxDebugCmdReload(d, yes) ==
    IF d.status \notin {"NONE", "DONE", "QUIT"} /\ ~yes THEN d
    ELSE [StopEngine(d) EXCEPT !.status = "CONT", !.flags = @ \union {"RELOAD"}]

slaxDebugCmdRun(d, yes) ==
    IF d.status \notin {"NONE", "DONE", "QUIT"} /\ ~yes THEN d
    ELSE [StopEngine(d) EXCEPT !.status = "QUIT", !.flags = @ \union {"RESTART", "CONTINUE"}]

slaxDebugCmdQuit(d, yes) ==
    IF d.status \notin {"NONE", "DONE"} /\ ~yes THEN d
    ELSE [StopEngine(d) EXCEPT !.status = "QUIT"]

Args == {0} \union Locations
Commands == [cmd : {"break"}, arg : Args, yes : BOOLEAN]
            \union [cmd : {"delete"}, arg : 0..MaxBreaks, yes : BOOLEAN]
            \union [cmd : {"continue"}, arg : Args, yes : {TRUE}]
            \union [cmd : {"finish", "step", "over", "next"}, arg : {0}, yes : {TRUE}]
            \union [cmd : {"reload", "run", "quit"}, arg : {0}, yes : BOOLEAN]

slaxDebugRunCommand(d, g, c) ==
    CASE c.cmd = "break" -> slaxDebugCmdBreak(d, g, c.arg, c.yes)
      [] c.cmd = "delete" -> slaxDebugCmdDelete(d, c.arg, c.yes)
      [] c.cmd = "continue" -> slaxDebugCmdContinue(d, g, c.arg)
      [] c.cmd = "finish" -> slaxDebugCmdFinish(d)
      [] c.cmd = "step" -> slaxDebugCmdStep(d)
      [] c.cmd = "over" -> slaxDebugCmdOver(d)
      [] c.cmd = "next" -> slaxDebugCmdNext(d)
      [] c.cmd = "reload" -> slaxDebugCmdReload(d, c.yes)
      [] c.cmd = "run" -> slaxDebugCmdRun(d, c.yes)
      [] c.cmd = "quit" -> slaxDebugCmdQuit(d, c.yes)

-----------------------------------------------------------------------------
(* The callbacks. *)

slaxDebugSameSlax(d, i) ==
    d.last /\ d.inst[1] = i[1] /\ Line[d.inst[2]] = Line[i[2]]

\* Wrong: a quit does not silence the handler.
SkipsSame(d, i) == d.status = "DONE" \/ slaxDebugSameSlax(d, i)

Skips(d, i) == d.status \in {"DONE", "QUIT"} \/ slaxDebugSameSlax(d, i)

\* The state the handler fills in for an instruction it does not skip.
AtInst(d, i) == [d EXCEPT !.inst = i, !.ctxt = "live"]

\* The loop at the end of the handler: the shell while the status is INIT, back
\* to the engine otherwise.  (DONE would never leave the loop.)
HandlerLoop(d) ==
    /\ dbg' = IF d.status = "STEP" THEN [d EXCEPT !.status = "INIT"] ELSE d
    /\ pc' = IF d.status = "INIT" THEN "shell" ELSE "engine"

\* libxslt calls the handler before instruction i, and may do so for a while after
\* it was told to stop.
slaxDebugHandler(i) ==
    LET d == AtInst(dbg, i)
        found == slaxDebugFindBreakpoint(d, i)
    IN /\ pc = "engine"
       /\ i \in Script
       /\ ~Skips(dbg, i)
       /\ \/ /\ found # {} /\ d.bps[Min(found)].cond  \* the condition is false: fake a "continue"
             /\ dbg' = slaxDebugCmdContinue(d, style.cur, 0)
             /\ pc' = "engine"
          \/ LET e == slaxDebugAnnounceBreakpoint(d, i)
             IN HandlerLoop([e EXCEPT !.flags = @ \ {"CONTINUE"}])
       /\ UNCHANGED <<calls, style, asked>>

\* The inner of the two addFrames for one template.
InnerAdd(d, i) == i = d.inst /\ Kind[i[2]] \in {"call", "template"}

Pushed(d, i) ==
    LET over == "OVER" \in d.flags /\ Kind[i[2]] # "param"
    IN [d EXCEPT !.depth = @ + 1,
                 !.stack = Append(@, [inst |-> i, depth |-> d.depth, stop |-> over]),
                 !.status = IF over THEN "CONT" ELSE @,
                 !.flags = IF over THEN @ \ {"OVER"} ELSE @]

slaxDebugAddFrame(i) ==
    /\ pc = "engine" /\ ~dbg.halted
    /\ i \in Script /\ Kind[i[2]] \in {"template", "param"}
    /\ Len(calls) < MaxFrames
    /\ dbg' = IF InnerAdd(dbg, i) THEN dbg ELSE Pushed(dbg, i)
    /\ calls' = Append(calls, ~InnerAdd(dbg, i))
    /\ UNCHANGED <<pc, style, asked>>

\* Wrong: the depth stays.
PoppedUncounted(d) ==
    IF d.stack = <<>> THEN d
    ELSE [d EXCEPT !.status = IF Last(d.stack).stop THEN "INIT" ELSE @,
                   !.stack = Front(@), !.last = FALSE]

\* Wrong: the frame below goes with it.
PoppedAll(d) ==
    IF d.stack = <<>> THEN d
    ELSE [d EXCEPT !.status = IF Last(d.stack).stop THEN "INIT" ELSE @,
                   !.stack = SelectSeq(@, LAMBDA f : f.inst # Last(d.stack).inst),
                   !.depth = @ - 1, !.last = FALSE]

Popped(d) ==
    IF d.stack = <<>> THEN d
    ELSE [d EXCEPT !.status = IF Last(d.stack).stop THEN "INIT" ELSE @,
                   !.stack = Front(@), !.depth = @ - 1, !.last = FALSE]

\* The engine leaves a call; libxslt calls back only if addFrame asked for it.
slaxDebugDropFrame ==
    /\ pc = "engine"
    /\ calls # <<>>
    /\ dbg' = IF Last(calls) THEN Popped(dbg) ELSE dbg
    /\ calls' = Front(calls)
    /\ UNCHANGED <<pc, style, asked>>

-----------------------------------------------------------------------------
(* The shell inside the handler. *)

\* Notes a confirmed quit or run, given while no other request is pending.
Request(d, c) ==
    CASE c.cmd \in {"quit", "run"} /\ c.yes
              /\ d.flags \intersect {"RESTART", "RELOAD", "OVER"} = {} ->
           [what |-> c.cmd, marked |-> \E k \in DOMAIN d.stack : d.stack[k].stop]
      [] OTHER -> asked

slaxDebugShell(c) ==
    LET d == slaxDebugRunCommand(dbg, style.cur, c)
    IN /\ pc = "shell"
       /\ c.cmd = "break" => dbg.bpnum < MaxBreaks
       /\ HandlerLoop([d EXCEPT !.last = d.inst # NULL])
       /\ asked' = Request(dbg, c)
       /\ UNCHANGED <<calls, style>>

ShellEof ==
    /\ pc = "shell"
    /\ dbg' = [dbg EXCEPT !.status = "QUIT"]
    /\ pc' = "engine"
    /\ asked' = Request(dbg, [cmd |-> "quit", yes |-> TRUE])
    /\ UNCHANGED <<calls, style>>

-----------------------------------------------------------------------------
(* slaxDebugApplyStylesheet. *)

\* The label restart: off to xsltApplyStylesheet, which makes a new context.
Restart(d) ==
    /\ dbg' = [d EXCEPT !.flags = @ \ {"RESTART", "CONTINUE"},
                        !.status = IF "CONTINUE" \in d.flags THEN "CONT" ELSE "INIT",
                        !.halted = FALSE]
    /\ pc' = "engine"
    /\ asked' = NoRequest
    /\ UNCHANGED style

\* "Out with the old, in with the new".
Replaced(d, g) ==
    [slaxDebugReloadBreakpoints(slaxDebugSetStylesheet(slaxDebugClearStacktrace(d)), g)
        EXCEPT !.status = "NONE"]

\* The label reload.  A script kept in a buffer is not read again; otherwise the
\* stylesheet of the last reload is freed before the file is tried.
Reload(d) ==
    LET e == [d EXCEPT !.flags = @ \ {"RELOAD"}, !.status = "NONE"]
        freed == style.freed \union ({style.saved} \ {0})
    IN /\ \/ /\ style.buffer
             /\ dbg' = Replaced(e, style.cur)
             /\ UNCHANGED style
          \/ /\ ~style.buffer /\ style.cur < Len(Versions)
             /\ style' = [style EXCEPT !.cur = @ + 1, !.saved = style.cur + 1, !.freed = freed]
             /\ dbg' = Replaced(e, style.cur + 1)
          \/ /\ ~style.buffer /\ style.cur \in ReloadFails
             /\ style' = [style EXCEPT !.saved = 0, !.freed = freed]
             /\ dbg' = e
       /\ pc' = "prompt"
       /\ asked' = NoRequest

Exit(d) ==
    /\ dbg' = slaxDebugClearStacktrace(slaxDebugClearBreakpoints(d))
    /\ pc' = "exited"
    /\ style' = [style EXCEPT !.saved = 0, !.freed = @ \union ({style.saved} \ {0})]
    /\ asked' = NoRequest

\* A command at the prompt of the main loop and what the loop makes of it.
Prompt(c) ==
    LET d == slaxDebugRunCommand(dbg, style.cur, c)
    IN /\ pc = "prompt"
       /\ c.cmd = "break" => dbg.bpnum < MaxBreaks
       /\ CASE "RESTART" \in d.flags -> Restart(d)
            [] "RESTART" \notin d.flags /\ "RELOAD" \in d.flags -> Reload(d)
            [] "RESTART" \notin d.flags /\ "RELOAD" \notin d.flags /\ d.status = "QUIT" -> Exit(d)
            [] OTHER -> dbg' = d /\ asked' = NoRequest /\ UNCHANGED <<pc, style>>
       /\ UNCHANGED calls

PromptEof == pc = "prompt" /\ Exit(dbg) /\ UNCHANGED calls

\* xsltApplyStylesheet returns.  Its context is gone; only the normal end clears
\* the pointer to it.  (RESTART and RELOAD survive the mask at the normal end.)
RunEnds ==
    LET d == [dbg EXCEPT !.ctxt = IF @ = "live" THEN "freed" ELSE @, !.halted = FALSE]
    IN /\ pc = "engine"
       /\ calls = <<>>
       /\ CASE dbg.status = "QUIT" /\ "RELOAD" \in dbg.flags -> Reload(d)
            [] dbg.status = "QUIT" /\ "RELOAD" \notin dbg.flags /\ "RESTART" \in dbg.flags ->
                    Restart(slaxDebugClearStacktrace(d))
            [] dbg.status = "QUIT" /\ "RELOAD" \notin dbg.flags /\ "RESTART" \notin dbg.flags ->
                    Exit(d)
            [] OTHER -> /\ dbg' = [slaxDebugSetStylesheet(d) EXCEPT !.ctxt = "null",
                                                                    !.status = "DONE"]
                        /\ pc' = "prompt"
                        /\ UNCHANGED <<style, asked>>
       /\ UNCHANGED calls

-----------------------------------------------------------------------------
Init ==
    /\ dbg = [status |-> "NONE", flags |-> {}, inst |-> NULL, last |-> FALSE, stopAt |-> NULL,
              depth |-> 0, stack |-> <<>>, bps |-> <<>>, bpnum |-> 0,
              ctxt |-> "null", halted |-> FALSE]
    /\ pc = "prompt"
    /\ calls = <<>>
    /\ \E b \in BOOLEAN : style = [cur |-> 1, saved |-> 0, freed |-> {}, buffer |-> b]
    /\ asked = NoRequest

Next ==
    \/ \E c \in Commands : Prompt(c)
    \/ PromptEof
    \/ \E c \in Commands : slaxDebugShell(c)
    \/ ShellEof
    \/ \E i \in Insts : slaxDebugHandler(i)
    \/ \E i \in Insts : slaxDebugAddFrame(i)
    \/ slaxDebugDropFrame
    \/ RunEnds

Spec == Init /\ [][Next]_vars

-----------------------------------------------------------------------------
Refs == Insts \union {NULL}

\* The types of the debugger's state; the depth never exceeds the engine's nesting.
TypeOK ==
    /\ dbg.status \in Statuses
    /\ dbg.flags \subseteq Flags
    /\ {dbg.inst, dbg.stopAt} \subseteq Refs
    /\ dbg.last \in BOOLEAN
    /\ dbg.depth \in 0..MaxFrames
    /\ dbg.bpnum \in 0..MaxBreaks
    /\ \A k \in DOMAIN dbg.bps : dbg.bps[k].inst \in Refs /\ dbg.bps[k].num \in 1..dbg.bpnum
    /\ dbg.ctxt \in {"null", "live", "freed"}
    /\ pc \in {"prompt", "engine", "shell", "exited"}
    /\ calls \in Seq(BOOLEAN)

\* The debugger's stack is the engine's: one frame for each open call whose addFrame
\* asked for a dropFrame, the n-th with depth n - 1, and ds_stackdepth is their number,
\* through restarts and reloads, which empty the stack without touching the depth.
FramesMatch ==
    /\ dbg.depth = Len(dbg.stack)
    /\ Len(dbg.stack) = Cardinality({k \in DOMAIN calls : calls[k]})
    /\ \A k \in DOMAIN dbg.stack : dbg.stack[k].depth = k - 1

\* Whatever the debugger refers to while it can still use it lies in the stylesheet it
\* runs, and that stylesheet is not freed: "No dangling references".
NoDangling ==
    pc # "exited" =>
        /\ style.cur \notin style.freed
        /\ {dbg.inst, dbg.stopAt} \subseteq (Script \union {NULL})
        /\ \A k \in DOMAIN dbg.bps : dbg.bps[k].inst \in Script \union {NULL}
        /\ \A k \in DOMAIN dbg.stack : dbg.stack[k].inst \in Script

\* A confirmed quit or run, given while no frame on the stack is marked to stop and no
\* other request is pending, is the last the user hears of this run: neither the shell
\* nor the prompt comes back before the run was ended or started over, however long
\* libxslt keeps calling.
RequestsHonoured ==
    asked.what # "none" /\ ~asked.marked => pc \notin {"shell", "prompt"}

\* The same for quit, with frames marked by "over" or "finish" on the stack.
QuitIsFinal ==
    asked.what = "quit" => pc \notin {"shell", "prompt"}

\* While the engine runs the status is neither 0 nor DONE: with DONE the loop of the
\* handler would not end, with 0 commands would take the script for not running.
RunningStatus == pc \in {"engine", "shell"} => dbg.status \notin {"NONE", "DONE"}

\* The engine does not get past an instruction with an unconditional breakpoint, or the
\* one named in "continue", without the shell: not while overing, finishing or stepping.
StopsWhereAsked ==
    [][(/\ pc = "engine"
        /\ dbg'.inst \notin {dbg.inst, NULL}
        /\ \/ dbg.stopAt = dbg'.inst
           \/ \E k \in DOMAIN dbg.bps : dbg.bps[k].inst = dbg'.inst /\ ~dbg.bps[k].cond)
       => pc' = "shell"]_vars

\* What the callbacks and the commands share stays consistent, whichever of
\* them wrote it last: the stack is the engine's, and the status one that the
\* loops of handler and prompt can leave.
StateShared == TypeOK /\ FramesMatch /\ RunningStatus
=============================================================================
