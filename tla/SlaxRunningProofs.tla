-------------------------- MODULE SlaxRunningProofs --------------------------
(***************************************************************************)
(* Proofs about what follows a script while it runs: the debugger, for     *)
(* every script and number of reloads, frames and breakpoints; the         *)
(* profiler, for every script, number of lines and length of run; and      *)
(* mutable variables, for every input, any blocks of statements and any    *)
(* number of documents.                                                    *)
(***************************************************************************)
EXTENDS SlaxRunning, ProofFacts, FiniteSetTheorems, SequenceTheorems

-----------------------------------------------------------------------------
(* The debugger's state *)

Idle == {"NONE", "DONE"}

FrameType == [inst : Insts, depth : Nat, stop : BOOLEAN]

BreakType == [num : Nat, where : Nat, inst : Refs, cond : BOOLEAN]

DbgType ==
    [status : Statuses, flags : SUBSET Flags, inst : Refs, last : BOOLEAN,
     stopAt : Refs, depth : Nat, stack : Seq(FrameType), bps : Seq(BreakType),
     bpnum : Nat, ctxt : {"null", "live", "freed"}, halted : BOOLEAN]

Elements(s) == {s[k] : k \in DOMAIN s}

\* The instructions of stylesheet g.
ScriptOf(g) == {<<g, n>> : n \in Versions[g]}

LEMMA ScriptInsts == \A g \in DOMAIN Versions : ScriptOf(g) \subseteq Insts
  BY DEF ScriptOf, Insts, Nodes

LEMMA NodeFound ==
    ASSUME NEW d \in DbgType, NEW g \in DOMAIN Versions, NEW where \in Nat
    PROVE  /\ slaxDebugGetNode(d, g, where) \in Refs
           /\ slaxDebugGetNode(d, g, where) \in ScriptOf(g) \cup {d.inst, NULL}
           /\ where # 0 => slaxDebugGetNode(d, g, where) =
                              IF where \in Versions[g] THEN <<g, where>> ELSE NULL
  <1>1. d.inst \in Refs
    BY DEF DbgType
  <1> QED
    BY <1>1, ScriptInsts DEF slaxDebugGetNode, Refs, ScriptOf

LEMMA ArgNat == Args \subseteq Nat
  BY ScriptAssumption DEF Args

-----------------------------------------------------------------------------
(* Commands *)

StackKept(d, e) ==
    /\ Len(e.stack) = Len(d.stack)
    /\ \A k \in DOMAIN d.stack : /\ e.stack[k].inst = d.stack[k].inst
                                 /\ e.stack[k].depth = d.stack[k].depth

NewBreak(d, b, g) ==
    /\ b \in BreakType
    /\ b.num = d.bpnum + 1
    /\ b.inst = slaxDebugGetNode(d, g, b.where) /\ b.inst # NULL
    /\ ~AtBreakpoint(d, b.inst)

BreaksKept(d, e, g, c) ==
    \/ /\ Elements(e.bps) \subseteq Elements(d.bps)
       /\ e.bpnum = d.bpnum \/ (e.bps = <<>> /\ e.bpnum = 0)
    \/ \E b : /\ NewBreak(d, b, g) /\ c.cmd = "break"
              /\ Elements(e.bps) = Elements(d.bps) \cup {b}
              /\ e.bpnum = d.bpnum + 1

\* What a command c makes of d.
Kept(d, e, g, c) ==
    /\ e \in DbgType
    /\ e.inst = d.inst /\ e.depth = d.depth /\ e.ctxt = d.ctxt /\ e.last = d.last
    /\ StackKept(d, e)
    /\ d.status \notin Idle => e.status \notin Idle
    /\ e.stopAt \in ScriptOf(g) \cup {d.stopAt, d.inst, NULL}
    /\ BreaksKept(d, e, g, c)

LEMMA SameKept ==
    ASSUME NEW d \in DbgType, NEW e \in DbgType, NEW g, NEW c,
           e.inst = d.inst, e.depth = d.depth, e.ctxt = d.ctxt, e.last = d.last,
           e.stack = d.stack, e.bps = d.bps, e.bpnum = d.bpnum,
           d.status \notin Idle => e.status \notin Idle,
           e.stopAt \in ScriptOf(g) \cup {d.stopAt, d.inst, NULL}
    PROVE  Kept(d, e, g, c)
  BY DEF Kept, StackKept, BreaksKept

LEMMA BreakKept ==
    ASSUME NEW d \in DbgType, NEW g \in DOMAIN Versions, NEW c \in Commands,
           c.cmd = "break"
    PROVE  Kept(d, slaxDebugCmdBreak(d, g, c.arg, c.yes), g, c)
  <1> DEFINE node == slaxDebugGetNode(d, g, c.arg)
             b == [num |-> d.bpnum + 1, where |-> c.arg, inst |-> node, cond |-> c.yes]
             e == slaxDebugCmdBreak(d, g, c.arg, c.yes)
  <1>1. c.arg \in Nat /\ c.yes \in BOOLEAN
    BY ArgNat DEF Commands
  <1>2. node \in Refs
    BY <1>1, NodeFound
  <1>3. CASE e = d
    BY <1>3, SameKept
  <1>4. CASE e = [d EXCEPT !.stopAt = NULL]
    <2>1. NULL \in Refs
      BY DEF Refs
    <2>2. e \in DbgType
      BY <1>4, <2>1 DEF DbgType
    <2>3. /\ e.inst = d.inst /\ e.depth = d.depth /\ e.ctxt = d.ctxt /\ e.last = d.last
          /\ e.stack = d.stack /\ e.bps = d.bps /\ e.bpnum = d.bpnum
          /\ e.status = d.status /\ e.stopAt = NULL
      BY <1>4 DEF DbgType
    <2> HIDE DEF e
    <2> QED
      BY <2>2, <2>3, SameKept DEF e
  <1>5. CASE /\ node # NULL /\ ~AtBreakpoint(d, node)
             /\ e = [d EXCEPT !.bpnum = d.bpnum + 1, !.bps = Append(d.bps, b)]
    <2>1. b \in BreakType
      BY <1>1, <1>2 DEF BreakType, DbgType
    <2>2. NewBreak(d, b, g)
      BY <1>5, <2>1 DEF NewBreak
    <2>3. d.bps \in Seq(BreakType) /\ d.bpnum \in Nat
      BY DEF DbgType
    <2> HIDE DEF b, e
    <2>4. Append(d.bps, b) \in Seq(BreakType)
          /\ Elements(Append(d.bps, b)) = Elements(d.bps) \cup {b}
      <3>1. /\ DOMAIN Append(d.bps, b) = DOMAIN d.bps \cup {Len(d.bps) + 1}
            /\ \A k \in DOMAIN d.bps : Append(d.bps, b)[k] = d.bps[k]
            /\ Append(d.bps, b)[Len(d.bps) + 1] = b
            /\ Append(d.bps, b) \in Seq(BreakType)
        BY <2>1, <2>3
      <3> QED
        BY <3>1 DEF Elements
    <2>5. e \in DbgType
      <3>1. d.bpnum + 1 \in Nat
        BY <2>3
      <3> DEFINE x == d.bpnum + 1
                 y == Append(d.bps, b)
      <3>2. x \in Nat /\ y \in Seq(BreakType) /\ e = [d EXCEPT !.bpnum = x, !.bps = y]
        BY <1>5, <2>4, <3>1
      <3> HIDE DEF x, y
      <3> QED
        BY <3>2 DEF DbgType
    <2>6. /\ e.bps = Append(d.bps, b) /\ e.bpnum = d.bpnum + 1 /\ e.inst = d.inst
          /\ e.depth = d.depth /\ e.ctxt = d.ctxt /\ e.last = d.last
          /\ e.stack = d.stack /\ e.status = d.status /\ e.stopAt = d.stopAt
      BY <1>5 DEF DbgType
    <2>7. BreaksKept(d, e, g, c)
      BY <2>2, <2>4, <2>6 DEF BreaksKept
    <2> QED
      BY <2>5, <2>6, <2>7 DEF Kept, StackKept, e
  <1> QED
    BY <1>3, <1>4, <1>5 DEF slaxDebugCmdBreak

\* Removing an element leaves the others.
LEMMA Removal ==
    ASSUME NEW S, NEW s \in Seq(S), NEW k \in DOMAIN s
    PROVE  RemoveAt(s, k) \in Seq(S) /\ Elements(RemoveAt(s, k)) \subseteq Elements(s)
  <1> DEFINE p == SubSeq(s, 1, k - 1)
             q == SubSeq(s, k + 1, Len(s))
  <1>1. k \in 1 .. Len(s) /\ Len(s) \in Nat /\ DOMAIN s = 1 .. Len(s)
    OBVIOUS
  <1>2. /\ p \in Seq(S) /\ Len(p) = k - 1
        /\ \A i \in 1 .. (k - 1) : p[i] = s[i]
    BY <1>1
  <1>3. /\ q \in Seq(S) /\ Len(q) = Len(s) - k
        /\ \A i \in 1 .. (Len(s) - k) : q[i] = s[k + i]
    BY <1>1
  <1> HIDE DEF p, q
  <1>4. p \o q \in Seq(S)
    BY <1>2, <1>3
  <1>5. ASSUME NEW i \in DOMAIN (p \o q)
        PROVE  \E j \in DOMAIN s : (p \o q)[i] = s[j]
    <2>1. i \in 1 .. (Len(p) + Len(q))
      BY <1>2, <1>3, <1>5
    <2>2. CASE i <= Len(p)
      <3>1. (p \o q)[i] = p[i]
        BY <1>2, <1>3, <2>1, <2>2
      <3>2. i \in 1 .. (k - 1) /\ i \in DOMAIN s
        BY <1>1, <1>2, <2>1, <2>2
      <3> QED
        BY <1>2, <3>1, <3>2
    <2>3. CASE i > Len(p)
      <3>1. (p \o q)[i] = q[i - Len(p)]
        BY <1>2, <1>3, <2>1, <2>3
      <3>2. i - Len(p) \in 1 .. (Len(s) - k) /\ k + (i - Len(p)) \in DOMAIN s
        BY <1>1, <1>2, <1>3, <2>1, <2>3
      <3> QED
        BY <1>3, <3>1, <3>2
    <2> QED
      BY <1>2, <2>1, <2>2, <2>3
  <1>6. RemoveAt(s, k) = p \o q
    BY DEF RemoveAt, p, q
  <1> QED
    BY <1>4, <1>5, <1>6 DEF Elements

LEMMA DeleteKept ==
    ASSUME NEW d \in DbgType, NEW g \in DOMAIN Versions, NEW c,
           NEW num \in Nat, NEW yes \in BOOLEAN
    PROVE  Kept(d, slaxDebugCmdDelete(d, num, yes), g, c)
  <1> DEFINE found == {k \in DOMAIN d.bps : d.bps[k].num = num}
             m == Min(found)
             e == slaxDebugCmdDelete(d, num, yes)
  <1>1. d.bps \in Seq(BreakType)
    BY DEF DbgType
  <1>2. found # {} => m \in DOMAIN d.bps
    <2>1. found \in SUBSET Nat
      BY <1>1
    <2>2. found # {} => \E x \in found : \A y \in found : x <= y
      BY <2>1, LeastNatural
    <2> QED
      BY <2>2 DEF Min
  <1>3. CASE e = d
    BY <1>3, SameKept
  <1>4. CASE \E bps \in Seq(BreakType), n \in Nat :
                /\ e = [d EXCEPT !.bps = bps, !.bpnum = n]
                /\ Elements(bps) \subseteq Elements(d.bps)
                /\ n = d.bpnum \/ (bps = <<>> /\ n = 0)
    <2> HIDE DEF e
    <2>1. PICK bps \in Seq(BreakType), n \in Nat :
             /\ e = [d EXCEPT !.bps = bps, !.bpnum = n]
             /\ Elements(bps) \subseteq Elements(d.bps)
             /\ n = d.bpnum \/ (bps = <<>> /\ n = 0)
      BY <1>4
    <2>2. e \in DbgType
      BY <2>1 DEF DbgType
    <2>3. /\ e.inst = d.inst /\ e.depth = d.depth /\ e.ctxt = d.ctxt /\ e.last = d.last
          /\ e.stack = d.stack /\ e.bps = bps /\ e.bpnum = n
          /\ e.status = d.status /\ e.stopAt = d.stopAt
      BY <2>1 DEF DbgType
    <2>4. BreaksKept(d, e, g, c)
      BY <2>1, <2>3 DEF BreaksKept
    <2> QED
      BY <2>2, <2>3, <2>4 DEF Kept, StackKept, e
  <1>5. CASE e = [d EXCEPT !.bps = <<>>, !.bpnum = 0]
    <2>1. Elements(<<>>) \subseteq Elements(d.bps) /\ <<>> \in Seq(BreakType) /\ 0 \in Nat
      BY DEF Elements
    <2> QED
      BY <1>4, <1>5, <2>1
  <1>6. CASE found # {} /\ e = [d EXCEPT !.bps = RemoveAt(d.bps, m)]
    <2>1. /\ RemoveAt(d.bps, m) \in Seq(BreakType)
          /\ Elements(RemoveAt(d.bps, m)) \subseteq Elements(d.bps)
      BY <1>1, <1>2, <1>6, Removal
    <2> DEFINE bps == RemoveAt(d.bps, m)
    <2> HIDE DEF bps
    <2>2. e = [d EXCEPT !.bps = bps, !.bpnum = d.bpnum] /\ d.bpnum \in Nat
      <3>1. e = [d EXCEPT !.bps = bps]
        BY <1>6 DEF bps
      <3> HIDE DEF e
      <3> QED
        BY <3>1 DEF DbgType
    <2>3. \E b \in Seq(BreakType), n \in Nat :
             /\ e = [d EXCEPT !.bps = b, !.bpnum = n]
             /\ Elements(b) \subseteq Elements(d.bps)
             /\ n = d.bpnum \/ (b = <<>> /\ n = 0)
      BY <2>1, <2>2 DEF bps
    <2> QED
      BY <1>4, <2>3
  <1>7. \/ e = d
        \/ e = [d EXCEPT !.bps = <<>>, !.bpnum = 0]
        \/ found # {} /\ e = [d EXCEPT !.bps = RemoveAt(d.bps, m)]
    BY DEF slaxDebugCmdDelete, slaxDebugClearBreakpoints
  <1> QED
    BY <1>3, <1>5, <1>6, <1>7

\* Most commands write nothing but what controls the run.
Controlled(d, e) ==
    \E s \in Statuses, f \in SUBSET Flags, t \in Refs, h \in BOOLEAN :
        e = [d EXCEPT !.status = s, !.flags = f, !.stopAt = t, !.halted = h]

LEMMA ControlFields ==
    ASSUME NEW d \in DbgType, NEW s \in Statuses, NEW f \in SUBSET Flags, NEW t \in Refs,
           NEW h \in BOOLEAN, NEW e,
           e = [d EXCEPT !.status = s, !.flags = f, !.stopAt = t, !.halted = h]
    PROVE  /\ e \in DbgType
           /\ e.inst = d.inst /\ e.depth = d.depth /\ e.ctxt = d.ctxt /\ e.last = d.last
           /\ e.stack = d.stack /\ e.bps = d.bps /\ e.bpnum = d.bpnum
           /\ e.status = s /\ e.flags = f /\ e.stopAt = t /\ e.halted = h
  BY DEF DbgType

LEMMA ControlKept ==
    ASSUME NEW d \in DbgType, NEW s \in Statuses, NEW f \in SUBSET Flags, NEW t \in Refs,
           NEW h \in BOOLEAN, NEW e, NEW g, NEW c,
           e = [d EXCEPT !.status = s, !.flags = f, !.stopAt = t, !.halted = h],
           d.status \notin Idle => s \notin Idle,
           t \in ScriptOf(g) \cup {d.stopAt, d.inst, NULL}
    PROVE  Kept(d, e, g, c)
  <1>1. /\ e \in DbgType
        /\ e.inst = d.inst /\ e.depth = d.depth /\ e.ctxt = d.ctxt /\ e.last = d.last
        /\ e.stack = d.stack /\ e.bps = d.bps /\ e.bpnum = d.bpnum
        /\ e.status = s /\ e.stopAt = t
    BY DEF DbgType
  <1>2. d.status \notin Idle => e.status \notin Idle
    BY <1>1
  <1> QED
    BY <1>1, <1>2, SameKept

LEMMA DbgFields ==
    ASSUME NEW d \in DbgType
    PROVE  /\ d.status \in Statuses /\ d.flags \in SUBSET Flags /\ d.inst \in Refs
           /\ d.stopAt \in Refs /\ d.halted \in BOOLEAN /\ d.depth \in Nat
           /\ d.stack \in Seq(FrameType) /\ d.bps \in Seq(BreakType) /\ d.bpnum \in Nat
           /\ d.last \in BOOLEAN
           /\ d.ctxt \in {"null", "live", "freed"}
           /\ d.flags \cup {"RESTART"} \in SUBSET Flags
           /\ d.flags \cup {"CONTINUE"} \in SUBSET Flags
           /\ d.flags \cup {"OVER"} \in SUBSET Flags
           /\ d.flags \cup {"RELOAD"} \in SUBSET Flags
  BY DEF DbgType, Flags

\* A command that starts a run asks for a restart.
LEMMA StartFields ==
    ASSUME NEW d \in DbgType
    PROVE  LET e == Starting(d)
           IN  /\ \E f \in SUBSET Flags : e = [d EXCEPT !.flags = f]
               /\ e.flags = IF d.status = "NONE" THEN d.flags \cup {"RESTART"} ELSE d.flags
               /\ e \in DbgType
               /\ e.status = d.status /\ e.stopAt = d.stopAt /\ e.halted = d.halted
  <1>1. CASE d.status = "NONE"
    BY <1>1, DbgFields DEF Starting, DbgType
  <1>2. CASE d.status # "NONE"
    <2>1. d = [d EXCEPT !.flags = d.flags]
      BY DEF DbgType
    <2> QED
      BY <1>2, <2>1, DbgFields DEF Starting
  <1> QED
    BY <1>1, <1>2

LEMMA StopFields ==
    ASSUME NEW d \in DbgType
    PROVE  \E h \in BOOLEAN : StopEngine(d) = [d EXCEPT !.halted = h]
  <1>1. d = [d EXCEPT !.halted = d.halted]
    BY DEF DbgType
  <1> QED
    BY <1>1, DbgFields DEF StopEngine

LEMMA ContinueKept ==
    ASSUME NEW d \in DbgType, NEW g \in DOMAIN Versions, NEW c, NEW arg \in Nat
    PROVE  Kept(d, slaxDebugCmdContinue(d, g, arg), g, c)
  <1> DEFINE e == slaxDebugCmdContinue(d, g, arg)
             node == slaxDebugGetNode(d, g, arg)
             stop == IF arg = 0 THEN d.stopAt ELSE node
  <1>1. PICK f \in SUBSET Flags : Starting(d) = [d EXCEPT !.flags = f]
    BY StartFields
  <1>2. node \in Refs /\ node \in ScriptOf(g) \cup {d.inst, NULL}
    BY NodeFound
  <1> HIDE DEF node
  <1>3. stop \in Refs /\ stop \in ScriptOf(g) \cup {d.stopAt, d.inst, NULL}
    BY <1>2, DbgFields
  <1>4. \/ e = d
        \/ e = Starting(d)
        \/ e = [Starting(d) EXCEPT !.stopAt = stop, !.status = "CONT",
                                   !.flags = Starting(d).flags \cup {"CONTINUE"}]
    <2>1. Starting(d).stopAt = d.stopAt
      BY StartFields
    <2> QED
      BY <2>1 DEF slaxDebugCmdContinue, node
  <1> HIDE DEF stop, e
  <1>5. CASE e = d
    BY <1>5, SameKept DEF e
  <1>6. CASE e = Starting(d)
    <2>1. e = [d EXCEPT !.status = d.status, !.flags = f, !.stopAt = d.stopAt,
                        !.halted = d.halted]
      BY <1>1, <1>6 DEF DbgType
    <2>2. d.status \in Statuses /\ d.stopAt \in Refs /\ d.halted \in BOOLEAN
      BY DbgFields
    <2>3. Kept(d, e, g, c)
      BY <2>1, <2>2, ControlKept
    <2> QED
      BY <2>3 DEF e
  <1>7. CASE e = [Starting(d) EXCEPT !.stopAt = stop, !.status = "CONT",
                                     !.flags = Starting(d).flags \cup {"CONTINUE"}]
    <2> DEFINE fl == Starting(d).flags \cup {"CONTINUE"}
    <2>1. fl \in SUBSET Flags
      BY StartFields, DbgFields DEF Flags
    <2> HIDE DEF fl
    <2>2. e = [d EXCEPT !.status = "CONT", !.flags = fl, !.stopAt = stop, !.halted = d.halted]
      BY <1>1, <1>7 DEF DbgType, fl
    <2>3. "CONT" \in Statuses /\ "CONT" \notin Idle
      BY DEF Statuses, Idle
    <2>4. d.halted \in BOOLEAN
      BY DbgFields
    <2>5. Kept(d, e, g, c)
      BY <1>3, <2>1, <2>2, <2>3, <2>4, ControlKept
    <2> QED
      BY <2>5 DEF e
  <1> QED
    BY <1>4, <1>5, <1>6, <1>7

LEMMA FinishKept ==
    ASSUME NEW d \in DbgType, NEW g, NEW c
    PROVE  Kept(d, slaxDebugCmdFinish(d), g, c)
  <1> DEFINE e == slaxDebugCmdFinish(d)
  <1>1. CASE e = d
    BY <1>1, SameKept
  <1>2. ASSUME NEW k, e = [d EXCEPT !.stack[k].stop = TRUE, !.status = "CONT"]
        PROVE  Kept(d, e, g, c)
    <2> DEFINE st == [d.stack EXCEPT ![k].stop = TRUE]
    <2>1. d.stack \in Seq(FrameType)
      BY DbgFields
    <2>2. /\ DOMAIN d.stack = 1 .. Len(d.stack) /\ Len(d.stack) \in Nat
          /\ \A j \in DOMAIN d.stack : d.stack[j] \in FrameType
      BY <2>1
    <2> DEFINE new(j) == IF j = k THEN [d.stack[j] EXCEPT !.stop = TRUE] ELSE d.stack[j]
    <2>9. st = [j \in 1 .. Len(d.stack) |-> new(j)]
      BY <2>2
    <2>3. \A j \in 1 .. Len(d.stack) : /\ new(j) \in FrameType
                                       /\ new(j).inst = d.stack[j].inst
                                       /\ new(j).depth = d.stack[j].depth
      BY <2>2 DEF FrameType
    <2> HIDE DEF st, new
    <2>4. /\ st \in Seq(FrameType) /\ Len(st) = Len(d.stack)
          /\ \A j \in 1 .. Len(d.stack) : st[j] = new(j)
      BY <2>2, <2>3, <2>9
    <2>5. e = [d EXCEPT !.stack = st, !.status = "CONT"]
      BY <1>2 DEF DbgType, st
    <2>6. "CONT" \in Statuses /\ "CONT" \notin Idle
      BY DEF Statuses, Idle
    <2> HIDE DEF e
    <2>7. e \in DbgType
      BY <2>4, <2>5, <2>6 DEF DbgType
    <2>8. /\ e.inst = d.inst /\ e.depth = d.depth /\ e.ctxt = d.ctxt /\ e.last = d.last
          /\ e.stack = st /\ e.bps = d.bps /\ e.bpnum = d.bpnum
          /\ e.status = "CONT" /\ e.stopAt = d.stopAt
      BY <2>5 DEF DbgType
    <2> QED
      BY <2>2, <2>3, <2>4, <2>6, <2>7, <2>8 DEF Kept, StackKept, BreaksKept
  <1>3. e = d \/ \E k : e = [d EXCEPT !.stack[k].stop = TRUE, !.status = "CONT"]
    BY DEF slaxDebugCmdFinish
  <1> QED
    BY <1>1, <1>2, <1>3

LEMMA ControlledKept ==
    ASSUME NEW d \in DbgType, NEW e, NEW g, NEW c, NEW s \in Statuses,
           NEW f \in SUBSET Flags, NEW h \in BOOLEAN,
           e = [d EXCEPT !.status = s, !.flags = f, !.halted = h],
           d.status \notin Idle => s \notin Idle
    PROVE  Kept(d, e, g, c)
  <1>1. e = [d EXCEPT !.status = s, !.flags = f, !.stopAt = d.stopAt, !.halted = h]
    BY DEF DbgType
  <1>2. d.stopAt \in Refs
    BY DbgFields
  <1> QED
    BY <1>1, <1>2, ControlKept

LEMMA StatusNames ==
    /\ Statuses = {"NONE", "INIT", "STEP", "OVER", "CONT", "QUIT", "DONE"}
    /\ {"INIT", "STEP", "OVER", "CONT", "QUIT"} \cap Idle = {}
  BY DEF Statuses, Idle

LEMMA StepKept ==
    ASSUME NEW d \in DbgType, NEW g, NEW c
    PROVE  /\ Kept(d, slaxDebugCmdStep(d), g, c)
           /\ Kept(d, slaxDebugCmdOver(d), g, c)
           /\ Kept(d, slaxDebugCmdNext(d), g, c)
  <1>1. Kept(d, d, g, c)
    BY SameKept
  <1>2. PICK f \in SUBSET Flags : Starting(d) = [d EXCEPT !.flags = f]
    BY StartFields
  <1>3. Kept(d, [Starting(d) EXCEPT !.status = "STEP"], g, c)
    <2> DEFINE e == [Starting(d) EXCEPT !.status = "STEP"]
    <2>1. e = [d EXCEPT !.status = "STEP", !.flags = f, !.halted = d.halted]
      BY <1>2 DEF DbgType
    <2>2. d.halted \in BOOLEAN
      BY DbgFields
    <2> HIDE DEF e
    <2>3. Kept(d, e, g, c)
      BY <2>1, <2>2, StatusNames, ControlledKept
    <2> QED
      BY <2>3 DEF e
  <1>4. ASSUME NEW x \in {d, Starting(d)}
        PROVE  Kept(d, [x EXCEPT !.status = "OVER", !.flags = x.flags \cup {"OVER"}], g, c)
    <2> DEFINE e == [x EXCEPT !.status = "OVER", !.flags = x.flags \cup {"OVER"}]
               fl == x.flags \cup {"OVER"}
    <2>1. x.flags \in SUBSET Flags
      BY StartFields, DbgFields
    <2>2. fl \in SUBSET Flags
      BY <2>1 DEF Flags
    <2> HIDE DEF fl
    <2>3. e = [d EXCEPT !.status = "OVER", !.flags = fl, !.halted = d.halted]
      BY <1>2 DEF DbgType, fl
    <2>4. d.halted \in BOOLEAN
      BY DbgFields
    <2> HIDE DEF e
    <2>5. Kept(d, e, g, c)
      BY <2>2, <2>3, <2>4, StatusNames, ControlledKept
    <2> QED
      BY <2>5 DEF e
  <1>5. Kept(d, slaxDebugCmdStep(d), g, c)
    BY <1>1, <1>3 DEF slaxDebugCmdStep
  <1> QED
    BY <1>1, <1>4, <1>5 DEF slaxDebugCmdOver, slaxDebugCmdNext

LEMMA ReloadKept ==
    ASSUME NEW d \in DbgType, NEW g, NEW c, NEW yes \in BOOLEAN
    PROVE  /\ Kept(d, slaxDebugCmdReload(d, yes), g, c)
           /\ Kept(d, slaxDebugCmdRun(d, yes), g, c)
           /\ Kept(d, slaxDebugCmdQuit(d, yes), g, c)
  <1>1. Kept(d, d, g, c)
    BY SameKept
  <1>2. PICK h \in BOOLEAN : StopEngine(d) = [d EXCEPT !.halted = h]
    BY StopFields
  <1>3. /\ d.flags \cup {"RELOAD"} \in SUBSET Flags
        /\ d.flags \cup {"RESTART", "CONTINUE"} \in SUBSET Flags
        /\ d.flags \in SUBSET Flags
    BY DbgFields DEF Flags
  <1>4. ASSUME NEW s \in {"CONT", "QUIT"}, NEW f \in SUBSET Flags
        PROVE  Kept(d, [StopEngine(d) EXCEPT !.status = s, !.flags = f], g, c)
    <2> DEFINE e == [StopEngine(d) EXCEPT !.status = s, !.flags = f]
    <2>1. e = [d EXCEPT !.status = s, !.flags = f, !.halted = h]
      BY <1>2 DEF DbgType
    <2> HIDE DEF e
    <2>2. Kept(d, e, g, c)
      BY <2>1, StatusNames, ControlledKept
    <2> QED
      BY <2>2 DEF e
  <1>5. StopEngine(d).flags = d.flags
    BY <1>2 DEF DbgType
  <1>6. [StopEngine(d) EXCEPT !.status = "QUIT"]
           = [StopEngine(d) EXCEPT !.status = "QUIT", !.flags = d.flags]
    BY <1>2 DEF DbgType
  <1>7. Kept(d, slaxDebugCmdReload(d, yes), g, c)
    BY <1>1, <1>3, <1>4, <1>5 DEF slaxDebugCmdReload
  <1>8. Kept(d, slaxDebugCmdRun(d, yes), g, c)
    BY <1>1, <1>3, <1>4, <1>5 DEF slaxDebugCmdRun
  <1>9. Kept(d, slaxDebugCmdQuit(d, yes), g, c)
    BY <1>1, <1>3, <1>4, <1>6 DEF slaxDebugCmdQuit
  <1> QED
    BY <1>7, <1>8, <1>9

\* Whatever the user types, the commands leave the stack, the current
\* instruction and the depth alone, and a script that runs keeps running.
LEMMA CommandKept ==
    ASSUME NEW d \in DbgType, NEW g \in DOMAIN Versions, NEW c \in Commands
    PROVE  Kept(d, slaxDebugRunCommand(d, g, c), g, c)
  <1>1. /\ c.arg \in Nat /\ c.yes \in BOOLEAN
        /\ c.cmd \in {"break", "delete", "continue", "finish", "step", "over", "next",
                      "reload", "run", "quit"}
    <2>1. /\ Args \subseteq Nat /\ 0 .. MaxBreaks \subseteq Nat /\ 0 \in Nat
      BY ArgNat, ScriptAssumption
    <2>2. c.arg \in Args \cup (0 .. MaxBreaks) \cup {0} /\ c.yes \in BOOLEAN
      BY DEF Commands
    <2>3. c.cmd \in {"break", "delete", "continue", "finish", "step", "over", "next",
                     "reload", "run", "quit"}
      BY DEF Commands
    <2> QED
      BY <2>1, <2>2, <2>3
  <1>2. CASE c.cmd = "break"
    BY <1>2, BreakKept DEF slaxDebugRunCommand
  <1>3. CASE c.cmd = "delete"
    BY <1>1, <1>3, DeleteKept DEF slaxDebugRunCommand
  <1>4. CASE c.cmd = "continue"
    BY <1>1, <1>4, ContinueKept DEF slaxDebugRunCommand
  <1>5. CASE c.cmd = "finish"
    BY <1>5, FinishKept DEF slaxDebugRunCommand
  <1>6. CASE c.cmd \in {"step", "over", "next"}
    BY <1>6, StepKept DEF slaxDebugRunCommand
  <1>7. CASE c.cmd \in {"reload", "run", "quit"}
    BY <1>1, <1>7, ReloadKept DEF slaxDebugRunCommand
  <1> QED
    BY <1>1, <1>2, <1>3, <1>4, <1>5, <1>6, <1>7

-----------------------------------------------------------------------------
(* The invariant *)

\* The open calls for which addFrame asked for a dropFrame.
Asking(cs) == {k \in DOMAIN cs : cs[k]}

Framed(d, cs) ==
    /\ d.depth = Len(d.stack)
    /\ Len(d.stack) = Cardinality(Asking(cs))
    /\ \A k \in DOMAIN d.stack : d.stack[k].depth = k - 1

Numbered(d) ==
    /\ d.bpnum <= MaxBreaks
    /\ \A b \in Elements(d.bps) : b.num \in 1 .. d.bpnum

\* What is referred to is in stylesheet g.
Within(d, g) ==
    /\ {d.inst, d.stopAt} \subseteq ScriptOf(g) \cup {NULL}
    /\ \A b \in Elements(d.bps) : b.inst \in ScriptOf(g) \cup {NULL}
    /\ \A k \in DOMAIN d.stack : d.stack[k].inst \in ScriptOf(g)

\* A breakpoint made for a named node is at that node, or nowhere if the
\* stylesheet has no such node; no two are at the same instruction.
Placed(d, g) ==
    /\ \A b \in Elements(d.bps) :
          b.where # 0 => b.inst = IF b.where \in Versions[g] THEN <<g, b.where>> ELSE NULL
    /\ \A b, c \in Elements(d.bps) : b.where # 0 /\ b.where = c.where => b = c
    /\ \A b, c \in Elements(d.bps) : b.inst # NULL /\ b.inst = c.inst => b = c

Sound(d, g, cs) ==
    /\ d \in DbgType
    /\ Framed(d, cs)
    /\ Numbered(d)
    /\ Within(d, g)
    /\ Placed(d, g)

StyleType == [cur : DOMAIN Versions, saved : Nat, freed : SUBSET Nat, buffer : BOOLEAN]

SharedInv ==
    /\ Sound(dbg, style.cur, calls)
    /\ style \in StyleType
    /\ pc \in {"prompt", "engine", "shell", "exited"}
    /\ calls \in Seq(BOOLEAN) /\ Len(calls) <= MaxFrames
    /\ pc \in {"prompt", "exited"} => calls = <<>>
    /\ RunningStatus

LEMMA NullOutside ==
    /\ NULL \in Refs
    /\ \A g \in DOMAIN Versions : NULL \notin ScriptOf(g) /\ 0 \notin Versions[g]
  <1>1. \A g \in DOMAIN Versions : 0 \notin Versions[g]
    BY ScriptAssumption
  <1> QED
    BY <1>1 DEF NULL, Refs, ScriptOf

LEMMA NoCalls == Asking(<<>>) = {} /\ Cardinality(Asking(<<>>)) = 0
  BY FS_EmptySet DEF Asking

LEMMA CountAppend ==
    ASSUME NEW cs \in Seq(BOOLEAN), NEW x \in BOOLEAN
    PROVE  /\ Cardinality(Asking(cs)) \in Nat /\ Cardinality(Asking(cs)) <= Len(cs)
           /\ x => Cardinality(Asking(Append(cs, x))) = Cardinality(Asking(cs)) + 1
           /\ ~x => Cardinality(Asking(Append(cs, x))) = Cardinality(Asking(cs))
  <1> DEFINE n == Len(cs) + 1
  <1>1. Len(cs) \in Nat /\ DOMAIN cs = 1 .. Len(cs)
    OBVIOUS
  <1>2. IsFiniteSet(1 .. Len(cs)) /\ Cardinality(1 .. Len(cs)) = Len(cs)
    <2>1. /\ IsFiniteSet(1 .. Len(cs))
          /\ Cardinality(1 .. Len(cs)) = IF 1 > Len(cs) THEN 0 ELSE Len(cs) - 1 + 1
      BY <1>1, FS_Interval
    <2> QED
      BY <1>1, <2>1
  <1>3. Asking(cs) \subseteq 1 .. Len(cs)
    BY <1>1 DEF Asking
  <1>4. /\ IsFiniteSet(Asking(cs)) /\ Cardinality(Asking(cs)) \in Nat
        /\ Cardinality(Asking(cs)) <= Len(cs)
    BY <1>2, <1>3, FS_Subset, FS_CardinalityType
  <1>5. /\ DOMAIN Append(cs, x) = (1 .. Len(cs)) \cup {n}
        /\ Append(cs, x)[n] = x
        /\ \A k \in 1 .. Len(cs) : Append(cs, x)[k] = cs[k]
    BY <1>1
  <1>6. Asking(Append(cs, x)) = IF x THEN Asking(cs) \cup {n} ELSE Asking(cs)
    BY <1>1, <1>5 DEF Asking
  <1>7. n \notin Asking(cs)
    BY <1>1, <1>3
  <1>8. Cardinality(Asking(cs) \cup {n}) = Cardinality(Asking(cs)) + 1
    BY <1>4, <1>7, FS_AddElement
  <1> QED
    BY <1>4, <1>6, <1>8

LEMMA CountFront ==
    ASSUME NEW cs \in Seq(BOOLEAN), cs # <<>>
    PROVE  /\ Front(cs) \in Seq(BOOLEAN) /\ Len(Front(cs)) = Len(cs) - 1
           /\ Last(cs) \in BOOLEAN
           /\ Cardinality(Asking(Front(cs))) \in Nat
           /\ Last(cs) => Cardinality(Asking(cs)) = Cardinality(Asking(Front(cs))) + 1
           /\ ~Last(cs) => Cardinality(Asking(cs)) = Cardinality(Asking(Front(cs)))
  <1>1. Front(cs) \in Seq(BOOLEAN) /\ Last(cs) \in BOOLEAN /\ Len(Front(cs)) = Len(cs) - 1
    <2>1. Len(cs) \in Nat \ {0} /\ cs \in [1 .. Len(cs) -> BOOLEAN]
      BY EmptySeq, LenProperties
    <2>2. Len(cs) \in 1 .. Len(cs) /\ Len(cs) - 1 \in 0 .. Len(cs)
      BY <2>1
    <2> QED
      BY <2>1, <2>2 DEF Front, Last
  <1>2. cs = Append(Front(cs), Last(cs))
    BY DEF Front, Last
  <1> QED
    BY <1>1, <1>2, CountAppend

\* Whatever writes only the control of the run, and forgets references at
\* most, leaves the state sound.
LEMMA ControlSound ==
    ASSUME NEW d, NEW e \in DbgType, NEW g \in DOMAIN Versions, NEW cs,
           Sound(d, g, cs),
           e.inst \in {d.inst, NULL}, e.stopAt \in {d.stopAt, NULL},
           e.stack = d.stack, e.depth = d.depth, e.bps = d.bps, e.bpnum = d.bpnum
    PROVE  Sound(e, g, cs)
  BY DEF Sound, Framed, Numbered, Within, Placed

LEMMA KeptSound ==
    ASSUME NEW d, NEW e, NEW g \in DOMAIN Versions, NEW c, NEW cs,
           Sound(d, g, cs), Kept(d, e, g, c), c.cmd = "break" => d.bpnum < MaxBreaks
    PROVE  Sound(e, g, cs)
  <1>1. d \in DbgType /\ e \in DbgType
    BY DEF Sound, Kept
  <1>2. /\ e.inst = d.inst /\ e.depth = d.depth /\ Len(e.stack) = Len(d.stack)
        /\ d.stack \in Seq(FrameType) /\ e.stack \in Seq(FrameType)
        /\ d.bpnum \in Nat /\ MaxBreaks \in Nat
    BY <1>1, DbgFields, ScriptAssumption DEF Kept, StackKept
  <1>3. DOMAIN e.stack = DOMAIN d.stack
    BY <1>2
  <1>4. Framed(e, cs)
    BY <1>2, <1>3 DEF Sound, Framed, Kept, StackKept
  <1>5. CASE Elements(e.bps) \subseteq Elements(d.bps)
             /\ (e.bpnum = d.bpnum \/ (e.bps = <<>> /\ e.bpnum = 0))
    <2>1. Numbered(e)
      <3>1. Elements(<<>>) = {}
        BY DEF Elements
      <3> QED
        BY <1>2, <1>5, <3>1 DEF Sound, Numbered
    <2>2. Within(e, g)
      BY <1>2, <1>3, <1>5 DEF Sound, Within, Kept, StackKept
    <2>3. Placed(e, g)
      BY <1>5 DEF Sound, Placed
    <2> QED
      BY <1>1, <1>4, <2>1, <2>2, <2>3 DEF Sound
  <1>6. ASSUME NEW b, NewBreak(d, b, g), c.cmd = "break",
               Elements(e.bps) = Elements(d.bps) \cup {b}, e.bpnum = d.bpnum + 1
        PROVE  Sound(e, g, cs)
    <2>1. /\ b.num = d.bpnum + 1 /\ b.inst # NULL /\ b.where \in Nat
          /\ b.inst = slaxDebugGetNode(d, g, b.where)
      BY <1>6 DEF NewBreak, BreakType
    <2>2. /\ b.inst \in ScriptOf(g) \cup {d.inst, NULL}
          /\ b.where # 0 => b.where \in Versions[g] /\ b.inst = <<g, b.where>>
      BY <1>1, <2>1, NodeFound
    <2>3. \A x \in Elements(d.bps) : x.inst # b.inst
      BY <1>6 DEF NewBreak, AtBreakpoint, Elements
    <2>4. \A x \in Elements(d.bps) : b.where # 0 => x.where # b.where
      BY <2>2, <2>3 DEF Sound, Placed
    <2>5. Numbered(e)
      BY <1>2, <1>6, <2>1 DEF Sound, Numbered
    <2>6. Within(e, g)
      BY <1>2, <1>3, <1>6, <2>2 DEF Sound, Within, Kept, StackKept
    <2>7. Placed(e, g)
      <3>1. \A x \in Elements(e.bps) :
               x.where # 0 => x.inst = IF x.where \in Versions[g] THEN <<g, x.where>> ELSE NULL
        BY <1>6, <2>2 DEF Sound, Placed
      <3>2. \A x, y \in Elements(e.bps) : x.where # 0 /\ x.where = y.where => x = y
        BY <1>6, <2>4 DEF Sound, Placed
      <3>3. \A x, y \in Elements(e.bps) : x.inst # NULL /\ x.inst = y.inst => x = y
        BY <1>6, <2>3 DEF Sound, Placed
      <3> QED
        BY <3>1, <3>2, <3>3 DEF Placed
    <2> QED
      BY <1>1, <1>4, <2>5, <2>6, <2>7 DEF Sound
  <1> QED
    BY <1>5, <1>6 DEF Kept, BreaksKept

-----------------------------------------------------------------------------
(* The steps *)

LEMMA LoopSound ==
    ASSUME NEW d, NEW g \in DOMAIN Versions, NEW cs, Sound(d, g, cs),
           d.status \notin Idle, HandlerLoop(d)
    PROVE  /\ Sound(dbg', g, cs)
           /\ dbg'.status \notin Idle /\ pc' \in {"engine", "shell"}
           /\ dbg'.inst = d.inst /\ dbg'.flags = d.flags /\ dbg'.stack = d.stack
           /\ d.status = "INIT" => pc' = "shell"
           /\ d.status = "QUIT" => pc' = "engine" /\ dbg'.status = "QUIT"
  <1>1. d \in DbgType
    BY DEF Sound
  <1>2. pc' = IF d.status = "INIT" THEN "shell" ELSE "engine"
    BY DEF HandlerLoop
  <1>3. CASE d.status = "STEP"
    <2>1. dbg' = [d EXCEPT !.status = "INIT", !.flags = d.flags, !.inst = d.inst,
                           !.last = d.last, !.stopAt = d.stopAt, !.ctxt = d.ctxt,
                           !.halted = d.halted]
      BY <1>1, <1>3 DEF HandlerLoop, DbgType
    <2>2. /\ dbg' \in DbgType
          /\ dbg'.status = "INIT" /\ dbg'.flags = d.flags /\ dbg'.inst = d.inst
          /\ dbg'.stopAt = d.stopAt
          /\ dbg'.stack = d.stack /\ dbg'.depth = d.depth /\ dbg'.bps = d.bps
          /\ dbg'.bpnum = d.bpnum
      BY <1>1, <2>1, StatusNames DEF DbgType
    <2>3. Sound(dbg', g, cs)
      BY <2>2, ControlSound
    <2> QED
      BY <1>2, <1>3, <2>2, <2>3, StatusNames
  <1>4. CASE d.status # "STEP"
    BY <1>2, <1>4 DEF HandlerLoop
  <1> QED
    BY <1>3, <1>4

\* The handler's own changes before it talks to the user or goes on.
LEMMA AtInstSound ==
    ASSUME NEW d, NEW g \in DOMAIN Versions, NEW cs, Sound(d, g, cs), NEW i \in ScriptOf(g)
    PROVE  LET e == AtInst(d, i)
           IN  /\ Sound(e, g, cs)
               /\ e.inst = i /\ e.status = d.status /\ e.stopAt = d.stopAt /\ e.bps = d.bps
               /\ e.flags = d.flags /\ e.stack = d.stack
  <1> DEFINE e == AtInst(d, i)
  <1>1. d \in DbgType /\ i \in Refs
    BY ScriptInsts DEF Sound, Refs
  <1>2. /\ e \in DbgType
        /\ e.inst = i /\ e.stopAt = d.stopAt /\ e.stack = d.stack /\ e.depth = d.depth
        /\ e.bps = d.bps /\ e.bpnum = d.bpnum /\ e.status = d.status /\ e.flags = d.flags
    BY <1>1 DEF AtInst, DbgType
  <1> HIDE DEF e
  <1>3. Sound(e, g, cs)
    BY <1>2 DEF Sound, Framed, Numbered, Within, Placed
  <1> QED
    BY <1>2, <1>3 DEF e

LEMMA AnnounceSound ==
    ASSUME NEW d, NEW g \in DOMAIN Versions, NEW cs, Sound(d, g, cs), NEW i,
           d.status \notin Idle
    PROVE  LET e == [slaxDebugAnnounceBreakpoint(d, i) EXCEPT !.flags = @ \ {"CONTINUE"}]
           IN  /\ Sound(e, g, cs)
               /\ e.inst = d.inst /\ e.status \notin Idle
               /\ AtStop(d, i) \/ AtBreakpoint(d, i) => e.status = "INIT"
  <1> DEFINE a == slaxDebugAnnounceBreakpoint(d, i)
             e == [a EXCEPT !.flags = @ \ {"CONTINUE"}]
             fl == d.flags \ {"CONTINUE"}
  <1>1. d \in DbgType /\ fl \in SUBSET Flags /\ NULL \in Refs
    BY NullOutside DEF Sound, DbgType
  <1>2. \/ /\ AtStop(d, i) \/ AtBreakpoint(d, i)
           /\ a \in {[d EXCEPT !.status = "INIT", !.stopAt = NULL],
                     [d EXCEPT !.status = "INIT"]}
        \/ ~(AtStop(d, i) \/ AtBreakpoint(d, i)) /\ a = d
    BY DEF slaxDebugAnnounceBreakpoint
  <1> HIDE DEF fl, a
  <1>3. a.flags = d.flags
    BY <1>1, <1>2 DEF DbgType
  <1>4. e = [a EXCEPT !.flags = fl]
    BY <1>3 DEF fl
  <1> HIDE DEF e
  <1>5. /\ e \in DbgType
        /\ e.inst = d.inst /\ e.stopAt \in {d.stopAt, NULL}
        /\ e.stack = d.stack /\ e.depth = d.depth /\ e.bps = d.bps /\ e.bpnum = d.bpnum
        /\ \/ e.status = "INIT"
           \/ ~(AtStop(d, i) \/ AtBreakpoint(d, i)) /\ e.status = d.status
    BY <1>1, <1>2, <1>4, StatusNames DEF DbgType
  <1>6. Sound(e, g, cs)
    BY <1>5, ControlSound
  <1> QED
    BY <1>5, <1>6, StatusNames DEF e, a

LEMMA ScriptIs == Script = ScriptOf(style.cur)
  BY DEF Script, ScriptOf

LEMMA HandlerShared ==
    ASSUME SharedInv, NEW i \in Insts, slaxDebugHandler(i)
    PROVE  SharedInv'
  <1> DEFINE g == style.cur
             d == AtInst(dbg, i)
             e == [slaxDebugAnnounceBreakpoint(d, i) EXCEPT !.flags = @ \ {"CONTINUE"}]
  <1>1. /\ pc = "engine" /\ i \in ScriptOf(g) /\ UNCHANGED <<calls, style>>
        /\ \/ dbg' = slaxDebugCmdContinue(d, style.cur, 0) /\ pc' = "engine"
           \/ HandlerLoop(e)
    BY ScriptIs DEF slaxDebugHandler
  <1>2. /\ g \in DOMAIN Versions /\ Sound(dbg, g, calls) /\ dbg.status \notin Idle
    BY <1>1 DEF SharedInv, StyleType, RunningStatus, Idle
  <1>3. Sound(d, g, calls) /\ d.status = dbg.status
    BY <1>1, <1>2, AtInstSound
  <1> HIDE DEF d
  <1>4. d \in DbgType
    BY <1>3 DEF Sound
  <1>5. CASE dbg' = slaxDebugCmdContinue(d, style.cur, 0) /\ pc' = "engine"
    <2> DEFINE c == [cmd |-> "continue"]
    <2>1. Kept(d, dbg', g, c)
      BY <1>2, <1>4, <1>5, ContinueKept
    <2>2. c.cmd # "break"
      OBVIOUS
    <2> HIDE DEF c
    <2>3. Sound(dbg', g, calls) /\ dbg'.status \notin Idle
      BY <1>2, <1>3, <2>1, <2>2, KeptSound DEF Kept
    <2> QED
      BY <1>1, <1>5, <2>3 DEF SharedInv, RunningStatus, Idle
  <1>6. CASE HandlerLoop(e)
    <2>1. Sound(e, g, calls) /\ e.status \notin Idle
      BY <1>2, <1>3, AnnounceSound
    <2> HIDE DEF e
    <2>2. Sound(dbg', g, calls) /\ dbg'.status \notin Idle /\ pc' \in {"engine", "shell"}
      BY <1>2, <1>6, <2>1, LoopSound
    <2> QED
      BY <1>1, <2>2 DEF SharedInv, RunningStatus, Idle
  <1> QED
    BY <1>1, <1>5, <1>6

\* addFrame: a frame for the call, on top of those that there are.
LEMMA PushSound ==
    ASSUME NEW d, NEW g \in DOMAIN Versions, NEW cs \in Seq(BOOLEAN), Sound(d, g, cs),
           NEW i \in ScriptOf(g)
    PROVE  LET e == Pushed(d, i)
           IN  /\ Sound(e, g, Append(cs, TRUE))
               /\ d.status \notin Idle => e.status \notin Idle
               /\ "OVER" \notin d.flags =>
                     e.status = d.status /\ e.flags = d.flags
                     /\ ((\A k \in DOMAIN d.stack : ~d.stack[k].stop)
                           => \A k \in DOMAIN e.stack : ~e.stack[k].stop)
  <1> DEFINE over == "OVER" \in d.flags /\ Kind[i[2]] # "param"
             f == [inst |-> i, depth |-> d.depth, stop |-> over]
             st == Append(d.stack, f)
             dep == d.depth + 1
             s == IF over THEN "CONT" ELSE d.status
             fl == IF over THEN d.flags \ {"OVER"} ELSE d.flags
             e == Pushed(d, i)
  <1>1. /\ d \in DbgType /\ d.depth \in Nat /\ d.stack \in Seq(FrameType)
        /\ d.depth = Len(d.stack) /\ i \in Insts
    BY DbgFields, ScriptInsts DEF Sound, Framed
  <1>2. f \in FrameType
    BY <1>1 DEF FrameType
  <1>3. /\ st \in Seq(FrameType) /\ Len(st) = Len(d.stack) + 1
        /\ DOMAIN st = DOMAIN d.stack \cup {Len(d.stack) + 1}
        /\ st[Len(d.stack) + 1] = f
        /\ \A k \in DOMAIN d.stack : st[k] = d.stack[k]
    BY <1>1, <1>2
  <1>4. f.inst = i /\ f.depth = d.depth /\ f.stop = over
    OBVIOUS
  <1>5. dep \in Nat /\ s \in Statuses /\ fl \in SUBSET Flags
    BY <1>1, DbgFields, StatusNames
  <1>6. e = [d EXCEPT !.depth = dep, !.stack = st, !.status = s, !.flags = fl]
    BY <1>1 DEF Pushed, DbgType
  <1>7. "OVER" \notin d.flags => s = d.status /\ fl = d.flags /\ ~over
    OBVIOUS
  <1>8. d.status \notin Idle => s \notin Idle
    BY StatusNames
  <1> HIDE DEF s, fl, st, f, over, e
  <1>9. /\ e \in DbgType /\ e.status = s /\ e.flags = fl /\ e.stack = st /\ e.depth = dep
        /\ e.inst = d.inst /\ e.stopAt = d.stopAt /\ e.bps = d.bps /\ e.bpnum = d.bpnum
    BY <1>1, <1>3, <1>5, <1>6 DEF DbgType
  <1>10. Framed(e, Append(cs, TRUE))
    <2>1. Cardinality(Asking(Append(cs, TRUE))) = Cardinality(Asking(cs)) + 1
      BY CountAppend
    <2>2. /\ Len(d.stack) = Cardinality(Asking(cs)) /\ Len(d.stack) \in Nat
          /\ \A k \in DOMAIN d.stack : d.stack[k].depth = k - 1
      BY <1>1 DEF Sound, Framed
    <2>3. \A k \in DOMAIN st : st[k].depth = k - 1
      BY <1>1, <1>3, <1>4, <2>2
    <2> QED
      BY <1>1, <1>3, <1>9, <2>1, <2>2, <2>3 DEF Framed
  <1>11. Numbered(e) /\ Placed(e, g)
    BY <1>9 DEF Sound, Numbered, Placed
  <1>12. Within(e, g)
    BY <1>3, <1>4, <1>9 DEF Sound, Within
  <1> QED
    BY <1>3, <1>4, <1>7, <1>8, <1>9, <1>10, <1>11, <1>12 DEF Sound, e

LEMMA AddFrameShared ==
    ASSUME SharedInv, NEW i \in Insts, slaxDebugAddFrame(i)
    PROVE  SharedInv'
  <1> DEFINE g == style.cur
             inner == InnerAdd(dbg, i)
  <1>1. /\ pc = "engine" /\ pc' = pc /\ i \in ScriptOf(g) /\ UNCHANGED style
        /\ Len(calls) < MaxFrames /\ MaxFrames \in Nat
        /\ dbg' = IF inner THEN dbg ELSE Pushed(dbg, i)
        /\ calls' = Append(calls, ~inner)
    BY ScriptIs, ScriptAssumption DEF slaxDebugAddFrame
  <1>2. /\ g \in DOMAIN Versions /\ Sound(dbg, g, calls) /\ dbg.status \notin Idle
        /\ calls \in Seq(BOOLEAN)
    BY <1>1 DEF SharedInv, StyleType, RunningStatus, Idle
  <1>3. inner \in BOOLEAN
    BY DEF InnerAdd
  <1> HIDE DEF inner
  <1>4. calls' \in Seq(BOOLEAN) /\ Len(calls') <= MaxFrames
    BY <1>1, <1>2, <1>3
  <1>5. Sound(dbg', g, calls') /\ dbg'.status \notin Idle
    <2>1. CASE inner
      <3> DEFINE x == ~inner
      <3>1. x \in BOOLEAN /\ ~x /\ calls' = Append(calls, x)
        BY <1>1, <1>3, <2>1
      <3> HIDE DEF x
      <3>2. Cardinality(Asking(calls')) = Cardinality(Asking(calls))
        BY <1>2, <3>1, CountAppend
      <3> QED
        BY <1>1, <1>2, <2>1, <3>2 DEF Sound, Framed
    <2>2. CASE ~inner
      <3>1. calls' = Append(calls, TRUE) /\ dbg' = Pushed(dbg, i)
        BY <1>1, <1>3, <2>2
      <3> QED
        BY <1>1, <1>2, <3>1, PushSound
    <2> QED
      BY <2>1, <2>2
  <1> QED
    BY <1>1, <1>4, <1>5 DEF SharedInv, RunningStatus, Idle

\* dropFrame: the frame on top goes, and the depth with it.
LEMMA PopSound ==
    ASSUME NEW d, NEW g \in DOMAIN Versions, NEW cs \in Seq(BOOLEAN), cs # <<>>,
           Sound(d, g, cs), Last(cs)
    PROVE  LET e == Popped(d)
           IN  /\ Sound(e, g, Front(cs))
               /\ d.status \notin Idle => e.status \notin Idle
               /\ (\A k \in DOMAIN d.stack : ~d.stack[k].stop)
                     => /\ e.status = d.status
                        /\ e.flags = d.flags
                        /\ \A k \in DOMAIN e.stack : ~e.stack[k].stop
  <1> DEFINE st == Front(d.stack)
             dep == d.depth - 1
             stop == Last(d.stack).stop
             s == IF stop THEN "INIT" ELSE d.status
             e == Popped(d)
  <1>1. /\ d \in DbgType /\ d.depth \in Nat /\ d.stack \in Seq(FrameType)
        /\ d.depth = Len(d.stack) /\ Len(d.stack) = Cardinality(Asking(cs))
    BY DbgFields DEF Sound, Framed
  <1>2. /\ Cardinality(Asking(Front(cs))) \in Nat
        /\ Cardinality(Asking(cs)) = Cardinality(Asking(Front(cs))) + 1
    BY CountFront
  <1>3. Len(d.stack) \in Nat \ {0} /\ d.stack # <<>> /\ DOMAIN d.stack = 1 .. Len(d.stack)
    BY <1>1, <1>2
  <1>4. /\ st \in Seq(FrameType) /\ Len(st) = Len(d.stack) - 1
        /\ DOMAIN st = 1 .. (Len(d.stack) - 1)
        /\ \A k \in 1 .. (Len(d.stack) - 1) : st[k] = d.stack[k]
    BY <1>1, <1>3 DEF Front
  <1>5. /\ DOMAIN st \subseteq DOMAIN d.stack
        /\ \A k \in DOMAIN st : st[k] = d.stack[k]
    <2>1. 1 .. (Len(d.stack) - 1) \subseteq 1 .. Len(d.stack)
      BY <1>3
    <2> HIDE DEF st
    <2> QED
      BY <1>3, <1>4, <2>1
  <1>6. dep \in Nat /\ s \in Statuses /\ FALSE \in BOOLEAN
    BY <1>1, <1>3, DbgFields, StatusNames
  <1>7. e = [d EXCEPT !.status = s, !.stack = st, !.depth = dep, !.last = FALSE]
    BY <1>1, <1>3 DEF Popped, DbgType
  <1>8. d.status \notin Idle => s \notin Idle
    BY StatusNames
  <1>9. (\A k \in DOMAIN d.stack : ~d.stack[k].stop) => s = d.status
    BY <1>3 DEF Last
  <1> HIDE DEF s, st, e, stop
  <1>10. /\ e \in DbgType /\ e.status = s /\ e.stack = st /\ e.depth = dep
         /\ e.flags = d.flags
         /\ e.inst = d.inst /\ e.stopAt = d.stopAt /\ e.bps = d.bps /\ e.bpnum = d.bpnum
    BY <1>1, <1>4, <1>6, <1>7 DEF DbgType
  <1>11. Framed(e, Front(cs))
    BY <1>1, <1>2, <1>4, <1>5, <1>10 DEF Sound, Framed
  <1>12. Numbered(e) /\ Placed(e, g)
    BY <1>10 DEF Sound, Numbered, Placed
  <1>13. Within(e, g)
    BY <1>5, <1>10 DEF Sound, Within
  <1> QED
    BY <1>5, <1>8, <1>9, <1>10, <1>11, <1>12, <1>13 DEF Sound, e

LEMMA DropFrameShared ==
    ASSUME SharedInv, slaxDebugDropFrame
    PROVE  SharedInv'
  <1> DEFINE g == style.cur
  <1>1. /\ pc = "engine" /\ pc' = pc /\ UNCHANGED style /\ calls # <<>>
        /\ dbg' = IF Last(calls) THEN Popped(dbg) ELSE dbg
        /\ calls' = Front(calls)
    BY DEF slaxDebugDropFrame
  <1>2. /\ g \in DOMAIN Versions /\ Sound(dbg, g, calls) /\ dbg.status \notin Idle
        /\ calls \in Seq(BOOLEAN) /\ Len(calls) <= MaxFrames /\ MaxFrames \in Nat
    BY <1>1, ScriptAssumption DEF SharedInv, StyleType, RunningStatus, Idle
  <1>3. /\ calls' \in Seq(BOOLEAN) /\ Len(calls') <= MaxFrames
        /\ Last(calls) \in BOOLEAN
        /\ ~Last(calls) => Cardinality(Asking(calls)) = Cardinality(Asking(Front(calls)))
    BY <1>1, <1>2, CountFront
  <1>4. Sound(dbg', g, calls') /\ dbg'.status \notin Idle
    <2>1. CASE ~Last(calls)
      BY <1>1, <1>2, <1>3, <2>1 DEF Sound, Framed
    <2>2. CASE Last(calls)
      <3>1. dbg' = Popped(dbg)
        BY <1>1, <2>2
      <3> QED
        BY <1>1, <1>2, <2>2, <3>1, PopSound
    <2> QED
      BY <2>1, <2>2
  <1> QED
    BY <1>1, <1>3, <1>4 DEF SharedInv, RunningStatus, Idle

\* The loop of the handler, with what the shell notes before it.
LEMMA LastSound ==
    ASSUME NEW d, NEW g \in DOMAIN Versions, NEW cs, Sound(d, g, cs), NEW l \in BOOLEAN
    PROVE  /\ Sound([d EXCEPT !.last = l], g, cs)
           /\ [d EXCEPT !.last = l].status = d.status
           /\ [d EXCEPT !.last = l].inst = d.inst
           /\ [d EXCEPT !.last = l].flags = d.flags
           /\ [d EXCEPT !.last = l].stack = d.stack
  <1> DEFINE e == [d EXCEPT !.last = l]
  <1>1. d \in DbgType
    BY DEF Sound
  <1>2. /\ e \in DbgType /\ e.inst = d.inst /\ e.stopAt = d.stopAt /\ e.status = d.status
        /\ e.stack = d.stack /\ e.depth = d.depth /\ e.bps = d.bps /\ e.bpnum = d.bpnum
        /\ e.flags = d.flags
    BY <1>1 DEF DbgType
  <1> HIDE DEF e
  <1>3. Sound(e, g, cs)
    BY <1>2, ControlSound
  <1> QED
    BY <1>2, <1>3 DEF e

LEMMA ShellShared ==
    ASSUME SharedInv, NEW c \in Commands, slaxDebugShell(c)
    PROVE  SharedInv'
  <1> DEFINE g == style.cur
             d == slaxDebugRunCommand(dbg, style.cur, c)
             l == d.inst # NULL
             e == [d EXCEPT !.last = l]
  <1>1. /\ pc = "shell" /\ UNCHANGED <<calls, style>> /\ HandlerLoop(e)
        /\ c.cmd = "break" => dbg.bpnum < MaxBreaks
    BY DEF slaxDebugShell
  <1>2. /\ g \in DOMAIN Versions /\ Sound(dbg, g, calls) /\ dbg.status \notin Idle
    BY <1>1 DEF SharedInv, StyleType, RunningStatus, Idle
  <1>3. Kept(dbg, d, g, c)
    BY <1>2, CommandKept DEF Sound
  <1> HIDE DEF d
  <1>4. Sound(d, g, calls) /\ d.status \notin Idle
    BY <1>1, <1>2, <1>3, KeptSound DEF Kept
  <1>5. l \in BOOLEAN
    OBVIOUS
  <1> HIDE DEF l
  <1>6. Sound(e, g, calls) /\ e.status \notin Idle
    BY <1>2, <1>4, <1>5, LastSound
  <1> HIDE DEF e
  <1>7. Sound(dbg', g, calls) /\ dbg'.status \notin Idle /\ pc' \in {"engine", "shell"}
    BY <1>1, <1>2, <1>6, LoopSound
  <1> QED
    BY <1>1, <1>7 DEF SharedInv, RunningStatus, Idle

LEMMA ShellEofShared ==
    ASSUME SharedInv, ShellEof
    PROVE  SharedInv'
  <1>1. /\ pc = "shell" /\ pc' = "engine" /\ UNCHANGED <<calls, style>>
        /\ dbg' = [dbg EXCEPT !.status = "QUIT"]
    BY DEF ShellEof
  <1>2. style.cur \in DOMAIN Versions /\ Sound(dbg, style.cur, calls) /\ dbg \in DbgType
    BY DEF SharedInv, StyleType, Sound
  <1>3. /\ dbg' \in DbgType /\ dbg'.status = "QUIT"
        /\ dbg'.inst = dbg.inst /\ dbg'.stopAt = dbg.stopAt
        /\ dbg'.stack = dbg.stack /\ dbg'.depth = dbg.depth /\ dbg'.bps = dbg.bps
        /\ dbg'.bpnum = dbg.bpnum
    BY <1>1, <1>2, StatusNames DEF DbgType
  <1>4. Sound(dbg', style.cur, calls)
    BY <1>2, <1>3, ControlSound
  <1> QED
    BY <1>1, <1>3, <1>4 DEF SharedInv, RunningStatus

\* Between runs nothing is on the stack.
LEMMA EmptyStack ==
    ASSUME NEW d, NEW g, Sound(d, g, <<>>)
    PROVE  d \in DbgType /\ d.stack = <<>> /\ d.depth = 0
  <1>1. d \in DbgType /\ d.stack \in Seq(FrameType) /\ Len(d.stack) = 0 /\ d.depth = 0
    BY NoCalls, DbgFields DEF Sound, Framed
  <1> QED
    BY <1>1, EmptySeq

\* A stylesheet in the place of the old: nothing refers to the old any more.
LEMMA ReplacedSound ==
    ASSUME NEW d, NEW g, Sound(d, g, <<>>), NEW h \in DOMAIN Versions
    PROVE  Sound(Replaced(d, h), h, <<>>)
  <1> DEFINE x == slaxDebugSetStylesheet(slaxDebugClearStacktrace(d))
             new(k) == [x.bps[k] EXCEPT !.inst = slaxDebugGetNode(x, h, x.bps[k].where)]
             bps == [k \in DOMAIN x.bps |-> new(k)]
             e == Replaced(d, h)
  <1>1. d \in DbgType /\ d.stack = <<>> /\ d.depth = 0
    BY EmptyStack
  <1>2. /\ x \in DbgType /\ x.inst = NULL /\ x.stopAt = NULL /\ x.stack = <<>>
        /\ x.bps = d.bps /\ x.bpnum = d.bpnum /\ x.depth = 0
    <2>1. <<>> \in Seq(FrameType) /\ NULL \in Refs /\ FALSE \in BOOLEAN
      BY NullOutside
    <2> QED
      BY <1>1, <2>1 DEF slaxDebugSetStylesheet, slaxDebugClearStacktrace, DbgType
  <1>3. e = [x EXCEPT !.bps = bps, !.status = "NONE"]
    BY <1>2 DEF Replaced, slaxDebugReloadBreakpoints, DbgType
  <1> HIDE DEF x, e
  <1>4. /\ x.bps \in Seq(BreakType) /\ DOMAIN x.bps = 1 .. Len(x.bps)
        /\ \A k \in DOMAIN x.bps : x.bps[k] \in BreakType
    BY <1>2, DbgFields
  <1>5. ASSUME NEW k \in DOMAIN x.bps
        PROVE  /\ new(k) \in BreakType
               /\ new(k).num = x.bps[k].num /\ new(k).where = x.bps[k].where
               /\ new(k).inst \in ScriptOf(h) \cup {NULL}
               /\ new(k).where # 0 => new(k).inst = IF new(k).where \in Versions[h]
                                                    THEN <<h, new(k).where>> ELSE NULL
               /\ new(k).where = 0 => new(k).inst = NULL
    <2> DEFINE node == slaxDebugGetNode(x, h, x.bps[k].where)
    <2>1. x.bps[k] \in BreakType /\ x.bps[k].where \in Nat
      BY <1>4 DEF BreakType
    <2>2. /\ node \in Refs /\ node \in ScriptOf(h) \cup {NULL}
          /\ x.bps[k].where # 0 => node = IF x.bps[k].where \in Versions[h]
                                          THEN <<h, x.bps[k].where>> ELSE NULL
      BY <1>2, <2>1, NodeFound
    <2>3. x.bps[k].where = 0 => node = NULL
      BY <1>2, NullOutside DEF slaxDebugGetNode
    <2> HIDE DEF node
    <2>4. /\ new(k) \in BreakType /\ new(k).inst = node
          /\ new(k).num = x.bps[k].num /\ new(k).where = x.bps[k].where
      BY <2>1, <2>2 DEF BreakType, node
    <2> HIDE DEF new
    <2> QED
      BY <2>2, <2>3, <2>4
  <1> HIDE DEF new
  <1>6. bps \in Seq(BreakType) /\ DOMAIN bps = DOMAIN x.bps
    <2>1. bps = [k \in 1 .. Len(x.bps) |-> new(k)] /\ Len(x.bps) \in Nat
      BY <1>4
    <2>2. \A k \in 1 .. Len(x.bps) : new(k) \in BreakType
      BY <1>4, <1>5
    <2> HIDE DEF bps
    <2> QED
      BY <1>4, <2>1, <2>2
  <1>7. \A b \in Elements(bps) : \E k \in DOMAIN x.bps : b = new(k)
    BY DEF Elements
  <1> HIDE DEF bps
  <1>8. /\ e \in DbgType /\ e.bps = bps /\ e.bpnum = d.bpnum
        /\ e.inst = NULL /\ e.stopAt = NULL /\ e.stack = <<>> /\ e.depth = 0
    BY <1>2, <1>3, <1>6, StatusNames DEF DbgType
  <1>9. Framed(e, <<>>)
    BY <1>8, NoCalls DEF Framed
  <1>10. Numbered(e)
    <2>1. \A k \in DOMAIN x.bps : x.bps[k].num \in 1 .. d.bpnum
      BY <1>2 DEF Sound, Numbered, Elements
    <2> QED
      BY <1>5, <1>7, <1>8, <2>1 DEF Sound, Numbered
  <1>11. Within(e, h)
    <2>1. \A b \in Elements(bps) : b.inst \in ScriptOf(h) \cup {NULL}
      BY <1>5, <1>7
    <2>2. DOMAIN <<>> = {}
      OBVIOUS
    <2> QED
      BY <1>8, <2>1, <2>2 DEF Within
  <1>12. Placed(e, h)
    <2>1. \A k, j \in DOMAIN x.bps :
             x.bps[k].where # 0 /\ x.bps[k].where = x.bps[j].where => x.bps[k] = x.bps[j]
      BY <1>2 DEF Sound, Placed, Elements
    <2>2. \A k, j \in DOMAIN x.bps :
             new(k).where # 0 /\ new(k).where = new(j).where => new(k) = new(j)
      BY <1>5, <2>1 DEF new
    <2>3. ASSUME NEW k \in DOMAIN x.bps, NEW j \in DOMAIN x.bps,
                 new(k).inst # NULL, new(k).inst = new(j).inst
          PROVE  new(k) = new(j)
      <3>1. new(k).where # 0 /\ new(j).where # 0
        BY <1>5, <2>3
      <3>2. new(k).inst = <<h, new(k).where>> /\ new(j).inst = <<h, new(j).where>>
        BY <1>5, <2>3, <3>1
      <3>3. <<h, new(k).where>> = <<h, new(j).where>>
        BY <2>3, <3>2
      <3>4. new(k).where = new(j).where
        BY <3>3
      <3> QED
        BY <2>2, <3>1, <3>4
    <2> QED
      BY <1>5, <1>7, <1>8, <2>2, <2>3 DEF Placed
  <1>13. Sound(e, h, <<>>)
    BY <1>8, <1>9, <1>10, <1>11, <1>12 DEF Sound
  <1> QED
    BY <1>13 DEF e

\* What the main loop is left with when no run is on: the invariant, without
\* the status.
Between(d) ==
    /\ Sound(d, style.cur, <<>>)
    /\ style \in StyleType
    /\ calls = <<>> /\ calls' = <<>>

LEMMA NoCallsType == <<>> \in Seq(BOOLEAN) /\ Len(<<>>) = 0 /\ 0 <= MaxFrames
  BY ScriptAssumption

LEMMA RestartShared ==
    ASSUME NEW d, Between(d), Restart(d)
    PROVE  SharedInv'
  <1> DEFINE g == style.cur
             fl == d.flags \ {"RESTART", "CONTINUE"}
             s == IF "CONTINUE" \in d.flags THEN "CONT" ELSE "INIT"
  <1>1. /\ dbg' = [d EXCEPT !.flags = fl, !.status = s, !.halted = FALSE]
        /\ pc' = "engine" /\ UNCHANGED style
    BY DEF Restart
  <1>2. d \in DbgType /\ fl \in SUBSET Flags /\ s \in Statuses /\ s \notin Idle
        /\ g \in DOMAIN Versions
    BY StatusNames DEF Between, Sound, DbgType, StyleType
  <1> HIDE DEF fl, s
  <1>3. /\ dbg' \in DbgType /\ dbg'.status = s
        /\ dbg'.inst = d.inst /\ dbg'.stopAt = d.stopAt
        /\ dbg'.stack = d.stack /\ dbg'.depth = d.depth /\ dbg'.bps = d.bps
        /\ dbg'.bpnum = d.bpnum
    <2>1. FALSE \in BOOLEAN
      OBVIOUS
    <2> QED
      BY <1>1, <1>2, <2>1 DEF DbgType
  <1>4. Sound(dbg', g, <<>>)
    BY <1>2, <1>3, ControlSound DEF Between
  <1> QED
    BY <1>1, <1>2, <1>3, <1>4, NoCallsType DEF Between, SharedInv, RunningStatus, Idle

LEMMA ReloadShared ==
    ASSUME NEW d, Between(d), Reload(d)
    PROVE  SharedInv'
  <1> DEFINE fl == d.flags \ {"RELOAD"}
             e == [d EXCEPT !.flags = fl, !.status = "NONE"]
             freed == style.freed \union ({style.saved} \ {0})
  <1>1. d \in DbgType /\ fl \in SUBSET Flags /\ style.cur \in DOMAIN Versions
    BY DEF Between, Sound, DbgType, StyleType
  <1>2. /\ e \in DbgType /\ e.inst = d.inst /\ e.stopAt = d.stopAt /\ e.stack = d.stack
        /\ e.depth = d.depth /\ e.bps = d.bps /\ e.bpnum = d.bpnum
    <2> HIDE DEF fl
    <2> QED
      BY <1>1, StatusNames DEF DbgType
  <1>3. freed \in SUBSET Nat
    BY DEF Between, StyleType
  <1>4. /\ pc' = "prompt"
        /\ \/ dbg' = Replaced(e, style.cur) /\ style' = style
           \/ /\ style.cur < Len(Versions) /\ dbg' = Replaced(e, style.cur + 1)
              /\ style' = [style EXCEPT !.cur = style.cur + 1, !.saved = style.cur + 1,
                                        !.freed = freed]
           \/ dbg' = e /\ style' = [style EXCEPT !.saved = 0, !.freed = freed]
    BY DEF Reload
  <1> HIDE DEF e, freed
  <1>5. Sound(e, style.cur, <<>>)
    BY <1>1, <1>2, ControlSound DEF Between
  <1>6. Sound(dbg', style'.cur, <<>>) /\ style' \in StyleType
    <2>1. CASE dbg' = Replaced(e, style.cur) /\ style' = style
      BY <1>1, <1>5, <2>1, ReplacedSound DEF Between
    <2>2. CASE /\ style.cur < Len(Versions) /\ dbg' = Replaced(e, style.cur + 1)
               /\ style' = [style EXCEPT !.cur = style.cur + 1, !.saved = style.cur + 1,
                                         !.freed = freed]
      <3>1. style.cur + 1 \in DOMAIN Versions /\ style.cur + 1 \in Nat
        BY <1>1, <2>2, ScriptAssumption
      <3> DEFINE h == style.cur + 1
      <3>2. h \in DOMAIN Versions /\ h \in Nat /\ dbg' = Replaced(e, h)
            /\ style' = [style EXCEPT !.cur = h, !.saved = h, !.freed = freed]
        BY <2>2, <3>1
      <3> HIDE DEF h
      <3>3. style'.cur = h /\ style' \in StyleType
        BY <1>3, <3>2 DEF Between, StyleType
      <3> QED
        BY <1>5, <3>2, <3>3, ReplacedSound
    <2>3. CASE dbg' = e /\ style' = [style EXCEPT !.saved = 0, !.freed = freed]
      <3>1. style'.cur = style.cur /\ style' \in StyleType
        BY <1>3, <2>3 DEF Between, StyleType
      <3> QED
        BY <1>5, <2>3, <3>1
    <2> QED
      BY <1>4, <2>1, <2>2, <2>3
  <1> QED
    BY <1>4, <1>6, NoCallsType DEF Between, SharedInv, RunningStatus

LEMMA ExitShared ==
    ASSUME NEW d, Between(d), Exit(d)
    PROVE  SharedInv'
  <1>1. /\ dbg' = slaxDebugClearStacktrace(slaxDebugClearBreakpoints(d))
        /\ pc' = "exited"
        /\ style' = [style EXCEPT !.saved = 0,
                                  !.freed = style.freed \union ({style.saved} \ {0})]
    BY DEF Exit
  <1>2. d \in DbgType /\ d.depth = 0 /\ d.stack = <<>>
    BY EmptyStack DEF Between
  <1>3. /\ dbg' \in DbgType /\ dbg'.inst = d.inst /\ dbg'.stopAt = d.stopAt
        /\ dbg'.bps = <<>> /\ dbg'.bpnum = 0 /\ dbg'.stack = d.stack /\ dbg'.depth = 0
    <2>1. <<>> \in Seq(FrameType) /\ <<>> \in Seq(BreakType) /\ 0 \in Nat
      OBVIOUS
    <2> QED
      BY <1>1, <1>2, <2>1 DEF slaxDebugClearStacktrace, slaxDebugClearBreakpoints, DbgType
  <1>4. style' \in StyleType /\ style'.cur = style.cur
    <2> DEFINE freed == style.freed \union ({style.saved} \ {0})
    <2>1. freed \in SUBSET Nat /\ style' = [style EXCEPT !.saved = 0, !.freed = freed]
      BY <1>1 DEF Between, StyleType
    <2> HIDE DEF freed
    <2> QED
      BY <2>1 DEF Between, StyleType
  <1>5. Elements(<<>>) = {}
    BY DEF Elements
  <1>6. Numbered(dbg') /\ Placed(dbg', style.cur)
    BY <1>3, <1>5, ScriptAssumption DEF Numbered, Placed
  <1>7. Framed(dbg', <<>>) /\ Within(dbg', style.cur)
    BY <1>2, <1>3, <1>5 DEF Between, Sound, Framed, Within
  <1>8. Sound(dbg', style.cur, <<>>)
    BY <1>3, <1>6, <1>7 DEF Sound
  <1> QED
    BY <1>1, <1>4, <1>8, NoCallsType DEF Between, SharedInv, RunningStatus

LEMMA PromptShared ==
    ASSUME SharedInv, NEW c \in Commands, Prompt(c)
    PROVE  SharedInv'
  <1> DEFINE d == slaxDebugRunCommand(dbg, style.cur, c)
  <1>1. /\ pc = "prompt" /\ UNCHANGED calls
        /\ c.cmd = "break" => dbg.bpnum < MaxBreaks
        /\ \/ Restart(d) \/ Reload(d) \/ Exit(d)
           \/ dbg' = d /\ UNCHANGED <<pc, style>>
    BY DEF Prompt
  <1>2. /\ style.cur \in DOMAIN Versions /\ Sound(dbg, style.cur, calls) /\ calls = <<>>
        /\ style \in StyleType
    BY <1>1 DEF SharedInv, StyleType
  <1>3. Kept(dbg, d, style.cur, c)
    BY <1>2, CommandKept DEF Sound
  <1> HIDE DEF d
  <1>4. Sound(d, style.cur, calls)
    BY <1>1, <1>2, <1>3, KeptSound
  <1>5. Between(d)
    BY <1>1, <1>2, <1>4 DEF Between
  <1>6. CASE dbg' = d /\ UNCHANGED <<pc, style>>
    BY <1>1, <1>4, <1>6 DEF SharedInv, RunningStatus
  <1> QED
    BY <1>1, <1>5, <1>6, RestartShared, ReloadShared, ExitShared

LEMMA RunEndsShared ==
    ASSUME SharedInv, RunEnds
    PROVE  SharedInv'
  <1> DEFINE ct == IF dbg.ctxt = "live" THEN "freed" ELSE dbg.ctxt
             d == [dbg EXCEPT !.ctxt = ct, !.halted = FALSE]
             done == [slaxDebugSetStylesheet(d) EXCEPT !.ctxt = "null", !.status = "DONE"]
  <1>1. /\ pc = "engine" /\ calls = <<>> /\ UNCHANGED calls
        /\ \/ Reload(d) \/ Restart(slaxDebugClearStacktrace(d)) \/ Exit(d)
           \/ dbg' = done /\ pc' = "prompt" /\ UNCHANGED style
    BY DEF RunEnds
  <1>2. /\ style.cur \in DOMAIN Versions /\ Sound(dbg, style.cur, <<>>)
        /\ style \in StyleType /\ dbg \in DbgType
    BY <1>1 DEF SharedInv, StyleType, Sound
  <1>3. ct \in {"null", "live", "freed"} /\ FALSE \in BOOLEAN /\ NULL \in Refs
    BY <1>2, DbgFields, NullOutside
  <1> HIDE DEF ct
  <1>4. /\ d \in DbgType /\ d.inst = dbg.inst /\ d.stopAt = dbg.stopAt
        /\ d.stack = dbg.stack /\ d.depth = dbg.depth /\ d.bps = dbg.bps
        /\ d.bpnum = dbg.bpnum
    BY <1>2, <1>3 DEF DbgType
  <1> HIDE DEF d
  <1>5. Sound(d, style.cur, <<>>)
    BY <1>2, <1>4, ControlSound
  <1>6. d.stack = <<>>
    BY <1>5, EmptyStack
  <1>7. slaxDebugClearStacktrace(d) = d
    BY <1>4, <1>6 DEF slaxDebugClearStacktrace, DbgType
  <1>8. Between(d)
    BY <1>1, <1>2, <1>5 DEF Between
  <1>9. /\ done \in DbgType /\ done.inst = NULL /\ done.stopAt = NULL
        /\ done.stack = d.stack /\ done.depth = d.depth /\ done.bps = d.bps
        /\ done.bpnum = d.bpnum
    BY <1>3, <1>4, StatusNames DEF slaxDebugSetStylesheet, DbgType
  <1> HIDE DEF done
  <1>10. CASE dbg' = done /\ pc' = "prompt" /\ UNCHANGED style
    <2>1. Sound(dbg', style.cur, <<>>)
      BY <1>2, <1>5, <1>9, <1>10, ControlSound
    <2> QED
      BY <1>1, <1>2, <1>10, <2>1, NoCallsType DEF SharedInv, RunningStatus
  <1> QED
    BY <1>1, <1>7, <1>8, <1>10, RestartShared, ReloadShared, ExitShared

LEMMA SharedNext == ASSUME SharedInv, [Next]_vars PROVE SharedInv'
  <1>1. CASE PromptEof
    <2>1. Exit(dbg) /\ pc = "prompt" /\ UNCHANGED calls
      BY <1>1 DEF PromptEof
    <2>2. Between(dbg)
      BY <2>1 DEF SharedInv, Between
    <2> QED
      BY <2>1, <2>2, ExitShared
  <1>2. CASE UNCHANGED vars
    BY <1>2 DEF vars, SharedInv, RunningStatus
  <1> QED
    BY <1>1, <1>2, PromptShared, ShellShared, ShellEofShared, HandlerShared,
       AddFrameShared, DropFrameShared, RunEndsShared
    DEF Next

LEMMA SharedInit == Init => SharedInv
  <1> SUFFICES ASSUME Init PROVE SharedInv
    OBVIOUS
  <1>1. dbg = [status |-> "NONE", flags |-> {}, inst |-> NULL, last |-> FALSE,
               stopAt |-> NULL, depth |-> 0, stack |-> <<>>, bps |-> <<>>, bpnum |-> 0,
               ctxt |-> "null", halted |-> FALSE]
    BY DEF Init
  <1>2. /\ dbg \in DbgType /\ dbg.stack = <<>> /\ dbg.bps = <<>> /\ dbg.depth = 0
        /\ dbg.bpnum = 0 /\ dbg.inst = NULL /\ dbg.stopAt = NULL
    <2>1. <<>> \in Seq(FrameType) /\ <<>> \in Seq(BreakType) /\ {} \in SUBSET Flags
      OBVIOUS
    <2> QED
      BY <1>1, <2>1, NullOutside, StatusNames DEF DbgType
  <1>3. Elements(<<>>) = {} /\ DOMAIN <<>> = {} /\ Len(<<>>) = 0
    BY DEF Elements
  <1>4. /\ Framed(dbg, <<>>) /\ Numbered(dbg)
        /\ Within(dbg, style.cur) /\ Placed(dbg, style.cur)
    BY <1>2, <1>3, NoCalls, ScriptAssumption DEF Framed, Numbered, Within, Placed
  <1>5. style \in StyleType
    <2>1. 1 \in DOMAIN Versions /\ 0 \in Nat /\ {} \in SUBSET Nat
      BY ScriptAssumption, EmptySeq
    <2> QED
      BY <2>1 DEF Init, StyleType
  <1> QED
    BY <1>2, <1>4, <1>5, NoCallsType DEF Init, SharedInv, Sound, RunningStatus

LEMMA SharedAlways == Spec => []SharedInv
  BY SharedInit, SharedNext, PTL DEF Spec

LEMMA SharedImplies == SharedInv => StateShared
  <1> SUFFICES ASSUME SharedInv PROVE StateShared
    OBVIOUS
  <1>1. /\ dbg \in DbgType /\ calls \in Seq(BOOLEAN) /\ Len(calls) <= MaxFrames
        /\ MaxFrames \in Nat /\ MaxBreaks \in Nat /\ Len(calls) \in Nat
        /\ Framed(dbg, calls) /\ Numbered(dbg)
    BY ScriptAssumption DEF SharedInv, Sound
  <1>2. Cardinality(Asking(calls)) \in Nat /\ Cardinality(Asking(calls)) <= Len(calls)
    BY <1>1, CountAppend
  <1>3. FramesMatch
    BY <1>1 DEF FramesMatch, Framed, Asking
  <1>4. \A k \in DOMAIN dbg.bps : dbg.bps[k].inst \in Refs /\ dbg.bps[k].num \in 1..dbg.bpnum
    <2>1. \A k \in DOMAIN dbg.bps : dbg.bps[k] \in BreakType
      BY <1>1, DbgFields
    <2> QED
      BY <1>1, <2>1 DEF BreakType, Numbered, Elements
  <1>5. dbg.depth \in 0 .. MaxFrames /\ dbg.bpnum \in 0 .. MaxBreaks
    BY <1>1, <1>2, DbgFields DEF Framed, Numbered
  <1>6. TypeOK
    BY <1>1, <1>4, <1>5, DbgFields DEF TypeOK, SharedInv
  <1> QED
    BY <1>3, <1>6 DEF StateShared, SharedInv

\* The callbacks of the engine, the commands of the user and the main loop
\* agree on what they share, whichever wrote it last: the debugger's stack is
\* that of the engine's calls, and while a script runs the status is one that
\* the loop of slaxDebugHandler can leave; for every script and any nesting.
THEOREM StateAlwaysShared == Spec => []StateShared
  BY SharedAlways, SharedImplies, PTL

-----------------------------------------------------------------------------
(* References *)

\* Stylesheets that were freed are older than the one that runs, and the one
\* that the next reload will free is that one, unless it is the first.
FreedInv ==
    /\ style.saved = 0 \/ (style.saved = style.cur /\ style.cur > 1)
    /\ pc # "exited" => \A g \in style.freed : g < style.cur

LEMMA StyleReload ==
    ASSUME ReloadFails \subseteq {1}, FreedInv, style \in StyleType,
           pc # "exited", NEW d, Reload(d)
    PROVE  FreedInv'
  <1>1. style.cur \in Nat \ {0} /\ style.saved \in Nat /\ style.freed \in SUBSET Nat
    BY ScriptAssumption DEF StyleType
  <1> DEFINE freed == style.freed \union ({style.saved} \ {0})
  <1>2. \A g \in freed : g <= style.cur /\ (style.cur = 1 => g < style.cur)
    BY <1>1 DEF FreedInv
  <1>3. \/ style' = style
        \/ style' = [style EXCEPT !.cur = @ + 1, !.saved = style.cur + 1, !.freed = freed]
        \/ /\ style.cur = 1
           /\ style' = [style EXCEPT !.saved = 0, !.freed = freed]
    BY DEF Reload
  <1>4. \A g \in freed : g \in Nat
    BY <1>1
  <1> HIDE DEF freed
  <1>5. \/ style' = style
        \/ style'.cur = style.cur + 1 /\ style'.saved = style.cur + 1 /\ style'.freed = freed
        \/ style.cur = 1 /\ style'.cur = 1 /\ style'.saved = 0 /\ style'.freed = freed
    BY <1>3 DEF StyleType
  <1> QED
    BY <1>1, <1>2, <1>4, <1>5 DEF FreedInv

LEMMA StyleExit ==
    ASSUME FreedInv, style \in StyleType, NEW d, Exit(d)
    PROVE  FreedInv'
  BY DEF Exit, FreedInv, StyleType

LEMMA FreedNext ==
    ASSUME ReloadFails \subseteq {1}, SharedInv, FreedInv, [Next]_vars
    PROVE  FreedInv'
  <1>1. style \in StyleType
    BY DEF SharedInv
  <1>2. CASE UNCHANGED style /\ pc' \in {pc, "engine", "shell", "prompt"} /\ pc # "exited"
    BY <1>2 DEF FreedInv
  <1>3. ASSUME NEW d, Restart(d), pc # "exited"
        PROVE  FreedInv'
    BY <1>2, <1>3 DEF Restart
  <1>4. ASSUME NEW c \in Commands, Prompt(c)
        PROVE  FreedInv'
    <2> DEFINE d == slaxDebugRunCommand(dbg, style.cur, c)
    <2>1. pc = "prompt" /\ (Restart(d) \/ Reload(d) \/ Exit(d) \/ UNCHANGED <<pc, style>>)
      BY <1>4 DEF Prompt
    <2> HIDE DEF d
    <2> QED
      BY <1>1, <1>2, <1>3, <2>1, StyleReload, StyleExit
  <1>5. CASE RunEnds
    <2> DEFINE d == [dbg EXCEPT !.ctxt = IF @ = "live" THEN "freed" ELSE @, !.halted = FALSE]
               f == slaxDebugClearStacktrace(d)
    <2>1. /\ pc = "engine"
          /\ \/ Reload(d) \/ Restart(f) \/ Exit(d)
             \/ pc' = "prompt" /\ UNCHANGED style
      BY <1>5 DEF RunEnds
    <2> HIDE DEF d, f
    <2> QED
      BY <1>1, <1>2, <1>3, <2>1, StyleReload, StyleExit
  <1>6. ASSUME NEW c \in Commands, slaxDebugShell(c)
        PROVE  FreedInv'
    BY <1>2, <1>6 DEF slaxDebugShell, HandlerLoop
  <1>7. CASE ShellEof
    BY <1>2, <1>7 DEF ShellEof
  <1>8. ASSUME NEW i \in Insts, slaxDebugHandler(i)
        PROVE  FreedInv'
    BY <1>2, <1>8 DEF slaxDebugHandler, HandlerLoop
  <1>9. ASSUME NEW i \in Insts, slaxDebugAddFrame(i)
        PROVE  FreedInv'
    BY <1>2, <1>9 DEF slaxDebugAddFrame
  <1>10. CASE slaxDebugDropFrame
    BY <1>2, <1>10 DEF slaxDebugDropFrame
  <1>11. CASE PromptEof
    BY <1>1, <1>11, StyleExit DEF PromptEof
  <1>12. CASE UNCHANGED vars
    BY <1>12 DEF vars, FreedInv
  <1> QED
    BY <1>4, <1>5, <1>6, <1>7, <1>8, <1>9, <1>10, <1>11, <1>12 DEF Next

LEMMA NothingLeft == SharedInv /\ FreedInv => NoDangling
  <1> SUFFICES ASSUME SharedInv, FreedInv, pc # "exited"
               PROVE  /\ style.cur \notin style.freed
                      /\ {dbg.inst, dbg.stopAt} \subseteq (Script \union {NULL})
                      /\ \A k \in DOMAIN dbg.bps : dbg.bps[k].inst \in Script \union {NULL}
                      /\ \A k \in DOMAIN dbg.stack : dbg.stack[k].inst \in Script
    BY DEF NoDangling
  <1>1. style.cur \in Nat
    BY ScriptAssumption DEF SharedInv, StyleType
  <1>2. style.cur \notin style.freed
    BY <1>1 DEF FreedInv
  <1>3. Within(dbg, style.cur)
    BY DEF SharedInv, Sound
  <1> QED
    BY <1>2, <1>3, ScriptIs DEF Within, Elements

\* After any number of runs, reloads and breakpoints, nothing that the debugger
\* still uses is in a stylesheet that a reload has freed, if no reload fails
\* but, perhaps, the first: a failed one after one that succeeded leaves
\* slaxDebugApplyStylesheet with a stylesheet it has freed.
THEOREM NothingDangles ==
    ASSUME ReloadFails \subseteq {1}
    PROVE  Spec => []NoDangling
  <1>1. Init => FreedInv
    BY DEF Init, FreedInv
  <1>2. SharedInv /\ FreedInv /\ [Next]_vars => FreedInv'
    BY FreedNext
  <1> QED
    BY <1>1, <1>2, SharedAlways, NothingLeft, PTL DEF Spec

-----------------------------------------------------------------------------
(* Requests *)

\* A run that only waits for the engine to come back: nothing that the
\* callbacks can still meet takes the status away from QUIT.
Quitting(d) ==
    /\ d.status = "QUIT"
    /\ d.flags \cap {"OVER", "RELOAD"} = {}
    /\ \A k \in DOMAIN d.stack : ~d.stack[k].stop

Pending == asked.what # "none" /\ ~asked.marked

HonourInv == Pending => pc = "engine" /\ Quitting(dbg)

\* A confirmed quit or run leaves the stack as it is and no flag that brings
\* the shell back.
LEMMA QuitOrRun ==
    ASSUME NEW d \in DbgType, NEW g, NEW c, c.cmd \in {"quit", "run"}, c.yes,
           d.flags \cap {"OVER", "RELOAD"} = {},
           \A k \in DOMAIN d.stack : ~d.stack[k].stop
    PROVE  Quitting(slaxDebugRunCommand(d, g, c))
  <1> DEFINE e == slaxDebugRunCommand(d, g, c)
  <1>1. PICK h \in BOOLEAN : StopEngine(d) = [d EXCEPT !.halted = h]
    BY StopFields
  <1>2. StopEngine(d).flags = d.flags /\ StopEngine(d).stack = d.stack
    BY <1>1 DEF DbgType
  <1>3. \/ e = [StopEngine(d) EXCEPT !.status = "QUIT"]
        \/ e = [StopEngine(d) EXCEPT !.status = "QUIT",
                                     !.flags = d.flags \cup {"RESTART", "CONTINUE"}]
    BY <1>2 DEF slaxDebugRunCommand, slaxDebugCmdQuit, slaxDebugCmdRun
  <1>4. /\ e.status = "QUIT" /\ e.stack = d.stack
        /\ e.flags \in {d.flags, d.flags \cup {"RESTART", "CONTINUE"}}
    <2> HIDE DEF e
    <2> QED
      BY <1>1, <1>2, <1>3 DEF DbgType
  <1> HIDE DEF e
  <1> QED
    BY <1>4 DEF Quitting, e

LEMMA RequestOnce ==
    ASSUME NEW d, NEW c, ~Pending, asked' = Request(d, c), Pending'
    PROVE  /\ c.cmd \in {"quit", "run"} /\ c.yes
           /\ d.flags \cap {"OVER", "RELOAD"} = {}
           /\ \A k \in DOMAIN d.stack : ~d.stack[k].stop
  BY DEF Request, Pending

LEMMA Forgotten == asked' = NoRequest => HonourInv'
  BY DEF NoRequest, HonourInv, Pending

LEMMA HonourShell ==
    ASSUME SharedInv, HonourInv, NEW c \in Commands, slaxDebugShell(c)
    PROVE  HonourInv'
  <1> DEFINE g == style.cur
             d == slaxDebugRunCommand(dbg, style.cur, c)
             l == d.inst # NULL
             e == [d EXCEPT !.last = l]
  <1>1. /\ pc = "shell" /\ HandlerLoop(e) /\ asked' = Request(dbg, c)
        /\ c.cmd = "break" => dbg.bpnum < MaxBreaks
    BY DEF slaxDebugShell
  <1> SUFFICES ASSUME Pending' PROVE pc' = "engine" /\ Quitting(dbg')
    BY DEF HonourInv, Quitting
  <1>2. /\ c.cmd \in {"quit", "run"} /\ c.yes
        /\ dbg.flags \cap {"OVER", "RELOAD"} = {}
        /\ \A k \in DOMAIN dbg.stack : ~dbg.stack[k].stop
    BY <1>1, RequestOnce DEF HonourInv
  <1>3. g \in DOMAIN Versions /\ Sound(dbg, g, calls) /\ dbg \in DbgType
    BY DEF SharedInv, StyleType, Sound
  <1>4. Quitting(d) /\ Kept(dbg, d, g, c)
    BY <1>2, <1>3, QuitOrRun, CommandKept
  <1>5. l \in BOOLEAN
    OBVIOUS
  <1> HIDE DEF d, l
  <1>6. Sound(d, g, calls)
    BY <1>1, <1>3, <1>4, KeptSound
  <1>7. Sound(e, g, calls) /\ e.status = d.status /\ e.flags = d.flags /\ e.stack = d.stack
    BY <1>3, <1>5, <1>6, LastSound
  <1> HIDE DEF e
  <1>8. e.status = "QUIT" /\ e.status \notin Idle
    BY <1>4, <1>7, StatusNames DEF Quitting
  <1> QED
    BY <1>1, <1>3, <1>4, <1>7, <1>8, LoopSound DEF Quitting

LEMMA HonourEof ==
    ASSUME SharedInv, HonourInv, ShellEof
    PROVE  HonourInv'
  <1> DEFINE c == [cmd |-> "quit", yes |-> TRUE]
  <1>1. /\ pc = "shell" /\ pc' = "engine" /\ asked' = Request(dbg, c)
        /\ dbg' = [dbg EXCEPT !.status = "QUIT"] /\ dbg \in DbgType
    BY DEF ShellEof, SharedInv, Sound
  <1>2. dbg'.status = "QUIT" /\ dbg'.flags = dbg.flags /\ dbg'.stack = dbg.stack
    BY <1>1 DEF DbgType
  <1> HIDE DEF c
  <1> SUFFICES ASSUME Pending' PROVE Quitting(dbg')
    BY <1>1 DEF HonourInv, Quitting
  <1>3. /\ dbg.flags \cap {"OVER", "RELOAD"} = {}
        /\ \A k \in DOMAIN dbg.stack : ~dbg.stack[k].stop
    BY <1>1, RequestOnce DEF HonourInv
  <1> QED
    BY <1>2, <1>3 DEF Quitting

LEMMA HonourFrames ==
    ASSUME SharedInv, HonourInv,
           (\E i \in Insts : slaxDebugAddFrame(i)) \/ slaxDebugDropFrame
    PROVE  HonourInv'
  <1>1. /\ UNCHANGED <<pc, asked>>
        /\ \/ dbg' = dbg
           \/ \E i \in Script : dbg' = Pushed(dbg, i)
           \/ calls # <<>> /\ Last(calls) /\ dbg' = Popped(dbg)
    BY DEF slaxDebugAddFrame, slaxDebugDropFrame
  <1>2. /\ style.cur \in DOMAIN Versions /\ Sound(dbg, style.cur, calls)
        /\ calls \in Seq(BOOLEAN)
    BY DEF SharedInv, StyleType
  <1> SUFFICES ASSUME Pending PROVE Quitting(dbg')
    BY <1>1 DEF HonourInv, Pending, Quitting
  <1>3. Quitting(dbg)
    BY DEF HonourInv
  <1>4. ASSUME NEW i \in Script, dbg' = Pushed(dbg, i)
        PROVE  Quitting(dbg')
    <2>1. i \in ScriptOf(style.cur)
      BY ScriptIs
    <2> QED
      BY <1>2, <1>3, <1>4, <2>1, PushSound DEF Quitting
  <1>5. CASE calls # <<>> /\ Last(calls) /\ dbg' = Popped(dbg)
    BY <1>2, <1>3, <1>5, PopSound DEF Quitting
  <1> QED
    BY <1>1, <1>3, <1>4, <1>5

LEMMA HonourNext ==
    ASSUME SharedInv, HonourInv, [Next]_vars
    PROVE  HonourInv'
  <1>1. ASSUME NEW c \in Commands, Prompt(c)
        PROVE  HonourInv'
    BY <1>1, Forgotten DEF Prompt, Restart, Reload, Exit
  <1>2. CASE PromptEof
    BY <1>2, Forgotten DEF PromptEof, Exit
  <1>3. ASSUME NEW i \in Insts, slaxDebugHandler(i)
        PROVE  HonourInv'
    BY <1>3 DEF slaxDebugHandler, Skips, HonourInv, Pending, Quitting
  <1>4. CASE RunEnds
    <2>1. CASE asked' = NoRequest
      BY <2>1, Forgotten
    <2>2. CASE asked' = asked /\ dbg.status # "QUIT"
      BY <2>2 DEF HonourInv, Pending, Quitting
    <2> QED
      BY <1>4, <2>1, <2>2 DEF RunEnds, Restart, Reload, Exit
  <1>5. CASE UNCHANGED vars
    BY <1>5 DEF vars, HonourInv, Pending, Quitting
  <1> QED
    BY <1>1, <1>2, <1>3, <1>4, <1>5, HonourShell, HonourEof, HonourFrames DEF Next

\* Once the user has confirmed a quit or a run, with no frame marked to stop
\* and no other request pending, neither the shell nor the prompt is seen again
\* until that run is over, whatever callbacks the engine still makes.
THEOREM RequestsAlwaysHonoured == Spec => []RequestsHonoured
  <1>1. Init => HonourInv
    BY DEF Init, NoRequest, HonourInv, Pending
  <1>2. SharedInv /\ HonourInv /\ [Next]_vars => HonourInv'
    BY HonourNext
  <1>3. HonourInv => RequestsHonoured
    BY DEF HonourInv, Pending, RequestsHonoured
  <1> QED
    BY <1>1, <1>2, <1>3, SharedAlways, PTL DEF Spec

-----------------------------------------------------------------------------
(* Stops *)

\* Only the handler moves the current instruction.
LEMMA InstKept ==
    ASSUME SharedInv, [Next]_vars, pc = "engine", dbg'.inst \notin {dbg.inst, NULL}
    PROVE  \E i \in Insts : slaxDebugHandler(i)
  <1>1. dbg \in DbgType
    BY DEF SharedInv, Sound
  <1>2. CASE UNCHANGED vars
    BY <1>2 DEF vars
  <1>3. ASSUME NEW i \in Insts, slaxDebugAddFrame(i)
        PROVE  dbg'.inst = dbg.inst
    BY <1>1, <1>3 DEF slaxDebugAddFrame, Pushed, DbgType
  <1>4. CASE slaxDebugDropFrame
    BY <1>1, <1>4 DEF slaxDebugDropFrame, Popped, DbgType
  <1>5. CASE RunEnds
    <2> DEFINE ct == IF dbg.ctxt = "live" THEN "freed" ELSE dbg.ctxt
               d == [dbg EXCEPT !.ctxt = ct, !.halted = FALSE]
               e == [d EXCEPT !.flags = d.flags \ {"RELOAD"}, !.status = "NONE"]
    <2>1. /\ d.inst = dbg.inst /\ e.inst = dbg.inst
          /\ slaxDebugClearStacktrace(d).inst = dbg.inst
          /\ [slaxDebugSetStylesheet(d) EXCEPT !.ctxt = "null", !.status = "DONE"].inst = NULL
      BY <1>1 DEF DbgType, slaxDebugClearStacktrace, slaxDebugSetStylesheet
    <2>2. \/ Reload(d) \/ Restart(slaxDebugClearStacktrace(d)) \/ Exit(d)
          \/ dbg' = [slaxDebugSetStylesheet(d) EXCEPT !.ctxt = "null", !.status = "DONE"]
      BY <1>5 DEF RunEnds
    <2>3. d \in DbgType /\ e \in DbgType
      <3>1. ct \in {"null", "live", "freed"} /\ FALSE \in BOOLEAN
        BY <1>1, DbgFields
      <3> HIDE DEF ct
      <3>2. d \in DbgType
        BY <1>1, <3>1 DEF DbgType
      <3> HIDE DEF d
      <3> QED
        BY <3>2, StatusNames DEF DbgType
    <2>4. ASSUME NEW h PROVE Replaced(e, h).inst = NULL
      <3> HIDE DEF e
      <3> QED
        BY <2>3 DEF Replaced, slaxDebugReloadBreakpoints, slaxDebugSetStylesheet,
                    slaxDebugClearStacktrace, DbgType
    <2>5. CASE Reload(d)
      <3>1. dbg' \in {Replaced(e, style.cur), Replaced(e, style.cur + 1), e}
        BY <2>5 DEF Reload
      <3> QED
        BY <2>1, <2>4, <3>1
    <2>6. CASE Restart(slaxDebugClearStacktrace(d)) \/ Exit(d)
      <3> HIDE DEF d
      <3> QED
        BY <2>1, <2>3, <2>6 DEF Restart, Exit, slaxDebugClearStacktrace,
                                 slaxDebugClearBreakpoints, DbgType
    <2> QED
      BY <2>1, <2>2, <2>5, <2>6
  <1> QED
    BY <1>2, <1>3, <1>4, <1>5 DEF Next, Prompt, PromptEof, slaxDebugShell, ShellEof

LEMMA HandlerStops ==
    ASSUME SharedInv, NEW i \in Insts, slaxDebugHandler(i),
           \/ dbg.stopAt = i
           \/ \E k \in DOMAIN dbg.bps : dbg.bps[k].inst = i /\ ~dbg.bps[k].cond
    PROVE  pc' = "shell"
  <1> DEFINE g == style.cur
             d == AtInst(dbg, i)
             found == slaxDebugFindBreakpoint(d, i)
             e == [slaxDebugAnnounceBreakpoint(d, i) EXCEPT !.flags = @ \ {"CONTINUE"}]
  <1>1. /\ pc = "engine" /\ i \in ScriptOf(g)
        /\ \/ found # {} /\ d.bps[Min(found)].cond
           \/ HandlerLoop(e)
    BY ScriptIs DEF slaxDebugHandler
  <1>2. /\ g \in DOMAIN Versions /\ Sound(dbg, g, calls) /\ dbg.status \notin Idle
    BY <1>1 DEF SharedInv, StyleType, RunningStatus, Idle
  <1>3. /\ Sound(d, g, calls) /\ d.status = dbg.status /\ d.stopAt = dbg.stopAt
        /\ d.bps = dbg.bps /\ i # NULL
    BY <1>1, <1>2, AtInstSound, NullOutside
  <1> HIDE DEF d
  <1>4. AtStop(d, i) \/ AtBreakpoint(d, i)
    BY <1>3 DEF AtStop, AtBreakpoint
  <1>5. ~(found # {} /\ d.bps[Min(found)].cond)
    <2> SUFFICES ASSUME found # {}, d.bps[Min(found)].cond PROVE FALSE
      OBVIOUS
    <2>1. found = {k \in DOMAIN d.bps : d.bps[k].inst = i} /\ ~AtStop(d, i)
      BY DEF slaxDebugFindBreakpoint
    <2>2. PICK k \in found : ~d.bps[k].cond
      BY <1>3, <2>1 DEF AtStop
    <2>3. Min(found) \in found
      <3>1. found \in SUBSET Nat
        BY <1>3, <2>1, DbgFields DEF Sound
      <3>2. \E x \in found : \A y \in found : x <= y
        BY <3>1, LeastNatural
      <3> HIDE DEF found
      <3> QED
        BY <3>2 DEF Min
    <2>4. d.bps[Min(found)] = d.bps[k]
      <3> DEFINE m == Min(found)
      <3>1. m \in DOMAIN d.bps /\ k \in DOMAIN d.bps
            /\ d.bps[m].inst = i /\ d.bps[k].inst = i
        BY <2>1, <2>2, <2>3
      <3> HIDE DEF m
      <3>2. d.bps[m] = d.bps[k]
        BY <1>3, <3>1 DEF Sound, Placed, Elements
      <3> QED
        BY <3>2 DEF m
    <2> QED
      BY <2>2, <2>4
  <1>6. Sound(e, g, calls) /\ e.status = "INIT" /\ e.status \notin Idle
    BY <1>2, <1>3, <1>4, AnnounceSound
  <1> HIDE DEF e, found
  <1> QED
    BY <1>1, <1>2, <1>5, <1>6, LoopSound

LEMMA HandlerMoves ==
    ASSUME SharedInv, NEW i \in Insts, slaxDebugHandler(i)
    PROVE  dbg'.inst = i
  <1> DEFINE g == style.cur
             d == AtInst(dbg, i)
             e == [slaxDebugAnnounceBreakpoint(d, i) EXCEPT !.flags = @ \ {"CONTINUE"}]
  <1>1. /\ pc = "engine" /\ i \in ScriptOf(g)
        /\ dbg' = slaxDebugCmdContinue(d, style.cur, 0) \/ HandlerLoop(e)
    BY ScriptIs DEF slaxDebugHandler
  <1>2. g \in DOMAIN Versions /\ Sound(dbg, g, calls) /\ dbg.status \notin Idle
    BY <1>1 DEF SharedInv, StyleType, RunningStatus, Idle
  <1>3. Sound(d, g, calls) /\ d.status = dbg.status /\ d.inst = i /\ d \in DbgType
    BY <1>1, <1>2, AtInstSound DEF Sound
  <1> HIDE DEF d
  <1>4. CASE dbg' = slaxDebugCmdContinue(d, style.cur, 0)
    <2>1. \A c : Kept(d, dbg', g, c)
      BY <1>2, <1>3, <1>4, ContinueKept
    <2> QED
      BY <1>3, <2>1 DEF Kept
  <1>5. CASE HandlerLoop(e)
    <2>1. Sound(e, g, calls) /\ e.status \notin Idle /\ e.inst = d.inst
      BY <1>2, <1>3, AnnounceSound
    <2> HIDE DEF e
    <2> QED
      BY <1>2, <1>3, <1>5, <2>1, LoopSound
  <1> QED
    BY <1>1, <1>4, <1>5

\* The engine gets past no instruction with an unconditional breakpoint, or the
\* one named in "continue", without the shell, however the run got there and
\* whatever other breakpoints there are.
THEOREM EveryStopTaken == Spec => StopsWhereAsked
  <1> DEFINE Stop == (/\ pc = "engine"
                      /\ dbg'.inst \notin {dbg.inst, NULL}
                      /\ \/ dbg.stopAt = dbg'.inst
                         \/ \E k \in DOMAIN dbg.bps :
                               dbg.bps[k].inst = dbg'.inst /\ ~dbg.bps[k].cond)
                     => pc' = "shell"
  <1>1. SharedInv /\ [Next]_vars => Stop
    <2> SUFFICES ASSUME SharedInv, [Next]_vars, pc = "engine",
                        dbg'.inst \notin {dbg.inst, NULL},
                        \/ dbg.stopAt = dbg'.inst
                        \/ \E k \in DOMAIN dbg.bps :
                              dbg.bps[k].inst = dbg'.inst /\ ~dbg.bps[k].cond
                 PROVE  pc' = "shell"
      OBVIOUS
    <2>1. PICK i \in Insts : slaxDebugHandler(i)
      BY InstKept
    <2>2. dbg'.inst = i
      BY <2>1, HandlerMoves
    <2> QED
      BY <2>1, <2>2, HandlerStops
  <1> HIDE DEF Stop
  <1>2. Spec => [][Stop]_vars
    BY <1>1, SharedAlways, PTL DEF Spec
  <1> QED
    BY <1>2 DEF StopsWhereAsked, Stop

-----------------------------------------------------------------------------
(* Totals *)

Lines == 0 .. LastLine

SumsUp(f, g) == g = [l \in Lines |-> IF l = 0 THEN f[0] ELSE g[l - 1] + f[l]]

LEMMA TimedConstants ==
    /\ LastLine \in Nat /\ Profiler!Lines = Lines /\ 0 \in Lines /\ LastLine \in Lines
    /\ \A i \in Timed : i.line \in Nat /\ i.own \in BOOLEAN
  BY RunningAssumption DEF Profiler!ProfilerAssumption, Profiler!Lines, Lines

LEMMA SumsExist ==
    ASSUME NEW f \in [Lines -> Nat]
    PROVE  \E g \in [Lines -> Nat] : SumsUp(f, g)
  <1> DEFINE F == [x \in Nat \X Nat |-> IF x[1] \in Lines THEN x[2] + f[x[1]] ELSE 0]
             p == [n \in Nat \ {0} |-> n - 1]
  <1>1. F \in [Nat \X Nat -> Nat] /\ \A n \in Lines, v \in Nat : F[<<n, v>>] = v + f[n]
    BY TimedConstants DEF Lines
  <1>2. p \in [Nat \ {0} -> Nat] /\ \A n \in Nat \ {0} : p[n] = n - 1 /\ p[n] < n
    OBVIOUS
  <1>3. f[0] \in Nat
    BY TimedConstants
  <1> HIDE DEF F, p
  <1>4. Recursion(Nat, p, f[0], F)
    BY <1>1, <1>2, <1>3 DEF Recursion
  <1>5. PICK h \in [Nat -> Nat] :
           h[0] = f[0] /\ \A n \in Nat \ {0} : h[n] = F[<<n, h[p[n]]>>]
    BY <1>4, RecursionExists
  <1> DEFINE g == [l \in Lines |-> h[l]]
  <1>6. g \in [Lines -> Nat] /\ \A l \in Lines : g[l] = h[l]
    BY <1>5 DEF Lines
  <1> HIDE DEF g
  <1>7. ASSUME NEW l \in Lines PROVE g[l] = IF l = 0 THEN f[0] ELSE g[l - 1] + f[l]
    <2>1. CASE l = 0
      BY <1>5, <1>6, <2>1
    <2>2. CASE l # 0
      <3>1. l \in Nat \ {0} /\ l - 1 \in Lines /\ l - 1 \in Nat /\ p[l] = l - 1
        BY <1>2, <2>2, TimedConstants DEF Lines
      <3>2. h[l] = F[<<l, h[l - 1]>>] /\ h[l - 1] \in Nat
        BY <1>5, <3>1
      <3> QED
        BY <1>1, <1>6, <2>2, <3>1, <3>2
    <2> QED
      BY <2>1, <2>2
  <1>8. SumsUp(f, g)
    <2>1. g = [l \in Lines |-> g[l]]
      BY <1>6
    <2> QED
      BY <1>7, <2>1 DEF SumsUp
  <1> QED
    BY <1>6, <1>8

\* The numbers up to n are all in a set that has 0 and with l - 1 has l.
LEMMA LineInduction ==
    ASSUME NEW T, 0 \in T, \A l \in Lines \ {0} : l - 1 \in T => l \in T
    PROVE  Lines \subseteq T
  <1> DEFINE U == {n \in Nat : n \in Lines => n \in T}
  <1>1. 0 \in U
    OBVIOUS
  <1>2. \A n \in Nat : n \in U => n + 1 \in U
    <2> SUFFICES ASSUME NEW n \in Nat, n \in U, n + 1 \in Lines PROVE n + 1 \in T
      OBVIOUS
    <2>1. n \in Lines /\ (n + 1) - 1 = n /\ n + 1 # 0
      BY TimedConstants DEF Lines
    <2> QED
      BY <2>1
  <1> HIDE DEF U
  <1>3. Nat \subseteq U
    BY <1>1, <1>2, SetInduction
  <1> QED
    BY <1>3, TimedConstants DEF U, Lines

\* Total is the last of the sums, which the recursion determines.
LEMMA TotalIsSum ==
    ASSUME NEW f \in [Lines -> Nat], NEW g, SumsUp(f, g)
    PROVE  Profiler!Total(f) = g[LastLine]
  <1> DEFINE upTo == CHOOSE h : SumsUp(f, h)
             T == {l \in Lines : upTo[l] = g[l]}
  <1>1. Profiler!Total(f) = upTo[LastLine]
    BY TimedConstants DEF Profiler!Total, SumsUp
  <1>2. SumsUp(f, upTo)
    OBVIOUS
  <1> HIDE DEF upTo
  <1>3. 0 \in T
    BY <1>2, TimedConstants DEF SumsUp
  <1>4. \A l \in Lines \ {0} : l - 1 \in T => l \in T
    BY <1>2 DEF SumsUp
  <1> HIDE DEF T
  <1>5. Lines \subseteq T
    BY <1>3, <1>4, LineInduction
  <1> QED
    BY <1>1, <1>5, TimedConstants DEF T

LEMMA TotalOfNothing == Profiler!Total([l \in Lines |-> 0]) = 0
  <1> DEFINE f == [l \in Lines |-> 0]
  <1>1. f \in [Lines -> Nat] /\ \A l \in Lines : f[l] = 0
    OBVIOUS
  <1>2. \A l \in Lines \ {0} : l - 1 \in Lines
    BY TimedConstants DEF Lines
  <1>3. SumsUp(f, f)
    <2>1. \A l \in Lines : f[l] = IF l = 0 THEN f[0] ELSE f[l - 1] + f[l]
      BY <1>1, <1>2, TimedConstants
    <2>2. f = [l \in Lines |-> f[l]]
      BY <1>1
    <2> HIDE DEF f
    <2> QED
      BY <2>1, <2>2 DEF SumsUp
  <1> HIDE DEF f
  <1>4. Profiler!Total(f) = f[LastLine]
    BY <1>1, <1>3, TotalIsSum
  <1> QED
    BY <1>1, <1>4, TimedConstants DEF f

LEMMA TotalType ==
    ASSUME NEW f \in [Lines -> Nat]
    PROVE  Profiler!Total(f) \in Nat
  BY SumsExist, TotalIsSum, TimedConstants

\* A line that is charged n more makes n more in all.
LEMMA TotalCharged ==
    ASSUME NEW f \in [Lines -> Nat], NEW k \in Lines, NEW n \in Nat
    PROVE  Profiler!Total([f EXCEPT ![k] = @ + n]) = Profiler!Total(f) + n
  <1> DEFINE e == [f EXCEPT ![k] = @ + n]
  <1>1. e \in [Lines -> Nat] /\ \A l \in Lines : e[l] = IF l = k THEN f[l] + n ELSE f[l]
    OBVIOUS
  <1> HIDE DEF e
  <1>2. PICK g \in [Lines -> Nat] : SumsUp(f, g)
    BY SumsExist
  <1> DEFINE h == [l \in Lines |-> IF l < k THEN g[l] ELSE g[l] + n]
  <1>3. \A l \in Lines : h[l] = IF l < k THEN g[l] ELSE g[l] + n
    OBVIOUS
  <1>4. h = [l \in Lines |-> h[l]]
    OBVIOUS
  <1> HIDE DEF h
  <1>5. ASSUME NEW l \in Lines PROVE h[l] = IF l = 0 THEN e[0] ELSE h[l - 1] + e[l]
    <2>1. l \in Nat /\ k \in Nat /\ f[l] \in Nat /\ g[l] \in Nat /\ 0 \in Lines
          /\ f[0] \in Nat
      BY <1>2, TimedConstants DEF Lines
    <2>2. CASE l = 0
      <3>1. g[0] = f[0]
        BY <1>2, <2>1 DEF SumsUp
      <3> QED
        BY <1>1, <1>3, <2>1, <2>2, <3>1
    <2>3. CASE l # 0
      <3>1. l - 1 \in Lines /\ l - 1 \in Nat
        BY <2>3, TimedConstants DEF Lines
      <3>2. g[l] = g[l - 1] + f[l] /\ g[l - 1] \in Nat
        BY <1>2, <2>3, <3>1 DEF SumsUp
      <3>3. CASE l < k
        <4>1. l - 1 < k
          BY <2>1, <3>1, <3>3
        <4> QED
          BY <1>1, <1>3, <2>1, <2>3, <3>1, <3>2, <3>3, <4>1
      <3>4. CASE l = k
        BY <1>1, <1>3, <2>1, <2>3, <3>1, <3>2, <3>4
      <3>5. CASE l > k
        <4>1. ~(l - 1 < k) /\ ~(l < k) /\ l # k
          BY <2>1, <3>1, <3>5
        <4> QED
          BY <1>1, <1>3, <2>1, <2>3, <3>1, <3>2, <4>1
      <3> QED
        BY <2>1, <3>3, <3>4, <3>5
    <2> QED
      BY <2>2, <2>3
  <1>6. SumsUp(e, h)
    BY <1>4, <1>5 DEF SumsUp
  <1>7. Profiler!Total(e) = h[LastLine] /\ Profiler!Total(f) = g[LastLine]
    BY <1>1, <1>2, <1>6, TotalIsSum
  <1>8. h[LastLine] = g[LastLine] + n
    <2>1. ~(LastLine < k)
      BY TimedConstants DEF Lines
    <2> QED
      BY <1>3, <2>1, TimedConstants
  <1> QED
    BY <1>7, <1>8 DEF e

-----------------------------------------------------------------------------
(* The profiler *)

ProfType == [line : Lines, user : BOOLEAN, wall : Nat, hits : [Lines -> Nat],
             time : [Lines -> Nat]]

\* An instruction was begun and will be charged.
Charging(p) == p.line # 0 /\ p.user

\* What it is to be charged at time c.
Owed(p, c) == IF Charging(p) THEN c - p.wall ELSE 0

Counted(p, begun) ==
    \A l \in 1 .. LastLine :
        p.hits[l] + (IF p.line = l /\ p.user THEN 1 ELSE 0) = begun[l]

\* An instruction is only being charged while the engine runs and profiling is
\* on: this is what keeps time at the shell from being charged when it goes on.
ProfilerInv ==
    /\ at \in {"prompt", "engine", "shell", "crashed"}
    /\ on \in BOOLEAN /\ clock \in Nat \ {0} /\ ran \in Nat
    /\ at = "shell" => inst \in Timed
    /\ prof \in ProfType /\ entered \in [Lines -> Nat]
    /\ Charging(prof) => at = "engine" /\ on /\ prof.wall <= clock
    /\ Profiler!Total(prof.time) + Owed(prof, clock) <= ran
    /\ Counted(prof, entered)

\* slaxProfExit charges what is owed, no more, and counts the instruction.
LEMMA ExitCharges ==
    ASSUME ProfilerInv
    PROVE  LET p == Profiler!slaxProfExit(prof)
           IN /\ p \in ProfType /\ ~Charging(p) /\ Counted(p, entered)
              /\ Profiler!Total(p.time) <= ran
  <1> DEFINE p == Profiler!slaxProfExit(prof)
             k == prof.line
             gone == clock - prof.wall
             q == [prof EXCEPT !.hits[k] = @ + 1, !.time[k] = IF prof.wall # 0 THEN @ + gone ELSE @,
                               !.wall = 0, !.user = FALSE, !.line = 0]
  <1>1. /\ prof \in ProfType /\ k \in Lines /\ prof.wall \in Nat /\ clock \in Nat /\ ran \in Nat
        /\ prof.time \in [Lines -> Nat] /\ prof.hits \in [Lines -> Nat]
        /\ prof.user \in BOOLEAN /\ 0 \in Lines
        /\ Profiler!Total(prof.time) \in Nat /\ Counted(prof, entered)
    BY TotalType, TimedConstants DEF ProfilerInv, ProfType
  <1>2. CASE ~Charging(prof)
    <2>1. p = prof
      BY <1>2 DEF Profiler!slaxProfExit, Charging
    <2> QED
      BY <1>1, <1>2, <2>1 DEF ProfilerInv, Owed
  <1>3. CASE Charging(prof)
    <2>1. p = q
      BY <1>3 DEF Profiler!slaxProfExit, Charging
    <2>2. gone \in Nat /\ Profiler!Total(prof.time) + gone <= ran
      BY <1>1, <1>3 DEF ProfilerInv, Owed
    <2>3. /\ q.line = 0 /\ q.user = FALSE /\ q.wall = 0
          /\ q.hits = [prof.hits EXCEPT ![k] = @ + 1]
          /\ q.time = [prof.time EXCEPT ![k] = IF prof.wall # 0 THEN @ + gone ELSE @]
      BY <1>1 DEF ProfType
    <2>4. q.hits \in [Lines -> Nat] /\ q.time \in [Lines -> Nat]
      BY <1>1, <2>2, <2>3
    <2>5. q \in ProfType
      BY <1>1, <2>3, <2>4 DEF ProfType
    <2>6. Profiler!Total(q.time) <= ran
      <3>1. CASE prof.wall = 0
        <4>1. q.time = prof.time
          BY <1>1, <2>3, <3>1
        <4> QED
          BY <1>1, <2>2, <4>1
      <3>2. CASE prof.wall # 0
        <4>1. q.time = [prof.time EXCEPT ![k] = @ + gone]
          BY <2>3, <3>2
        <4>2. Profiler!Total(q.time) = Profiler!Total(prof.time) + gone
          BY <1>1, <2>2, <4>1, TotalCharged
        <4> QED
          BY <2>2, <4>2
      <3> QED
        BY <3>1, <3>2
    <2>7. Counted(q, entered)
      <3> SUFFICES ASSUME NEW l \in 1 .. LastLine
                   PROVE  q.hits[l] + (IF q.line = l /\ q.user THEN 1 ELSE 0) = entered[l]
        BY DEF Counted
      <3>1. l \in Lines /\ l # 0
        BY TimedConstants DEF Lines
      <3>2. prof.hits[l] + (IF k = l /\ prof.user THEN 1 ELSE 0) = entered[l]
        BY <1>1 DEF Counted
      <3>3. prof.user
        BY <1>3 DEF Charging
      <3> QED
        BY <1>1, <2>3, <3>1, <3>2, <3>3
    <2> QED
      BY <2>1, <2>3, <2>5, <2>6, <2>7 DEF Charging
  <1> QED
    BY <1>2, <1>3

LEMMA ExitIfOnCharges ==
    ASSUME ProfilerInv
    PROVE  LET p == Profiler!ExitIfOn
           IN /\ p \in ProfType /\ ~Charging(p) /\ Counted(p, entered)
              /\ Profiler!Total(p.time) <= ran
  <1>1. CASE on
    BY <1>1, ExitCharges DEF Profiler!ExitIfOn
  <1>2. CASE ~on
    <2>1. Profiler!ExitIfOn = prof /\ ~Charging(prof)
      BY <1>2 DEF Profiler!ExitIfOn, ProfilerInv
    <2>2. Profiler!Total(prof.time) \in Nat /\ ran \in Nat
      BY TotalType DEF ProfilerInv, ProfType
    <2> QED
      BY <2>1, <2>2 DEF ProfilerInv, Owed
  <1> QED
    BY <1>1, <1>2 DEF ProfilerInv

\* Going on with an instruction charges nothing and begins at the present time.
LEMMA GoOnBegins ==
    ASSUME ProfilerInv, NEW p \in ProfType, ~Charging(p), Counted(p, entered),
           NEW i \in Timed, Profiler!GoOn(p, i)
    PROVE  /\ prof' \in ProfType /\ entered' \in [Lines -> Nat]
           /\ prof'.time = p.time
           /\ Charging(prof') => on /\ prof'.wall = clock
           /\ Counted(prof', entered')
  <1>1. i.line \in Nat /\ i.own \in BOOLEAN /\ clock \in Nat /\ entered \in [Lines -> Nat]
    BY TimedConstants DEF ProfilerInv
  <1>2. CASE ~on
    BY <1>1, <1>2 DEF Profiler!GoOn
  <1>3. CASE on
    <2>1. PICK valid \in BOOLEAN :
             /\ prof' = Profiler!slaxProfEnter(p, i, valid)
             /\ entered' = IF valid /\ i.own /\ i.line \in 1 .. LastLine
                           THEN [entered EXCEPT ![i.line] = @ + 1] ELSE entered
      BY <1>3 DEF Profiler!GoOn
    <2>2. CASE i.own /\ i.line \in 1 .. LastLine
      <3>1. i.line \in Lines /\ i.line # 0
        BY <2>2, TimedConstants DEF Lines
      <3>2. prof' = [p EXCEPT !.line = i.line, !.user = valid, !.wall = clock]
        BY <2>1, <2>2 DEF Profiler!slaxProfEnter
      <3>3. /\ prof'.line = i.line /\ prof'.user = valid /\ prof'.wall = clock
            /\ prof'.hits = p.hits /\ prof'.time = p.time
        BY <3>2 DEF ProfType
      <3>4. prof' \in ProfType
        BY <1>1, <3>1, <3>2 DEF ProfType
      <3>5. entered' = IF valid THEN [entered EXCEPT ![i.line] = @ + 1] ELSE entered
        BY <2>1, <2>2
      <3>6. entered' \in [Lines -> Nat]
        BY <1>1, <3>1, <3>5
      <3>7. Counted(prof', entered')
        <4> SUFFICES ASSUME NEW l \in 1 .. LastLine
                     PROVE  prof'.hits[l] + (IF prof'.line = l /\ prof'.user THEN 1 ELSE 0)
                               = entered'[l]
          BY DEF Counted
        <4>1. l \in Lines /\ l # 0
          BY TimedConstants DEF Lines
        <4>2. p.hits[l] \in Nat /\ p.hits[l] = entered[l]
          <5>1. p.hits[l] + (IF p.line = l /\ p.user THEN 1 ELSE 0) = entered[l]
            BY DEF Counted
          <5>2. ~(p.line = l /\ p.user)
            BY <4>1 DEF Charging
          <5> QED
            BY <4>1, <5>1, <5>2 DEF ProfType
        <4> QED
          BY <1>1, <3>3, <3>5, <4>1, <4>2
      <3> QED
        BY <1>3, <3>3, <3>4, <3>6, <3>7
    <2>3. CASE ~(i.own /\ i.line \in 1 .. LastLine)
      <3>1. prof' = [p EXCEPT !.user = FALSE, !.wall = clock] /\ entered' = entered
        BY <2>1, <2>3 DEF Profiler!slaxProfEnter
      <3>2. /\ prof'.line = p.line /\ prof'.user = FALSE
            /\ prof'.hits = p.hits /\ prof'.time = p.time
        BY <3>1 DEF ProfType
      <3>3. prof' \in ProfType
        BY <1>1, <3>1 DEF ProfType
      <3>4. Counted(prof', entered')
        <4> SUFFICES ASSUME NEW l \in 1 .. LastLine
                     PROVE  prof'.hits[l] + 0 = entered[l]
          BY <3>1, <3>2 DEF Counted
        <4>1. l \in Lines /\ l # 0
          BY TimedConstants DEF Lines
        <4>2. p.hits[l] + (IF p.line = l /\ p.user THEN 1 ELSE 0) = entered[l]
          BY DEF Counted
        <4>3. ~(p.line = l /\ p.user)
          BY <4>1 DEF Charging
        <4> QED
          BY <3>2, <4>2, <4>3
      <3> QED
        BY <1>1, <3>1, <3>2, <3>3, <3>4 DEF Charging
    <2> QED
      BY <2>2, <2>3
  <1> QED
    BY <1>2, <1>3 DEF ProfilerInv

\* Nothing is charged and nothing was counted.
LEMMA ClearedSound ==
    ASSUME NEW p \in ProfType,
           p.hits = [l \in Lines |-> 0], p.time = [l \in Lines |-> 0], ~Charging(p)
    PROVE  Profiler!Total(p.time) = 0 /\ Counted(p, [l \in Lines |-> 0])
  <1>1. ASSUME NEW l \in 1 .. LastLine PROVE l \in Lines /\ ~(p.line = l /\ p.user)
    BY TimedConstants DEF Lines, Charging
  <1> QED
    BY <1>1, TotalOfNothing DEF Counted

LEMMA ProfilerInit == Profiler!Init => ProfilerInv
  <1> SUFFICES ASSUME Profiler!Init PROVE ProfilerInv
    OBVIOUS
  <1>1. /\ at = "prompt" /\ on = TRUE /\ clock = 1 /\ ran = 0
        /\ prof = [line |-> 0, user |-> FALSE, wall |-> 0,
                   hits |-> [l \in Lines |-> 0], time |-> [l \in Lines |-> 0]]
        /\ entered = [l \in Lines |-> 0]
    BY TimedConstants DEF Profiler!Init, Profiler!slaxProfOpen
  <1>2. prof \in ProfType /\ ~Charging(prof)
    BY <1>1, TimedConstants DEF ProfType, Charging
  <1>3. Profiler!Total(prof.time) = 0 /\ Counted(prof, entered)
    BY <1>1, <1>2, ClearedSound
  <1> QED
    BY <1>1, <1>2, <1>3 DEF ProfilerInv, Owed

\* Counts that were cleared, or begin anew, at the prompt or the shell.
LEMMA ForgetKeeps ==
    ASSUME ProfilerInv, prof' \in ProfType, ~Charging(prof'),
           prof'.hits = [l \in Lines |-> 0], prof'.time = [l \in Lines |-> 0],
           Profiler!Forget, on' = on, clock' = clock,
           at' \in {"prompt", "engine", "shell", "crashed"},
           at' = "shell" => inst' \in Timed
    PROVE  ProfilerInv'
  <1>1. ran' = 0 /\ entered' = [l \in Lines |-> 0]
    BY TimedConstants DEF Profiler!Forget
  <1>2. Profiler!Total(prof'.time) = 0 /\ Counted(prof', entered')
    BY <1>1, ClearedSound
  <1>3. entered' \in [Lines -> Nat]
    BY <1>1
  <1> QED
    BY <1>1, <1>2, <1>3 DEF ProfilerInv, Owed

\* An instruction is ended and none begun.
LEMMA ExitKeeps ==
    ASSUME ProfilerInv, prof' = Profiler!ExitIfOn,
           UNCHANGED <<on, clock, ran, entered>>,
           at' \in {"prompt", "engine", "shell", "crashed"},
           at' = "shell" => inst' \in Timed
    PROVE  ProfilerInv'
  <1>1. /\ prof' \in ProfType /\ ~Charging(prof') /\ Counted(prof', entered)
        /\ Profiler!Total(prof'.time) <= ran
    BY ExitIfOnCharges
  <1>2. Profiler!Total(prof'.time) \in Nat
    BY <1>1, TotalType DEF ProfType
  <1> QED
    BY <1>1, <1>2 DEF ProfilerInv, Owed

LEMMA ProfilerStep ==
    ASSUME ProfilerInv, Profiler!Next
    PROVE  ProfilerInv'
  <1>1. CASE Profiler!Tick
    <2>1. /\ clock' = clock + 1 /\ ran' = IF at = "engine" THEN ran + 1 ELSE ran
          /\ UNCHANGED <<at, inst, on, prof, entered>>
      BY <1>1 DEF Profiler!Tick
    <2>2. Profiler!Total(prof.time) \in Nat /\ prof.wall \in Nat
      BY TotalType DEF ProfilerInv, ProfType
    <2> QED
      BY <2>1, <2>2 DEF ProfilerInv, Owed
  <1>2. CASE Profiler!slaxDebugAddFrame
    BY <1>2, ExitKeeps DEF Profiler!slaxDebugAddFrame, ProfilerInv
  <1>3. CASE Profiler!slaxDebugDropFrame
    BY <1>3, ExitKeeps DEF Profiler!slaxDebugDropFrame, ProfilerInv
  <1>4. CASE Profiler!Continue
    <2>1. /\ at = "shell" /\ at' = "engine" /\ Profiler!GoOn(prof, inst)
          /\ UNCHANGED <<on, clock, ran>>
      BY <1>4 DEF Profiler!Continue
    <2>2. inst \in Timed /\ prof \in ProfType /\ ~Charging(prof) /\ Counted(prof, entered)
      BY <2>1 DEF ProfilerInv
    <2>3. /\ prof' \in ProfType /\ entered' \in [Lines -> Nat] /\ prof'.time = prof.time
          /\ Charging(prof') => on /\ prof'.wall = clock
          /\ Counted(prof', entered')
      BY <2>1, <2>2, GoOnBegins
    <2>4. Profiler!Total(prof.time) <= ran /\ Profiler!Total(prof.time) \in Nat
      BY <2>2, TotalType DEF ProfilerInv, ProfType, Owed
    <2> QED
      BY <2>1, <2>3, <2>4 DEF ProfilerInv, Owed
  <1>5. ASSUME NEW i \in Timed, Profiler!slaxDebugHandler(i) PROVE ProfilerInv'
    <2>1. CASE prof' = Profiler!ExitIfOn /\ inst' = i /\ at' = "shell" /\ UNCHANGED entered
      BY <1>5, <2>1, ExitKeeps DEF Profiler!slaxDebugHandler
    <2>2. CASE Profiler!GoOn(Profiler!ExitIfOn, i) /\ UNCHANGED <<at, inst>>
      <3> DEFINE p == Profiler!ExitIfOn
      <3>1. p \in ProfType /\ ~Charging(p) /\ Counted(p, entered) /\ Profiler!Total(p.time) <= ran
        BY ExitIfOnCharges
      <3>2. at = "engine" /\ UNCHANGED <<on, clock, ran>>
        BY <1>5 DEF Profiler!slaxDebugHandler
      <3> HIDE DEF p
      <3>3. /\ prof' \in ProfType /\ entered' \in [Lines -> Nat] /\ prof'.time = p.time
            /\ Charging(prof') => on /\ prof'.wall = clock
            /\ Counted(prof', entered')
        BY <2>2, <3>1, GoOnBegins DEF p
      <3>4. Profiler!Total(p.time) \in Nat
        BY <3>1, TotalType DEF ProfType
      <3> QED
        BY <2>2, <3>1, <3>2, <3>3, <3>4 DEF ProfilerInv, Owed
    <2> QED
      BY <1>5, <2>1, <2>2 DEF Profiler!slaxDebugHandler
  <1>6. CASE Profiler!slaxDebugCmdProfiler
    BY <1>6 DEF Profiler!slaxDebugCmdProfiler, Profiler!AtShell, ProfilerInv, Owed
  <1>7. CASE Profiler!ProfileClear
    <2>1. /\ at \in {"prompt", "shell"} /\ prof' = Profiler!slaxProfClear(prof)
          /\ Profiler!Forget /\ UNCHANGED <<at, inst, on, clock>>
      BY <1>7 DEF Profiler!ProfileClear, Profiler!AtShell
    <2>2. /\ prof' = [prof EXCEPT !.hits = [l \in Lines |-> 0], !.time = [l \in Lines |-> 0]]
          /\ prof \in ProfType /\ ~Charging(prof)
      BY <2>1, TimedConstants DEF Profiler!slaxProfClear, ProfilerInv
    <2>3. prof' \in ProfType /\ ~Charging(prof')
          /\ prof'.hits = [l \in Lines |-> 0] /\ prof'.time = [l \in Lines |-> 0]
      BY <2>2 DEF ProfType, Charging
    <2> QED
      BY <2>1, <2>3, ForgetKeeps DEF ProfilerInv
  <1>8. CASE Profiler!ProfileReport
    BY <1>8 DEF Profiler!ProfileReport, Profiler!AtShell, ProfilerInv, Owed
  <1>9. CASE Profiler!Run
    <2> DEFINE p == Profiler!slaxProfClear(prof)
    <2>1. /\ at = "prompt" /\ at' = "engine" /\ Profiler!Forget /\ UNCHANGED <<inst, on, clock>>
          /\ prof' = IF on THEN Profiler!slaxProfExit(p) ELSE p
      BY <1>9 DEF Profiler!Run
    <2>2. /\ p = [prof EXCEPT !.hits = [l \in Lines |-> 0], !.time = [l \in Lines |-> 0]]
          /\ prof \in ProfType /\ ~Charging(prof)
      BY <2>1, TimedConstants DEF Profiler!slaxProfClear, ProfilerInv
    <2> HIDE DEF p
    <2>3. p \in ProfType /\ ~Charging(p)
          /\ p.hits = [l \in Lines |-> 0] /\ p.time = [l \in Lines |-> 0]
      BY <2>2 DEF ProfType, Charging
    <2>4. prof' = p
      BY <2>1, <2>3 DEF Profiler!slaxProfExit, Charging
    <2> QED
      BY <2>1, <2>3, <2>4, ForgetKeeps
  <1>10. CASE Profiler!Reload
    <2>1. /\ at = "prompt" /\ Profiler!Forget /\ UNCHANGED <<at, inst, on, clock>>
          /\ prof' = [line |-> 0, user |-> FALSE, wall |-> 0,
                      hits |-> [l \in Lines |-> 0], time |-> [l \in Lines |-> 0]]
      BY <1>10, TimedConstants DEF Profiler!Reload, Profiler!slaxProfOpen
    <2>2. prof' \in ProfType /\ ~Charging(prof')
      BY <2>1, TimedConstants DEF ProfType, Charging
    <2> QED
      BY <2>1, <2>2, ForgetKeeps
  <1> QED
    BY <1>1, <1>2, <1>3, <1>4, <1>5, <1>6, <1>7, <1>8, <1>9, <1>10 DEF Profiler!Next

LEMMA ProfilerInvAccounts == ProfilerInv => Profiler!TimeAccounted
  <1> SUFFICES ASSUME ProfilerInv PROVE Profiler!TimeAccounted
    OBVIOUS
  <1>1. Profiler!HitsCounted
    BY DEF ProfilerInv, Counted, Profiler!HitsCounted
  <1>2. Profiler!ChargedOnce
    BY DEF ProfilerInv, Owed, Charging, Profiler!ChargedOnce
  <1> QED
    BY <1>1, <1>2 DEF Profiler!TimeAccounted

\* Every tick of the clock is charged to one line at most and never one in which the
\* engine did not run, and the hits of a line are the instructions that were begun on
\* it and have ended, for every file, through shells, frames, clears and switching the
\* profiler on and off (slaxProfEnter, slaxProfExit and the callbacks that call them).
THEOREM TimeAlwaysAccounted == RunningSpec => []TimeAccounted
  <1>1. RunningInit => (what = "profiler" => ProfilerInv)
    BY ProfilerInit DEF RunningInit
  <1>2. (what = "profiler" => ProfilerInv) /\ [RunningNext]_runningVars
           => (what = "profiler" => ProfilerInv)'
    <2> SUFFICES ASSUME what = "profiler" => ProfilerInv, [RunningNext]_runningVars,
                        what' = "profiler"
                 PROVE  ProfilerInv'
      OBVIOUS
    <2>1. what = "profiler" /\ ProfilerInv
      BY DEF RunningNext, runningVars
    <2>2. CASE RunningNext
      BY <2>1, <2>2, ProfilerStep DEF RunningNext
    <2>3. CASE UNCHANGED runningVars
      <3>1. UNCHANGED <<at, inst, on, clock, prof, ran, entered>>
        BY <2>3 DEF runningVars, profilerVars
      <3> QED
        BY <2>1, <3>1 DEF ProfilerInv, Owed, Charging, Counted
    <2> QED
      BY <2>2, <2>3
  <1>3. (what = "profiler" => ProfilerInv) => TimeAccounted
    BY ProfilerInvAccounts DEF TimeAccounted
  <1> QED
    BY <1>1, <1>2, <1>3, PTL DEF RunningSpec

-----------------------------------------------------------------------------
(* Sequences *)

\* A sequence, whatever its elements are.
Proper(s) == s \in Seq(ToSet(s))

LEMMA ProperSeq == ASSUME NEW S, NEW s \in Seq(S) PROVE Proper(s)
  BY DEF Proper, ToSet

LEMMA ProperParts ==
    ASSUME NEW s, Proper(s)
    PROVE  /\ Len(s) \in Nat /\ DOMAIN s = 1 .. Len(s)
           /\ s = [i \in 1 .. Len(s) |-> s[i]]
           /\ \A S : (\A i \in 1 .. Len(s) : s[i] \in S) => s \in Seq(S)
  BY DEF Proper

LEMMA ProperMade ==
    ASSUME NEW n \in Nat, NEW f, f = [i \in 1 .. n |-> f[i]]
    PROVE  Proper(f) /\ Len(f) = n
  <1> DEFINE S == {f[i] : i \in 1 .. n}
  <1>1. f \in [1 .. n -> S]
    <2> DEFINE g == [i \in 1 .. n |-> f[i]]
    <2>1. g \in [1 .. n -> S]
      OBVIOUS
    <2> QED
      BY <2>1
  <1>2. f \in Seq(S)
    BY <1>1
  <1>3. Len(f) = n
    BY <1>1
  <1> QED
    BY <1>2, <1>3, ProperSeq

LEMMA ProperEqual ==
    ASSUME NEW s, NEW t, Proper(s), Proper(t), Len(s) = Len(t),
           \A i \in 1 .. Len(s) : s[i] = t[i]
    PROVE  s = t
  BY ProperParts

LEMMA ProperConcat ==
    ASSUME NEW s, NEW t, Proper(s), Proper(t)
    PROVE  /\ Proper(s \o t) /\ Len(s \o t) = Len(s) + Len(t)
           /\ \A i \in 1 .. Len(s) : (s \o t)[i] = s[i]
           /\ \A i \in 1 .. Len(t) : (s \o t)[Len(s) + i] = t[i]
  <1> DEFINE S == ToSet(s) \cup ToSet(t)
  <1>1. s \in Seq(S) /\ t \in Seq(S)
    <2>1. \A i \in 1 .. Len(s) : s[i] \in S
      BY ProperParts DEF ToSet
    <2>2. \A i \in 1 .. Len(t) : t[i] \in S
      BY ProperParts DEF ToSet
    <2> HIDE DEF S
    <2> QED
      BY <2>1, <2>2, ProperParts
  <1> HIDE DEF S
  <1>2. s \o t \in Seq(S)
    BY <1>1
  <1>3. Len(s \o t) = Len(s) + Len(t) /\ Len(s) \in Nat /\ Len(t) \in Nat
    BY <1>1
  <1>4. \A i \in 1 .. Len(s) : (s \o t)[i] = s[i]
    BY <1>1
  <1>5. \A i \in 1 .. Len(t) : (s \o t)[Len(s) + i] = t[i]
    BY <1>1
  <1> QED
    BY <1>2, <1>3, <1>4, <1>5, ProperSeq

Flattens(f, h) == h = [i \in 1 .. Len(f) |-> IF i = 1 THEN f[i] ELSE h[i - 1] \o f[i]]

\* FlattenSeq is the last step of any function that does what its own does.
LEMMA FlattenedLast ==
    ASSUME NEW f, Len(f) \in Nat \ {0}, NEW g, Flattens(f, g)
    PROVE  Mvar!FlattenSeq(f) = g[Len(f)]
  <1> DEFINE h == CHOOSE k : Flattens(f, k)
             T == {i \in Nat : i + 1 \in 1 .. Len(f) => h[i + 1] = g[i + 1]}
  <1>1. Mvar!FlattenSeq(f) = h[Len(f)]
    BY DEF Mvar!FlattenSeq, Flattens
  <1>2. Flattens(f, h)
    OBVIOUS
  <1> HIDE DEF h
  <1>3. 0 \in T
    BY <1>2 DEF Flattens
  <1>4. ASSUME NEW i \in Nat, i \in T PROVE i + 1 \in T
    <2> SUFFICES ASSUME (i + 1) + 1 \in 1 .. Len(f) PROVE h[(i + 1) + 1] = g[(i + 1) + 1]
      OBVIOUS
    <2>1. i + 1 \in 1 .. Len(f) /\ (i + 1) + 1 # 1 /\ ((i + 1) + 1) - 1 = i + 1
      OBVIOUS
    <2>2. h[i + 1] = g[i + 1]
      BY <1>4, <2>1
    <2>3. /\ h[(i + 1) + 1] = h[i + 1] \o f[(i + 1) + 1]
          /\ g[(i + 1) + 1] = g[i + 1] \o f[(i + 1) + 1]
      BY <1>2, <2>1 DEF Flattens
    <2> QED
      BY <2>2, <2>3
  <1> HIDE DEF T
  <1>5. Nat \subseteq T
    BY <1>3, <1>4, SetInduction
  <1>6. Len(f) - 1 \in Nat /\ (Len(f) - 1) + 1 = Len(f) /\ Len(f) \in 1 .. Len(f)
    OBVIOUS
  <1> QED
    BY <1>1, <1>5, <1>6 DEF T

LEMMA FlattenedOne == ASSUME NEW s PROVE Mvar!FlattenSeq(<<s>>) = s
  <1> DEFINE f == <<s>>
             g == [i \in 1 .. 1 |-> s]
  <1>1. Len(f) = 1 /\ f[1] = s /\ g[1] = s
    OBVIOUS
  <1>2. \A i \in 1 .. 1 : g[i] = IF i = 1 THEN f[i] ELSE g[i - 1] \o f[i]
    OBVIOUS
  <1>3. g = [i \in 1 .. 1 |-> g[i]]
    OBVIOUS
  <1> HIDE DEF f, g
  <1>4. Flattens(f, g)
    BY <1>1, <1>2, <1>3 DEF Flattens
  <1>5. Len(f) \in Nat \ {0}
    BY <1>1
  <1>6. Mvar!FlattenSeq(f) = g[Len(f)]
    BY <1>4, <1>5, FlattenedLast
  <1> QED
    BY <1>1, <1>6 DEF f

LEMMA FlattenedSingles ==
    ASSUME NEW n \in Nat, NEW e, e = [i \in 1 .. n |-> e[i]]
    PROVE  Mvar!FlattenSeq([i \in 1 .. n |-> <<e[i]>>]) = e
  <1> DEFINE f == [i \in 1 .. n |-> <<e[i]>>]
             part(i) == [j \in 1 .. i |-> e[j]]
             g == [i \in 1 .. n |-> part(i)]
  <1>1. Len(f) = n /\ \A i \in 1 .. n : f[i] = <<e[i]>>
    <2>1. f = [i \in 1 .. n |-> f[i]]
      OBVIOUS
    <2> QED
      BY <2>1, ProperMade
  <1>2. \A i \in 1 .. n : g[i] = part(i)
    OBVIOUS
  <1>3. g = [i \in 1 .. n |-> g[i]]
    OBVIOUS
  <1> HIDE DEF f, g
  <1>4. CASE n = 0
    <2>1. f = e
      BY <1>4 DEF f
    <2> QED
      BY <1>1, <1>4, <2>1 DEF f, Mvar!FlattenSeq
  <1>5. CASE n # 0
    <2>1. ASSUME NEW i \in 1 .. n
          PROVE  g[i] = IF i = 1 THEN f[i] ELSE g[i - 1] \o f[i]
      <3>1. CASE i = 1
        <4>1. part(1) = <<e[1]>>
          OBVIOUS
        <4> QED
          BY <1>1, <1>2, <3>1, <4>1
      <3>2. CASE i # 1
        <4>1. i - 1 \in 1 .. n /\ i - 1 \in Nat /\ i \in Nat
          BY <3>2
        <4>2. /\ Proper(part(i - 1)) /\ Len(part(i - 1)) = i - 1
              /\ Proper(part(i)) /\ Len(part(i)) = i
          <5>1. /\ part(i - 1) = [j \in 1 .. (i - 1) |-> part(i - 1)[j]]
                /\ part(i) = [j \in 1 .. i |-> part(i)[j]]
            OBVIOUS
          <5> HIDE DEF part
          <5> QED
            BY <4>1, <5>1, ProperMade
        <4>3. Proper(<<e[i]>>) /\ Len(<<e[i]>>) = 1 /\ <<e[i]>>[1] = e[i]
          BY DEF Proper, ToSet
        <4>4. /\ \A j \in 1 .. i : part(i)[j] = e[j]
              /\ \A j \in 1 .. (i - 1) : part(i - 1)[j] = e[j]
          OBVIOUS
        <4> DEFINE u == part(i - 1) \o <<e[i]>>
        <4> HIDE DEF part
        <4>5. /\ Proper(u) /\ Len(u) = (i - 1) + 1
              /\ \A j \in 1 .. (i - 1) : u[j] = part(i - 1)[j]
              /\ \A j \in 1 .. 1 : u[(i - 1) + j] = <<e[i]>>[j]
          BY <4>2, <4>3, ProperConcat
        <4> HIDE DEF u
        <4>6. (i - 1) + 1 = i /\ u[i] = e[i]
          BY <4>1, <4>3, <4>5
        <4>7. \A j \in 1 .. i : u[j] = part(i)[j]
          <5> SUFFICES ASSUME NEW j \in 1 .. i PROVE u[j] = part(i)[j]
            OBVIOUS
          <5>1. CASE j = i
            BY <4>4, <4>6, <5>1
          <5>2. CASE j # i
            <6>1. j \in 1 .. (i - 1)
              BY <5>2
            <6> QED
              BY <4>4, <4>5, <6>1
          <5> QED
            BY <5>1, <5>2
        <4>8. u = part(i)
          BY <4>2, <4>5, <4>6, <4>7, ProperEqual
        <4> QED
          BY <1>1, <1>2, <3>2, <4>1, <4>8 DEF u
      <3> QED
        BY <3>1, <3>2
    <2>2. Flattens(f, g)
      BY <1>1, <1>3, <2>1 DEF Flattens
    <2>3. Mvar!FlattenSeq(f) = g[n]
      BY <1>1, <1>5, <2>2, FlattenedLast
    <2>4. n \in 1 .. n
      BY <1>5
    <2>5. g[n] = part(n)
      BY <1>2, <2>4
    <2>6. part(n) = e
      OBVIOUS
    <2> QED
      BY <2>3, <2>5, <2>6 DEF f
  <1> QED
    BY <1>4, <1>5

LEMMA FlattenedEmpties ==
    ASSUME NEW n \in Nat
    PROVE  Mvar!FlattenSeq([i \in 1 .. n |-> << >>]) = << >>
  <1> DEFINE f == [i \in 1 .. n |-> << >>]
  <1>1. Len(f) = n /\ (\A i \in 1 .. n : f[i] = << >>) /\ f = [i \in 1 .. n |-> f[i]]
    <2>1. f = [i \in 1 .. n |-> f[i]]
      OBVIOUS
    <2> QED
      BY <2>1, ProperMade
  <1>2. CASE n = 0
    BY <1>1, <1>2 DEF Mvar!FlattenSeq
  <1>3. CASE n # 0
    <2>1. << >> \o << >> = << >>
      OBVIOUS
    <2> HIDE DEF f
    <2>2. \A i \in 1 .. n : f[i] = IF i = 1 THEN f[i] ELSE f[i - 1] \o f[i]
      <3> SUFFICES ASSUME NEW i \in 1 .. n, i # 1 PROVE f[i] = f[i - 1] \o f[i]
        OBVIOUS
      <3>1. i - 1 \in 1 .. n
        OBVIOUS
      <3> QED
        BY <1>1, <2>1, <3>1
    <2>3. Flattens(f, f)
      BY <1>1, <2>2 DEF Flattens
    <2>4. Mvar!FlattenSeq(f) = f[n] /\ f[n] = << >>
      BY <1>1, <1>3, <2>3, FlattenedLast
    <2> QED
      BY <2>4 DEF f
  <1> QED
    BY <1>2, <1>3
-----------------------------------------------------------------------------
(* Mutable variables *)

Mvars == Globals \cup Locals
Variables == Mvars \cup Others

\* The documents that were made: all but the input.
Made(mem) == DOMAIN mem.docs \ {0}

DocOK(doc) ==
    /\ doc = [kids |-> doc.kids, next |-> doc.next, live |-> doc.live]
    /\ Proper(doc.kids) /\ doc.live \in BOOLEAN

MemoryOK(mem) ==
    /\ mem = [docs |-> mem.docs, persistRVT |-> mem.persistRVT, shadow |-> mem.shadow]
    /\ mem.docs = [d \in DOMAIN mem.docs |-> mem.docs[d]]
    /\ \E top \in Nat : DOMAIN mem.docs = 0 .. top
    /\ \A d \in DOMAIN mem.docs : DocOK(mem.docs[d])
    /\ mem.docs[0] = [kids |-> Input, next |-> 0, live |-> TRUE]
    /\ mem.shadow \in [Mvars -> Seq(Made(mem))]
    /\ \A m, n \in Mvars : m # n => ToSet(mem.shadow[m]) \cap ToSet(mem.shadow[n]) = {}

\* What a local variable that was given a block frees when it goes out of scope
\* is its own: the list leads from container to container of its shadow variable.
OwnList(ds, first, own) ==
    /\ first \in own
    /\ \A d \in own : ds[d].live /\ ds[d].next \in own \cup {0}

\* All others are the context's, and none of those leads to a variable's own.
OwnedBy(mem, frag, P) ==
    /\ P \subseteq Made(mem) /\ mem.persistRVT \in P \cup {0}
    /\ \A d \in P : mem.docs[d].live /\ mem.docs[d].next \in P \cup {0}
    /\ \A n \in Mvars :
          IF n \in Locals /\ frag[n] # 0
          THEN /\ OwnList(mem.docs, frag[n], ToSet(mem.shadow[n]))
               /\ ToSet(mem.shadow[n]) \cap P = {}
          ELSE ToSet(mem.shadow[n]) \subseteq P

MemoryInv(mem, frag) ==
    MemoryOK(mem) /\ frag \in [Locals -> Nat] /\ \E P \in SUBSET Made(mem) : OwnedBy(mem, frag, P)

\* Nodes that exist, in documents that live; a document is in a set alone.
RefersWell(ds, nodes) ==
    /\ nodes \in Seq((DOMAIN ds) \X Nat)
    /\ \A i \in 1 .. Len(nodes) :
          /\ ds[nodes[i][1]].live
          /\ nodes[i][2] <= Len(ds[nodes[i][1]].kids)
          /\ nodes[i][2] = 0 => Len(nodes) = 1

Whole(nodes) == Len(nodes) = 1 /\ nodes[1][2] = 0

ContentOf(ds, nodes) ==
    IF Whole(nodes) THEN ds[nodes[1][1]].kids
    ELSE [i \in 1 .. Len(nodes) |-> ds[nodes[i][1]].kids[nodes[i][2]]]

Extends(old, new) ==
    /\ Proper(old) /\ Proper(new) /\ Len(old) <= Len(new)
    /\ \A i \in 1 .. Len(old) : new[i] = old[i]

SeenStill(ds, v, was) ==
    /\ v = Mvar!NodeSet(v.nodes)
    /\ Extends(was, ContentOf(ds, v.nodes))
    /\ ~Whole(v.nodes) => was = ContentOf(ds, v.nodes)

ValueOK(v) == v = Mvar!Nothing \/ v = Mvar!Text(v.str) \/ v = Mvar!NodeSet(v.nodes)

\* A mutable variable refers to the last of its containers only.
RefersToOwn(own, v) ==
    /\ v = Mvar!Nothing => own = <<>>
    /\ \A i \in 1 .. Len(v.nodes) : own # <<>> /\ v.nodes[i][1] = own[Len(own)]

ValuesInv(ds, sh, val, sn) ==
    /\ \A n \in Variables : ValueOK(val[n]) /\ RefersWell(ds, val[n].nodes)
    /\ \A n \in Mvars : RefersToOwn(sh[n], val[n])
    /\ \A n \in Others : val[n] = Mvar!Nothing \/ SeenStill(ds, val[n], sn[n])

MvarInv ==
    /\ phase \in {"global", "template", "looping", "done"}
    /\ values = [n \in Variables |-> values[n]] /\ seen = [n \in Others |-> seen[n]]
    /\ phase = "done" => \A n \in Variables : values[n] = Mvar!Nothing
    /\ phase # "done" =>
          /\ MemoryInv(Mvar!Memory, fragment)
          /\ ValuesInv(docs, shadow, values, seen)

LEMMA MvarConstants ==
    /\ Globals \cap Locals = {} /\ Mvars \cap Others = {} /\ Mvar!Mvars = Mvars
    /\ Mvar!Names = Variables
    /\ Proper(Input) /\ \A t \in Trees : Proper(t)
  <1>1. Mvar!MvarAssumption
    BY RunningAssumption
  <1>2. \A t \in {Input} \cup Trees : Proper(t)
    BY <1>1, ProperSeq DEF Mvar!MvarAssumption
  <1> QED
    BY <1>1, <1>2 DEF Mvar!MvarAssumption, Mvar!Mvars, Mvar!Names, Mvars, Variables

-----------------------------------------------------------------------------
(* Documents that are made *)

LEMMA NewestIs ==
    ASSUME NEW mem, NEW top \in Nat, DOMAIN mem.docs = 0 .. top
    PROVE  Mvar!Newest(mem) = top
  <1>1. top \in DOMAIN mem.docs /\ \A e \in DOMAIN mem.docs : e <= top
    OBVIOUS
  <1>2. ASSUME NEW d \in DOMAIN mem.docs, \A e \in DOMAIN mem.docs : e <= d
        PROVE  d = top
    BY <1>1, <1>2
  <1> QED
    BY <1>1, <1>2 DEF Mvar!Newest

\* The documents ds with another one.
With(ds, new, kids, next) ==
    [d \in DOMAIN ds \cup {new} |->
        IF d = new THEN [kids |-> kids, next |-> next, live |-> TRUE] ELSE ds[d]]

LEMMA CreateIs ==
    ASSUME NEW mem, MemoryOK(mem), NEW kids, NEW next,
           NEW top \in Nat, DOMAIN mem.docs = 0 .. top
    PROVE  LET made == Mvar!xsltCreateRVT(mem, kids, next)
           IN /\ made = [docs |-> With(mem.docs, top + 1, kids, next),
                         persistRVT |-> mem.persistRVT, shadow |-> mem.shadow]
              /\ Mvar!Newest(made) = top + 1
              /\ DOMAIN made.docs = 0 .. (top + 1)
  <1> DEFINE made == Mvar!xsltCreateRVT(mem, kids, next)
             ds == With(mem.docs, top + 1, kids, next)
  <1>1. Mvar!Newest(mem) = top
    BY NewestIs
  <1>2. made = [mem EXCEPT !.docs = ds]
    BY <1>1 DEF Mvar!xsltCreateRVT, With
  <1>3. mem = [docs |-> mem.docs, persistRVT |-> mem.persistRVT, shadow |-> mem.shadow]
    BY DEF MemoryOK
  <1>4. DOMAIN ds = 0 .. (top + 1)
    BY DEF With
  <1> HIDE DEF ds, made
  <1>5. made = [docs |-> ds, persistRVT |-> mem.persistRVT, shadow |-> mem.shadow]
    BY <1>2, <1>3
  <1>6. DOMAIN made.docs = 0 .. (top + 1) /\ top + 1 \in Nat
    BY <1>4, <1>5
  <1>7. Mvar!Newest(made) = top + 1
    BY <1>6, NewestIs
  <1> QED
    BY <1>5, <1>6, <1>7 DEF ds, made

\* A container c, new in new, of the variable n.
Fresh(mem, new, n, c, kids) ==
    /\ new = [docs |-> new.docs, persistRVT |-> new.persistRVT, shadow |-> new.shadow]
    /\ c \in Nat \ {0} /\ DOMAIN mem.docs = 0 .. (c - 1)
    /\ new.docs = [d \in 0 .. c |-> new.docs[d]]
    /\ new.docs[c] = [kids |-> kids, next |-> new.docs[c].next, live |-> TRUE]
    /\ \A d \in 0 .. (c - 1) :
          new.docs[d] = [kids |-> mem.docs[d].kids, next |-> new.docs[d].next,
                         live |-> mem.docs[d].live]
    /\ new.docs[0] = mem.docs[0]
    /\ new.shadow = [mem.shadow EXCEPT ![n] = Append(@, c)]

LEMMA FreshSound ==
    ASSUME NEW mem, MemoryOK(mem), NEW new, NEW n \in Mvars, NEW c, NEW kids, Proper(kids),
           Fresh(mem, new, n, c, kids)
    PROVE  /\ MemoryOK(new)
           /\ Made(new) = Made(mem) \cup {c} /\ c \notin Made(mem)
           /\ \A m \in Mvars : m # n => new.shadow[m] = mem.shadow[m]
           /\ ToSet(new.shadow[n]) = ToSet(mem.shadow[n]) \cup {c}
           /\ Len(new.shadow[n]) # 0 /\ new.shadow[n][Len(new.shadow[n])] = c
  <1> USE DEF Fresh
  <1>1. c \in Nat /\ c # 0 /\ DOMAIN mem.docs = 0 .. (c - 1) /\ DOMAIN new.docs = 0 .. c
    OBVIOUS
  <1>2. Made(new) = Made(mem) \cup {c} /\ c \notin Made(mem)
    BY <1>1 DEF Made
  <1>3. mem.shadow \in [Mvars -> Seq(Made(mem))]
    BY DEF MemoryOK
  <1>4. \A m \in Mvars : m # n => new.shadow[m] = mem.shadow[m]
    BY <1>3
  <1> DEFINE s == mem.shadow[n]
             t == new.shadow[n]
  <1>5. s \in Seq(Made(mem)) /\ t = Append(s, c)
    BY <1>3
  <1>6. \A m \in Mvars : new.shadow[m] \in Seq(Made(new))
    <2>1. Made(mem) \subseteq Made(new) /\ c \in Made(new)
      BY <1>2
    <2>2. \A m \in Mvars : mem.shadow[m] \in Seq(Made(new))
      BY <1>3, <2>1
    <2>3. t \in Seq(Made(new))
      BY <1>5, <2>1, <2>2
    <2> QED
      BY <1>4, <2>2, <2>3
  <1>7. new.shadow \in [Mvars -> Seq(Made(new))]
    <2>1. new.shadow = [m \in Mvars |-> new.shadow[m]]
      BY <1>3
    <2> QED
      BY <1>6, <2>1
  <1>8. Len(t) = Len(s) + 1 /\ Len(s) \in Nat /\ t[Len(t)] = c
        /\ \A i \in 1 .. Len(s) : t[i] = s[i]
    BY <1>5
  <1>9. ToSet(t) = ToSet(s) \cup {c}
    <2>1. DOMAIN s = 1 .. Len(s) /\ DOMAIN t = 1 .. Len(t)
      BY <1>5
    <2> HIDE DEF s, t, Fresh
    <2>2. ASSUME NEW x PROVE x \in ToSet(t) <=> x \in ToSet(s) \cup {c}
      <3>1. x \in ToSet(t) <=> \E i \in 1 .. Len(t) : t[i] = x
        BY <2>1 DEF ToSet
      <3>2. x \in ToSet(s) <=> \E i \in 1 .. Len(s) : s[i] = x
        BY <2>1 DEF ToSet
      <3>3. \A i : i \in 1 .. Len(t) <=> i \in 1 .. Len(s) \/ i = Len(t)
        BY <1>8
      <3> QED
        BY <1>8, <3>1, <3>2, <3>3
    <2> QED
      BY <2>2
  <1>10. \A m \in Mvars : c \notin ToSet(mem.shadow[m])
    BY <1>2, <1>3 DEF ToSet
  <1>11. \A m, k \in Mvars : m # k => ToSet(new.shadow[m]) \cap ToSet(new.shadow[k]) = {}
    <2>1. \A m, k \in Mvars : m # k => ToSet(mem.shadow[m]) \cap ToSet(mem.shadow[k]) = {}
      BY DEF MemoryOK
    <2>2. \A m \in Mvars : ToSet(new.shadow[m]) = IF m = n THEN ToSet(mem.shadow[m]) \cup {c}
                                                 ELSE ToSet(mem.shadow[m])
      BY <1>4, <1>9
    <2> HIDE DEF Fresh
    <2> QED
      BY <1>10, <2>1, <2>2
  <1>12. \A d \in DOMAIN new.docs : DocOK(new.docs[d])
    <2>1. \A d \in 0 .. (c - 1) : DocOK(mem.docs[d])
      BY DEF MemoryOK
    <2>2. DocOK(new.docs[c])
      <3> DEFINE doc == new.docs[c]
      <3>1. doc = [kids |-> kids, next |-> doc.next, live |-> TRUE]
        OBVIOUS
      <3> HIDE DEF doc, Fresh
      <3>2. doc.kids = kids /\ doc.live = TRUE
        BY <3>1
      <3> QED
        BY <3>1, <3>2 DEF DocOK, doc
    <2>3. ASSUME NEW d \in 0 .. (c - 1) PROVE DocOK(new.docs[d])
      <3> DEFINE doc == new.docs[d]
                 old == mem.docs[d]
      <3>1. doc = [kids |-> old.kids, next |-> doc.next, live |-> old.live]
        OBVIOUS
      <3> HIDE DEF doc, Fresh
      <3>2. doc.kids = old.kids /\ doc.live = old.live
        BY <3>1
      <3>3. Proper(old.kids) /\ old.live \in BOOLEAN
        BY <2>1 DEF DocOK
      <3> HIDE DEF old
      <3> QED
        BY <3>1, <3>2, <3>3 DEF DocOK, doc
    <2>4. \A d \in 0 .. c : d = c \/ d \in 0 .. (c - 1)
      BY <1>1
    <2> QED
      BY <1>1, <2>2, <2>3, <2>4
  <1>13. MemoryOK(new)
    <2>1. new.docs[0] = [kids |-> Input, next |-> 0, live |-> TRUE]
      BY DEF MemoryOK
    <2>2. new.docs = [d \in DOMAIN new.docs |-> new.docs[d]]
      BY <1>1
    <2>3. new = [docs |-> new.docs, persistRVT |-> new.persistRVT, shadow |-> new.shadow]
      OBVIOUS
    <2> HIDE DEF Fresh
    <2> QED
      BY <1>1, <1>7, <1>11, <1>12, <2>1, <2>2, <2>3 DEF MemoryOK
  <1>14. Len(t) # 0
    BY <1>8
  <1> QED
    BY <1>2, <1>4, <1>8, <1>9, <1>13, <1>14

LEMMA ProperEmpty == Proper(<<>>)
  BY DEF Proper

LEMMA RootFresh ==
    ASSUME NEW mem, MemoryOK(mem), NEW n \in Mvars, mem.shadow[n] = <<>>, NEW kids,
           NEW top \in Nat, DOMAIN mem.docs = 0 .. top
    PROVE  LET new == Mvar!Persistent(mem, n, kids)
           IN /\ Fresh(mem, new, n, top + 1, kids)
              /\ new.persistRVT = top + 1
              /\ new.docs = With(mem.docs, top + 1, kids, mem.persistRVT)
  <1> DEFINE c == top + 1
             made == Mvar!xsltCreateRVT(mem, kids, mem.persistRVT)
             ds == With(mem.docs, c, kids, mem.persistRVT)
             sh == [mem.shadow EXCEPT ![n] = <<c>>]
             new == Mvar!Persistent(mem, n, kids)
  <1>1. /\ made = [docs |-> ds, persistRVT |-> mem.persistRVT, shadow |-> mem.shadow]
        /\ Mvar!Newest(made) = c
    BY CreateIs
  <1>2. new = [made EXCEPT !.persistRVT = c, !.shadow[n] = <<c>>]
    BY <1>1 DEF Mvar!Persistent
  <1> HIDE DEF made, new
  <1>3. new = [docs |-> ds, persistRVT |-> c, shadow |-> sh]
    BY <1>1, <1>2
  <1>4. sh = [mem.shadow EXCEPT ![n] = Append(@, c)]
    OBVIOUS
  <1>5. DOMAIN ds = 0 .. c /\ ds = [d \in 0 .. c |-> ds[d]]
    BY DEF With
  <1>6. ds[c] = [kids |-> kids, next |-> mem.persistRVT, live |-> TRUE]
    BY DEF With
  <1>7. \A d \in 0 .. top : ds[d] = mem.docs[d]
    BY DEF With
  <1>8. \A d \in 0 .. top :
           mem.docs[d] = [kids |-> mem.docs[d].kids, next |-> mem.docs[d].next, live |-> mem.docs[d].live]
    BY DEF MemoryOK, DocOK
  <1> HIDE DEF ds, sh
  <1>9. new.docs = ds /\ new.persistRVT = c /\ new.shadow = sh
    BY <1>3
  <1>10. c - 1 = top /\ c \in Nat \ {0} /\ 0 \in 0 .. top
    OBVIOUS
  <1>11. ds[c] = [kids |-> kids, next |-> ds[c].next, live |-> TRUE]
    BY <1>6
  <1>12. ASSUME NEW d \in 0 .. top
         PROVE  ds[d] = [kids |-> mem.docs[d].kids, next |-> ds[d].next, live |-> mem.docs[d].live]
    BY <1>7, <1>8
  <1>13. Fresh(mem, new, n, c, kids)
    BY <1>3, <1>4, <1>5, <1>7, <1>9, <1>10, <1>11, <1>12 DEF Fresh
  <1> QED
    BY <1>9, <1>13 DEF new, ds

LEMMA RootKeeps ==
    ASSUME NEW mem, NEW frag, MemoryInv(mem, frag), NEW n \in Mvars, mem.shadow[n] = <<>>,
           NEW kids, Proper(kids), NEW top \in Nat, DOMAIN mem.docs = 0 .. top
    PROVE  LET new == Mvar!Persistent(mem, n, kids)
           IN Fresh(mem, new, n, top + 1, kids) /\ MemoryInv(new, frag)
  <1> DEFINE c == top + 1
             new == Mvar!Persistent(mem, n, kids)
  <1>1. MemoryOK(mem) /\ frag \in [Locals -> Nat]
    BY DEF MemoryInv
  <1>2. /\ Fresh(mem, new, n, c, kids) /\ new.persistRVT = c
        /\ new.docs = With(mem.docs, c, kids, mem.persistRVT)
    BY <1>1, RootFresh
  <1> HIDE DEF new, c
  <1>3. /\ MemoryOK(new)
        /\ Made(new) = Made(mem) \cup {c} /\ c \notin Made(mem)
        /\ \A m \in Mvars : m # n => new.shadow[m] = mem.shadow[m]
        /\ ToSet(new.shadow[n]) = ToSet(mem.shadow[n]) \cup {c}
    BY <1>1, <1>2, FreshSound
  <1>4. /\ \A d \in Made(mem) : new.docs[d] = mem.docs[d]
        /\ new.docs[c] = [kids |-> kids, next |-> mem.persistRVT, live |-> TRUE]
    BY <1>2, <1>3 DEF With, Made
  <1>5. PICK P \in SUBSET Made(mem) : OwnedBy(mem, frag, P)
    BY DEF MemoryInv
  <1>6. ToSet(mem.shadow[n]) = {}
    BY DEF ToSet
  <1>7. \A m \in Mvars : ToSet(mem.shadow[m]) \subseteq Made(mem)
    BY <1>1 DEF MemoryOK, ToSet
  <1>8. OwnedBy(new, frag, P \cup {c})
    <2>1. P \cup {c} \subseteq Made(new) /\ new.persistRVT \in P \cup {c} \cup {0}
      BY <1>2, <1>3
    <2>2. \A d \in P \cup {c} : new.docs[d].live /\ new.docs[d].next \in (P \cup {c}) \cup {0}
      <3>1. new.docs[c].live = TRUE /\ new.docs[c].next = mem.persistRVT
        BY <1>4
      <3>2. mem.persistRVT \in P \cup {0}
        BY <1>5 DEF OwnedBy
      <3>3. \A d \in P : new.docs[d].live /\ new.docs[d].next \in P \cup {0}
        BY <1>4, <1>5 DEF OwnedBy
      <3> QED
        BY <3>1, <3>2, <3>3
    <2>3. ASSUME NEW m \in Mvars
          PROVE  IF m \in Locals /\ frag[m] # 0
                 THEN /\ OwnList(new.docs, frag[m], ToSet(new.shadow[m]))
                      /\ ToSet(new.shadow[m]) \cap (P \cup {c}) = {}
                 ELSE ToSet(new.shadow[m]) \subseteq P \cup {c}
      <3>1. IF m \in Locals /\ frag[m] # 0
            THEN /\ OwnList(mem.docs, frag[m], ToSet(mem.shadow[m]))
                 /\ ToSet(mem.shadow[m]) \cap P = {}
            ELSE ToSet(mem.shadow[m]) \subseteq P
        BY <1>5 DEF OwnedBy
      <3>2. CASE m = n
        <4>1. ~(m \in Locals /\ frag[m] # 0)
          BY <1>6, <3>1, <3>2 DEF OwnList
        <4> QED
          BY <1>3, <1>6, <3>2, <4>1
      <3>3. CASE m # n
        <4>1. new.shadow[m] = mem.shadow[m]
          BY <1>3, <3>3
        <4>2. \A d \in ToSet(mem.shadow[m]) : new.docs[d] = mem.docs[d] /\ d # c
          BY <1>3, <1>4, <1>7
        <4> QED
          BY <3>1, <4>1, <4>2 DEF OwnList
      <3> QED
        BY <3>2, <3>3
    <2> QED
      BY <2>1, <2>2, <2>3 DEF OwnedBy
  <1>9. P \cup {c} \in SUBSET Made(new)
    BY <1>3
  <1>10. MemoryInv(new, frag)
    BY <1>1, <1>3, <1>8, <1>9 DEF MemoryInv
  <1> QED
    BY <1>2, <1>10 DEF new, c

\* A local variable's block: the document is the variable's, not the context's.
Blocked(mem, n, kids) ==
    LET made == Mvar!xsltCreateRVT(mem, kids, 0)
    IN [made EXCEPT !.shadow[n] = <<Mvar!Newest(made)>>]

LEMMA LocalFresh ==
    ASSUME NEW mem, MemoryOK(mem), NEW n \in Mvars, mem.shadow[n] = <<>>, NEW kids,
           NEW top \in Nat, DOMAIN mem.docs = 0 .. top
    PROVE  LET new == Blocked(mem, n, kids)
           IN /\ Fresh(mem, new, n, top + 1, kids)
              /\ new.persistRVT = mem.persistRVT
              /\ new.docs = With(mem.docs, top + 1, kids, 0)
  <1> DEFINE c == top + 1
             made == Mvar!xsltCreateRVT(mem, kids, 0)
             ds == With(mem.docs, c, kids, 0)
             sh == [mem.shadow EXCEPT ![n] = <<c>>]
             new == Blocked(mem, n, kids)
  <1>1. /\ made = [docs |-> ds, persistRVT |-> mem.persistRVT, shadow |-> mem.shadow]
        /\ Mvar!Newest(made) = c
    BY CreateIs
  <1>2. new = [made EXCEPT !.shadow[n] = <<c>>]
    BY <1>1 DEF Blocked
  <1> HIDE DEF made, new
  <1>3. new = [docs |-> ds, persistRVT |-> mem.persistRVT, shadow |-> sh]
    BY <1>1, <1>2
  <1>4. sh = [mem.shadow EXCEPT ![n] = Append(@, c)]
    OBVIOUS
  <1>5. DOMAIN ds = 0 .. c /\ ds = [d \in 0 .. c |-> ds[d]]
    BY DEF With
  <1>6. ds[c] = [kids |-> kids, next |-> 0, live |-> TRUE]
    BY DEF With
  <1>7. \A d \in 0 .. top : ds[d] = mem.docs[d]
    BY DEF With
  <1>8. \A d \in 0 .. top :
           mem.docs[d] = [kids |-> mem.docs[d].kids, next |-> mem.docs[d].next, live |-> mem.docs[d].live]
    BY DEF MemoryOK, DocOK
  <1> HIDE DEF ds, sh
  <1>9. new.docs = ds /\ new.persistRVT = mem.persistRVT /\ new.shadow = sh
    BY <1>3
  <1>10. c - 1 = top /\ c \in Nat \ {0} /\ 0 \in 0 .. top
    OBVIOUS
  <1>11. ds[c] = [kids |-> kids, next |-> ds[c].next, live |-> TRUE]
    BY <1>6
  <1>12. ASSUME NEW d \in 0 .. top
         PROVE  ds[d] = [kids |-> mem.docs[d].kids, next |-> ds[d].next, live |-> mem.docs[d].live]
    BY <1>7, <1>8
  <1>13. new = [docs |-> new.docs, persistRVT |-> new.persistRVT, shadow |-> new.shadow]
    BY <1>3
  <1>14. Fresh(mem, new, n, c, kids)
    BY <1>13, <1>4, <1>5, <1>7, <1>9, <1>10, <1>11, <1>12 DEF Fresh
  <1> QED
    BY <1>9, <1>14 DEF new, ds

LEMMA LocalKeeps ==
    ASSUME NEW mem, NEW frag, MemoryInv(mem, frag), NEW n \in Locals, mem.shadow[n] = <<>>,
           NEW kids, Proper(kids), NEW top \in Nat, DOMAIN mem.docs = 0 .. top
    PROVE  LET new == Blocked(mem, n, kids)
           IN Fresh(mem, new, n, top + 1, kids) /\ MemoryInv(new, [frag EXCEPT ![n] = top + 1])
  <1> DEFINE c == top + 1
             new == Blocked(mem, n, kids)
             frag2 == [frag EXCEPT ![n] = c]
  <1>1. MemoryOK(mem) /\ frag \in [Locals -> Nat] /\ n \in Mvars /\ c \in Nat \ {0}
    BY DEF MemoryInv, Mvars
  <1>2. /\ Fresh(mem, new, n, c, kids) /\ new.persistRVT = mem.persistRVT
        /\ new.docs = With(mem.docs, c, kids, 0)
    BY <1>1, LocalFresh
  <1> HIDE DEF new, c
  <1>3. /\ MemoryOK(new)
        /\ Made(new) = Made(mem) \cup {c} /\ c \notin Made(mem)
        /\ \A m \in Mvars : m # n => new.shadow[m] = mem.shadow[m]
        /\ ToSet(new.shadow[n]) = ToSet(mem.shadow[n]) \cup {c}
    <2>1. MemoryOK(mem) /\ n \in Mvars /\ Fresh(mem, new, n, c, kids) /\ Proper(kids)
      BY <1>1, <1>2
    <2> QED
      BY ONLY <2>1, FreshSound
  <1>4. /\ \A d \in Made(mem) : new.docs[d] = mem.docs[d]
        /\ new.docs[c] = [kids |-> kids, next |-> 0, live |-> TRUE]
    BY <1>2, <1>3 DEF With, Made
  <1>5. PICK P \in SUBSET Made(mem) : OwnedBy(mem, frag, P)
    BY DEF MemoryInv
  <1>6. ToSet(mem.shadow[n]) = {}
    BY DEF ToSet
  <1>7. \A m \in Mvars : ToSet(mem.shadow[m]) \subseteq Made(mem)
    BY <1>1 DEF MemoryOK, ToSet
  <1>8. frag2 \in [Locals -> Nat] /\ frag2[n] = c /\ \A m \in Locals : m # n => frag2[m] = frag[m]
    BY <1>1
  <1> HIDE DEF frag2
  <1>9. OwnedBy(new, frag2, P)
    <2>1. P \subseteq Made(new) /\ new.persistRVT \in P \cup {0}
      BY <1>2, <1>3, <1>5 DEF OwnedBy
    <2>2. \A d \in P : new.docs[d].live /\ new.docs[d].next \in P \cup {0}
      BY <1>4, <1>5 DEF OwnedBy
    <2>3. ASSUME NEW m \in Mvars
          PROVE  IF m \in Locals /\ frag2[m] # 0
                 THEN /\ OwnList(new.docs, frag2[m], ToSet(new.shadow[m]))
                      /\ ToSet(new.shadow[m]) \cap P = {}
                 ELSE ToSet(new.shadow[m]) \subseteq P
      <3>1. CASE m = n
        <4>1. ToSet(new.shadow[n]) = {c} /\ new.docs[c].live = TRUE /\ new.docs[c].next = 0
          BY <1>3, <1>4, <1>6
        <4> QED
          BY <1>1, <1>3, <1>8, <3>1, <4>1 DEF OwnList
      <3>2. CASE m # n
        <4>1. IF m \in Locals /\ frag[m] # 0
              THEN /\ OwnList(mem.docs, frag[m], ToSet(mem.shadow[m]))
                   /\ ToSet(mem.shadow[m]) \cap P = {}
              ELSE ToSet(mem.shadow[m]) \subseteq P
          BY <1>5 DEF OwnedBy
        <4>2. new.shadow[m] = mem.shadow[m]
          BY <1>3, <3>2
        <4>3. \A d \in ToSet(mem.shadow[m]) : new.docs[d] = mem.docs[d]
          BY <1>4, <1>7
        <4> QED
          BY <1>8, <3>2, <4>1, <4>2, <4>3 DEF OwnList
      <3> QED
        BY <3>1, <3>2
    <2> QED
      BY <2>1, <2>2, <2>3 DEF OwnedBy
  <1>10. P \in SUBSET Made(new)
    BY <1>3
  <1>11. MemoryInv(new, frag2)
    BY <1>3, <1>8, <1>9, <1>10 DEF MemoryInv
  <1> QED
    BY <1>2, <1>11 DEF new, c, frag2

\* A container behind the last one of the variable.
Chained(mem, n) ==
    LET made == Mvar!xsltCreateRVT(mem, <<>>, 0)
    IN [made EXCEPT !.docs[Mvar!Last(mem.shadow[n])].next = Mvar!Newest(made),
                    !.shadow[n] = Append(@, Mvar!Newest(made))]

LEMMA ChainFresh ==
    ASSUME NEW mem, MemoryOK(mem), NEW n \in Mvars, mem.shadow[n] # <<>>,
           NEW top \in Nat, DOMAIN mem.docs = 0 .. top
    PROVE  LET new == Chained(mem, n)
               last == mem.shadow[n][Len(mem.shadow[n])]
           IN /\ last \in ToSet(mem.shadow[n])
              /\ Fresh(mem, new, n, top + 1, <<>>)
              /\ new.persistRVT = mem.persistRVT
              /\ new.docs[top + 1].next = 0
              /\ \A d \in Made(mem) :
                    /\ new.docs[d].live = mem.docs[d].live
                    /\ new.docs[d].next = IF d = last THEN top + 1 ELSE mem.docs[d].next
  <1> DEFINE c == top + 1
             s == mem.shadow[n]
             last == s[Len(s)]
             made == Mvar!xsltCreateRVT(mem, <<>>, 0)
             ds == With(mem.docs, c, <<>>, 0)
             es == [ds EXCEPT ![last].next = c]
             sh == [mem.shadow EXCEPT ![n] = Append(@, c)]
             new == Chained(mem, n)
  <1>1. /\ made = [docs |-> ds, persistRVT |-> mem.persistRVT, shadow |-> mem.shadow]
        /\ Mvar!Newest(made) = c
    BY CreateIs
  <1>2. s \in Seq(Made(mem)) /\ s # <<>>
    BY DEF MemoryOK
  <1>3. last \in ToSet(s) /\ last \in Made(mem)
    BY <1>2 DEF ToSet
  <1>4. new = [made EXCEPT !.docs[last].next = c, !.shadow[n] = Append(@, c)]
    BY <1>1 DEF Chained, Mvar!Last
  <1> HIDE DEF made, new, last, s
  <1>5. new = [docs |-> es, persistRVT |-> mem.persistRVT, shadow |-> sh]
    BY <1>1, <1>4
  <1>6. DOMAIN ds = 0 .. c
    BY DEF With
  <1>7. ds[c] = [kids |-> <<>>, next |-> 0, live |-> TRUE]
    BY DEF With
  <1>8. \A d \in 0 .. top : ds[d] = mem.docs[d]
    BY DEF With
  <1>9. \A d \in 0 .. top :
           mem.docs[d] = [kids |-> mem.docs[d].kids, next |-> mem.docs[d].next, live |-> mem.docs[d].live]
    BY DEF MemoryOK, DocOK
  <1> HIDE DEF ds, sh
  <1>10. last \in 1 .. top /\ last \in 0 .. c /\ last # c
    BY <1>3 DEF Made
  <1>11. DOMAIN es = 0 .. c /\ es = [d \in 0 .. c |-> es[d]]
    BY <1>6
  <1>12. \A d \in 0 .. c : d # last => es[d] = ds[d]
    BY <1>6
  <1>13. es[last] = [kids |-> mem.docs[last].kids, next |-> c, live |-> mem.docs[last].live]
    <2>1. es[last] = [ds[last] EXCEPT !.next = c]
      BY <1>6, <1>10
    <2>2. ds[last] = [kids |-> mem.docs[last].kids, next |-> mem.docs[last].next, live |-> mem.docs[last].live]
      BY <1>8, <1>9, <1>10
    <2> HIDE DEF es
    <2> QED
      BY <2>1, <2>2
  <1> HIDE DEF es
  <1>14. new.docs = es /\ new.persistRVT = mem.persistRVT /\ new.shadow = sh
    BY <1>5
  <1>15. c - 1 = top /\ c \in Nat \ {0} /\ 0 \in 0 .. top /\ c \notin 0 .. top
    OBVIOUS
  <1>16. es[c] = [kids |-> <<>>, next |-> 0, live |-> TRUE]
    BY <1>7, <1>10, <1>12
  <1>17. ASSUME NEW d \in 0 .. top
         PROVE  /\ es[d] = [kids |-> mem.docs[d].kids, next |-> es[d].next, live |-> mem.docs[d].live]
                /\ es[d].next = IF d = last THEN c ELSE mem.docs[d].next
                /\ es[d].live = mem.docs[d].live
    <2>1. CASE d = last
      BY <1>13, <2>1
    <2>2. CASE d # last
      <3>1. es[d] = [kids |-> mem.docs[d].kids, next |-> mem.docs[d].next, live |-> mem.docs[d].live]
        BY <1>8, <1>9, <1>12, <2>2
      <3> QED
        BY <2>2, <3>1
    <2> QED
      BY <2>1, <2>2
  <1>18. es[0] = mem.docs[0]
    BY <1>8, <1>10, <1>12
  <1>19. es[c].next = 0 /\ es[c] = [kids |-> <<>>, next |-> es[c].next, live |-> TRUE]
    BY <1>16
  <1>20. sh = [mem.shadow EXCEPT ![n] = Append(@, c)]
    BY DEF sh
  <1>21. new = [docs |-> new.docs, persistRVT |-> new.persistRVT, shadow |-> new.shadow]
    BY <1>5
  <1>22. Fresh(mem, new, n, c, <<>>)
    BY <1>11, <1>14, <1>15, <1>17, <1>18, <1>19, <1>20, <1>21 DEF Fresh
  <1>23. \A d \in Made(mem) :
            /\ new.docs[d].live = mem.docs[d].live
            /\ new.docs[d].next = IF d = last THEN c ELSE mem.docs[d].next
    BY <1>14, <1>17 DEF Made
  <1> QED
    BY <1>3, <1>14, <1>19, <1>22, <1>23 DEF new, last, s

LEMMA ChainKeeps ==
    ASSUME NEW mem, NEW frag, MemoryInv(mem, frag), NEW n \in Mvars, mem.shadow[n] # <<>>,
           NEW top \in Nat, DOMAIN mem.docs = 0 .. top
    PROVE  LET new == Chained(mem, n)
           IN Fresh(mem, new, n, top + 1, <<>>) /\ MemoryInv(new, frag)
  <1> DEFINE c == top + 1
             new == Chained(mem, n)
             last == mem.shadow[n][Len(mem.shadow[n])]
  <1>1. MemoryOK(mem) /\ frag \in [Locals -> Nat] /\ Proper(<<>>)
    BY ProperEmpty DEF MemoryInv
  <1>2. /\ last \in ToSet(mem.shadow[n])
        /\ Fresh(mem, new, n, c, <<>>)
        /\ new.persistRVT = mem.persistRVT
        /\ new.docs[c].next = 0
        /\ \A d \in Made(mem) :
              /\ new.docs[d].live = mem.docs[d].live
              /\ new.docs[d].next = IF d = last THEN c ELSE mem.docs[d].next
    BY <1>1, ChainFresh
  <1> HIDE DEF new, c, last
  <1>3. /\ MemoryOK(new)
        /\ Made(new) = Made(mem) \cup {c} /\ c \notin Made(mem)
        /\ \A m \in Mvars : m # n => new.shadow[m] = mem.shadow[m]
        /\ ToSet(new.shadow[n]) = ToSet(mem.shadow[n]) \cup {c}
    <2>1. MemoryOK(mem) /\ n \in Mvars /\ Fresh(mem, new, n, c, <<>>) /\ Proper(<<>>)
      BY <1>1, <1>2
    <2> QED
      BY ONLY <2>1, FreshSound
  <1>4. new.docs[c].live = TRUE
    BY <1>2 DEF Fresh
  <1>5. PICK P \in SUBSET Made(mem) : OwnedBy(mem, frag, P)
    BY DEF MemoryInv
  <1>6. \A m \in Mvars : ToSet(mem.shadow[m]) \subseteq Made(mem)
    BY <1>1 DEF MemoryOK, ToSet
  <1>7. \A m \in Mvars : m # n => last \notin ToSet(mem.shadow[m])
    BY <1>1, <1>2 DEF MemoryOK
  <1> DEFINE own == n \in Locals /\ frag[n] # 0
             Q == IF own THEN P ELSE P \cup {c}
  <1>8. IF own
        THEN /\ OwnList(mem.docs, frag[n], ToSet(mem.shadow[n]))
             /\ ToSet(mem.shadow[n]) \cap P = {}
        ELSE ToSet(mem.shadow[n]) \subseteq P
    BY <1>5 DEF OwnedBy
  <1>9. /\ \A d \in P : mem.docs[d].live /\ mem.docs[d].next \in P \cup {0}
        /\ mem.persistRVT \in P \cup {0}
    BY <1>5 DEF OwnedBy
  <1>10. OwnedBy(new, frag, Q)
    <2>1. Q \subseteq Made(new) /\ new.persistRVT \in Q \cup {0}
      BY <1>2, <1>3, <1>9
    <2>2. ASSUME NEW d \in Q PROVE new.docs[d].live /\ new.docs[d].next \in Q \cup {0}
      <3>1. CASE own
        BY <1>2, <1>8, <1>9, <3>1
      <3>2. CASE ~own
        BY <1>2, <1>4, <1>9, <3>2
      <3> QED
        BY <3>1, <3>2
    <2>3. ASSUME NEW m \in Mvars
          PROVE  IF m \in Locals /\ frag[m] # 0
                 THEN /\ OwnList(new.docs, frag[m], ToSet(new.shadow[m]))
                      /\ ToSet(new.shadow[m]) \cap Q = {}
                 ELSE ToSet(new.shadow[m]) \subseteq Q
      <3>1. CASE m = n
        <4>1. CASE own
          <5>1. \A d \in ToSet(mem.shadow[n]) :
                   mem.docs[d].live /\ mem.docs[d].next \in ToSet(mem.shadow[n]) \cup {0}
            BY <1>8, <4>1 DEF OwnList
          <5>2. \A d \in ToSet(new.shadow[n]) :
                   new.docs[d].live /\ new.docs[d].next \in ToSet(new.shadow[n]) \cup {0}
            BY <1>2, <1>3, <1>4, <1>6, <5>1
          <5>3. frag[n] \in ToSet(new.shadow[n])
            BY <1>3, <1>8, <4>1 DEF OwnList
          <5>4. ToSet(new.shadow[n]) \cap Q = {}
            BY <1>3, <1>8, <4>1
          <5> QED
            BY <3>1, <4>1, <5>2, <5>3, <5>4 DEF OwnList
        <4>2. CASE ~own
          BY <1>3, <1>8, <3>1, <4>2
        <4> QED
          BY <4>1, <4>2
      <3>2. CASE m # n
        <4>1. IF m \in Locals /\ frag[m] # 0
              THEN /\ OwnList(mem.docs, frag[m], ToSet(mem.shadow[m]))
                   /\ ToSet(mem.shadow[m]) \cap P = {}
              ELSE ToSet(mem.shadow[m]) \subseteq P
          BY <1>5 DEF OwnedBy
        <4>2. new.shadow[m] = mem.shadow[m]
          BY <1>3, <3>2
        <4>3. \A d \in ToSet(mem.shadow[m]) :
                 new.docs[d].live = mem.docs[d].live /\ new.docs[d].next = mem.docs[d].next /\ d # c
          BY <1>2, <1>3, <1>6, <1>7, <3>2
        <4> QED
          BY <4>1, <4>2, <4>3 DEF OwnList
      <3> QED
        BY <3>1, <3>2
    <2> QED
      BY <2>1, <2>2, <2>3 DEF OwnedBy
  <1>11. Q \in SUBSET Made(new)
    BY <1>3
  <1>12. MemoryInv(new, frag)
    BY <1>1, <1>3, <1>10, <1>11 DEF MemoryInv
  <1> QED
    BY <1>2, <1>12 DEF new, c

LEMMA AddIs ==
    ASSUME NEW mem, MemoryOK(mem), NEW c \in Made(mem), NEW kids, Proper(kids)
    PROVE  LET new == Mvar!slaxMvarAdd(mem, c, kids)
               old == mem.docs[c]
           IN /\ MemoryOK(new) /\ Made(new) = Made(mem) /\ DOMAIN new.docs = DOMAIN mem.docs
              /\ new.shadow = mem.shadow /\ new.persistRVT = mem.persistRVT
              /\ new.docs[c] = [kids |-> old.kids \o kids, next |-> old.next, live |-> old.live]
              /\ \A d \in DOMAIN mem.docs : d # c => new.docs[d] = mem.docs[d]
  <1> DEFINE new == Mvar!slaxMvarAdd(mem, c, kids)
             old == mem.docs[c]
             ds == [mem.docs EXCEPT ![c].kids = @ \o kids]
  <1>1. mem = [docs |-> mem.docs, persistRVT |-> mem.persistRVT, shadow |-> mem.shadow]
    BY DEF MemoryOK
  <1>2. new = [mem EXCEPT !.docs = ds]
    BY <1>1 DEF Mvar!slaxMvarAdd
  <1> HIDE DEF new, ds
  <1>3. new = [docs |-> ds, persistRVT |-> mem.persistRVT, shadow |-> mem.shadow]
    BY <1>1, <1>2
  <1>4. new.docs = ds /\ new.persistRVT = mem.persistRVT /\ new.shadow = mem.shadow
    BY <1>3
  <1>5. /\ DOMAIN ds = DOMAIN mem.docs /\ ds = [d \in DOMAIN ds |-> ds[d]]
        /\ \A d \in DOMAIN mem.docs : d # c => ds[d] = mem.docs[d]
    BY DEF ds
  <1>6. c \in DOMAIN mem.docs /\ c # 0
    BY DEF Made
  <1>7. old = [kids |-> old.kids, next |-> old.next, live |-> old.live]
        /\ Proper(old.kids) /\ old.live \in BOOLEAN
    BY <1>6 DEF MemoryOK, DocOK
  <1>8. ds[c] = [old EXCEPT !.kids = old.kids \o kids]
    BY <1>6 DEF ds
  <1> HIDE DEF old
  <1>9. ds[c] = [kids |-> old.kids \o kids, next |-> old.next, live |-> old.live]
    BY <1>7, <1>8
  <1>10. Proper(old.kids \o kids)
    BY <1>7, ProperConcat
  <1>11. DocOK(ds[c])
    <2> DEFINE all == old.kids \o kids
    <2>1. Proper(all) /\ ds[c] = [kids |-> all, next |-> old.next, live |-> old.live]
      BY <1>9, <1>10
    <2> HIDE DEF all
    <2> QED
      BY <1>7, <2>1 DEF DocOK
  <1>12. \A d \in DOMAIN ds : DocOK(ds[d])
    BY <1>5, <1>11 DEF MemoryOK
  <1>13. Made(new) = Made(mem)
    BY <1>4, <1>5 DEF Made
  <1>14. MemoryOK(new)
    <2>1. \E top \in Nat : DOMAIN ds = 0 .. top
      BY <1>5 DEF MemoryOK
    <2>2. ds[0] = [kids |-> Input, next |-> 0, live |-> TRUE]
      BY <1>5, <1>6, <2>1 DEF MemoryOK
    <2>3. mem.shadow \in [Mvars -> Seq(Made(new))]
      BY <1>13 DEF MemoryOK
    <2>4. \A m, n \in Mvars : m # n => ToSet(mem.shadow[m]) \cap ToSet(mem.shadow[n]) = {}
      BY DEF MemoryOK
    <2>5. new = [docs |-> new.docs, persistRVT |-> new.persistRVT, shadow |-> new.shadow]
      BY <1>3
    <2> QED
      BY <1>4, <1>5, <1>12, <2>1, <2>2, <2>3, <2>4, <2>5 DEF MemoryOK
  <1> QED
    BY <1>4, <1>5, <1>9, <1>13, <1>14 DEF new, old

LEMMA AddKeeps ==
    ASSUME NEW mem, NEW frag, MemoryInv(mem, frag), NEW c \in Made(mem), NEW kids, Proper(kids)
    PROVE  MemoryInv(Mvar!slaxMvarAdd(mem, c, kids), frag)
  <1> DEFINE new == Mvar!slaxMvarAdd(mem, c, kids)
             old == mem.docs[c]
  <1>1. MemoryOK(mem) /\ frag \in [Locals -> Nat]
    BY DEF MemoryInv
  <1>2. /\ MemoryOK(new) /\ Made(new) = Made(mem)
        /\ new.shadow = mem.shadow /\ new.persistRVT = mem.persistRVT
        /\ new.docs[c] = [kids |-> old.kids \o kids, next |-> old.next, live |-> old.live]
        /\ \A d \in DOMAIN mem.docs : d # c => new.docs[d] = mem.docs[d]
    BY <1>1, AddIs
  <1> HIDE DEF new
  <1>3. \A d \in Made(mem) : new.docs[d].next = mem.docs[d].next /\ new.docs[d].live = mem.docs[d].live
    <2>1. new.docs[c].next = mem.docs[c].next /\ new.docs[c].live = mem.docs[c].live
      BY <1>2
    <2> QED
      BY <1>2, <2>1 DEF Made
  <1>4. PICK P \in SUBSET Made(mem) : OwnedBy(mem, frag, P)
    BY DEF MemoryInv
  <1>5. \A m \in Mvars : ToSet(mem.shadow[m]) \subseteq Made(mem)
    BY <1>1 DEF MemoryOK, ToSet
  <1>6. OwnedBy(new, frag, P)
    <2>1. ASSUME NEW m \in Mvars
          PROVE  IF m \in Locals /\ frag[m] # 0
                 THEN /\ OwnList(new.docs, frag[m], ToSet(new.shadow[m]))
                      /\ ToSet(new.shadow[m]) \cap P = {}
                 ELSE ToSet(new.shadow[m]) \subseteq P
      <3>1. IF m \in Locals /\ frag[m] # 0
            THEN /\ OwnList(mem.docs, frag[m], ToSet(mem.shadow[m]))
                 /\ ToSet(mem.shadow[m]) \cap P = {}
            ELSE ToSet(mem.shadow[m]) \subseteq P
        BY <1>4 DEF OwnedBy
      <3> QED
        BY <1>2, <1>3, <1>5, <3>1 DEF OwnList
    <2>2. \A d \in P : new.docs[d].live /\ new.docs[d].next \in P \cup {0}
      BY <1>3, <1>4 DEF OwnedBy
    <2>3. P \subseteq Made(new) /\ new.persistRVT \in P \cup {0}
      BY <1>2, <1>4 DEF OwnedBy
    <2> QED
      BY <2>1, <2>2, <2>3 DEF OwnedBy
  <1>7. P \in SUBSET Made(new)
    BY <1>2
  <1>8. MemoryInv(new, frag)
    BY <1>1, <1>2, <1>6, <1>7 DEF MemoryInv
  <1> QED
    BY <1>8 DEF new

\* The container a set makes, and the one an append and a declaration use.
LEMMA ContainerKeeps ==
    ASSUME NEW mem, NEW frag, MemoryInv(mem, frag), NEW n \in Mvars
    PROVE  /\ LET new == Mvar!slaxMvarNewContainer(mem, n)
              IN MemoryInv(new, frag) /\ \E c : Fresh(mem, new, n, c, <<>>)
           /\ mem.shadow[n] = <<>> =>
              LET new == Mvar!slaxMvarLastContainer(mem, n)
              IN MemoryInv(new, frag) /\ \E c : Fresh(mem, new, n, c, <<>>)
           /\ mem.shadow[n] # <<>> => Mvar!slaxMvarLastContainer(mem, n) = mem
  <1>1. PICK top \in Nat : DOMAIN mem.docs = 0 .. top
    BY DEF MemoryInv, MemoryOK
  <1>2. ASSUME mem.shadow[n] = <<>>
        PROVE  /\ Fresh(mem, Mvar!Persistent(mem, n, <<>>), n, top + 1, <<>>)
               /\ MemoryInv(Mvar!Persistent(mem, n, <<>>), frag)
    BY <1>1, <1>2, ProperEmpty, RootKeeps
  <1>3. ASSUME mem.shadow[n] # <<>>
        PROVE  /\ Fresh(mem, Chained(mem, n), n, top + 1, <<>>)
               /\ MemoryInv(Chained(mem, n), frag)
    BY <1>1, <1>3, ChainKeeps
  <1>4. CASE mem.shadow[n] = <<>>
    <2>1. /\ Mvar!slaxMvarNewContainer(mem, n) = Mvar!Persistent(mem, n, <<>>)
          /\ Mvar!slaxMvarLastContainer(mem, n) = Mvar!Persistent(mem, n, <<>>)
      BY <1>4 DEF Mvar!slaxMvarNewContainer, Mvar!slaxMvarLastContainer, Mvar!slaxMvarGetSvarRoot
    <2> QED
      BY <1>2, <1>4, <2>1
  <1>5. CASE mem.shadow[n] # <<>>
    <2>1. /\ Mvar!slaxMvarNewContainer(mem, n) = Chained(mem, n)
          /\ Mvar!slaxMvarLastContainer(mem, n) = mem
      BY <1>5 DEF Mvar!slaxMvarNewContainer, Mvar!slaxMvarLastContainer, Mvar!slaxMvarGetSvarRoot,
                  Chained
    <2> QED
      BY <1>3, <1>5, <2>1
  <1> QED
    BY <1>4, <1>5

-----------------------------------------------------------------------------
(* What values hold *)

LEMMA WellParts ==
    ASSUME NEW ds, NEW nodes, RefersWell(ds, nodes)
    PROVE  /\ Len(nodes) \in Nat /\ Proper(nodes)
           /\ \A i \in 1 .. Len(nodes) :
                 /\ nodes[i][1] \in DOMAIN ds /\ nodes[i][2] \in Nat
                 /\ ds[nodes[i][1]].live
                 /\ nodes[i][2] <= Len(ds[nodes[i][1]].kids)
                 /\ nodes[i][2] = 0 => Whole(nodes)
           /\ Whole(nodes) => nodes[1][1] \in DOMAIN ds /\ ds[nodes[1][1]].live
  <1>1. nodes \in Seq((DOMAIN ds) \X Nat)
    BY DEF RefersWell
  <1>2. Len(nodes) \in Nat /\ Proper(nodes)
    BY <1>1, ProperSeq
  <1>3. ASSUME NEW i \in 1 .. Len(nodes)
        PROVE  nodes[i] \in (DOMAIN ds) \X Nat
    BY <1>1
  <1>4. ASSUME NEW i \in 1 .. Len(nodes)
        PROVE  /\ nodes[i][1] \in DOMAIN ds /\ nodes[i][2] \in Nat
               /\ ds[nodes[i][1]].live
               /\ nodes[i][2] <= Len(ds[nodes[i][1]].kids)
               /\ nodes[i][2] = 0 => Whole(nodes)
    <2>1. nodes[i][1] \in DOMAIN ds /\ nodes[i][2] \in Nat
      BY <1>3
    <2>2. /\ ds[nodes[i][1]].live
          /\ nodes[i][2] <= Len(ds[nodes[i][1]].kids)
          /\ nodes[i][2] = 0 => Len(nodes) = 1
      BY DEF RefersWell
    <2>3. Len(nodes) = 1 => i = 1
      BY <1>2
    <2> QED
      BY <2>1, <2>2, <2>3 DEF Whole
  <1>5. Whole(nodes) => 1 \in 1 .. Len(nodes)
    BY DEF Whole
  <1> QED
    BY <1>2, <1>4, <1>5

LEMMA ContentProper ==
    ASSUME NEW ds, NEW nodes, RefersWell(ds, nodes), \A d \in DOMAIN ds : Proper(ds[d].kids)
    PROVE  /\ Proper(ContentOf(ds, nodes))
           /\ ~Whole(nodes) =>
                 /\ Len(ContentOf(ds, nodes)) = Len(nodes)
                 /\ \A i \in 1 .. Len(nodes) :
                       ContentOf(ds, nodes)[i] = ds[nodes[i][1]].kids[nodes[i][2]]
  <1>1. CASE Whole(nodes)
    <2>1. ContentOf(ds, nodes) = ds[nodes[1][1]].kids
      BY <1>1 DEF ContentOf
    <2> QED
      BY <1>1, <2>1, WellParts
  <1>2. CASE ~Whole(nodes)
    <2> DEFINE f == [i \in 1 .. Len(nodes) |-> ds[nodes[i][1]].kids[nodes[i][2]]]
    <2>1. ContentOf(ds, nodes) = f
      BY <1>2 DEF ContentOf
    <2>2. f = [i \in 1 .. Len(nodes) |-> f[i]]
          /\ \A i \in 1 .. Len(nodes) : f[i] = ds[nodes[i][1]].kids[nodes[i][2]]
      OBVIOUS
    <2> HIDE DEF f
    <2>3. Proper(f) /\ Len(f) = Len(nodes)
      BY <2>2, ProperMade, WellParts
    <2> QED
      BY <1>2, <2>1, <2>2, <2>3
  <1> QED
    BY <1>1, <1>2

\* What copying a node set copies is what it refers to, all of it.
LEMMA ContentIs ==
    ASSUME NEW ds, NEW nodes, RefersWell(ds, nodes)
    PROVE  /\ Mvar!AllKids(ds, nodes) = ContentOf(ds, nodes)
           /\ Mvar!FragmentAt(nodes) = IF Whole(nodes) THEN 1 ELSE 0
           /\ Mvar!Copied(nodes) = nodes
  <1>0. Len(nodes) \in Nat /\ \A i \in 1 .. Len(nodes) : nodes[i][2] = 0 => Whole(nodes)
    BY WellParts
  <1> DEFINE kids(i) == Mvar!Kids(ds, nodes[i])
             e == [i \in 1 .. Len(nodes) |-> ds[nodes[i][1]].kids[nodes[i][2]]]
  <1>1. CASE Whole(nodes)
    <2>1. Len(nodes) = 1 /\ nodes[1][2] = 0
      BY <1>1 DEF Whole
    <2>2. [i \in 1 .. Len(nodes) |-> kids(i)] = <<ds[nodes[1][1]].kids>>
      <3>1. kids(1) = ds[nodes[1][1]].kids
        BY <2>1 DEF Mvar!Kids
      <3> HIDE DEF kids
      <3>2. [i \in 1 .. 1 |-> kids(i)] = <<kids(1)>>
        OBVIOUS
      <3> QED
        BY <2>1, <3>1, <3>2
    <2>3. Mvar!AllKids(ds, nodes) = ds[nodes[1][1]].kids
      BY <2>2, FlattenedOne DEF Mvar!AllKids
    <2>4. Mvar!FragmentAt(nodes) = 1
      <3>1. \A i \in 1 .. Len(nodes) : i = 1
        BY <2>1
      <3>2. \A j \in 1 .. 1 - 1 : nodes[j][2] # 0
        OBVIOUS
      <3>3. 1 \in 1 .. Len(nodes)
        BY <2>1
      <3> QED
        BY <2>1, <3>1, <3>2, <3>3 DEF Mvar!FragmentAt
    <2>5. SubSeq(nodes, 1, 1) = nodes
      <3>1. nodes \in Seq((DOMAIN ds) \X Nat)
        BY DEF RefersWell
      <3> QED
        BY <2>1, <3>1
    <2> QED
      BY <1>1, <2>1, <2>3, <2>4, <2>5 DEF ContentOf, Mvar!Copied
  <1>2. CASE ~Whole(nodes)
    <2>1. \A i \in 1 .. Len(nodes) : nodes[i][2] # 0
      BY <1>0, <1>2
    <2>2. [i \in 1 .. Len(nodes) |-> kids(i)] = [i \in 1 .. Len(nodes) |-> <<e[i]>>]
      <3>1. \A i \in 1 .. Len(nodes) : kids(i) = <<e[i]>>
        BY <2>1 DEF Mvar!Kids
      <3> HIDE DEF kids, e
      <3> QED
        BY <3>1
    <2>3. Mvar!FlattenSeq([i \in 1 .. Len(nodes) |-> <<e[i]>>]) = e
      <3>1. e = [i \in 1 .. Len(nodes) |-> e[i]]
        OBVIOUS
      <3> HIDE DEF e
      <3> QED
        BY <1>0, <3>1, FlattenedSingles
    <2>4. Mvar!AllKids(ds, nodes) = e
      BY <2>2, <2>3 DEF Mvar!AllKids
    <2>5. Mvar!FragmentAt(nodes) = 0
      BY <2>1 DEF Mvar!FragmentAt
    <2> QED
      BY <1>2, <2>4, <2>5 DEF ContentOf, Mvar!Copied
  <1> QED
    BY <1>1, <1>2

\* Documents ds2 are ds, where only c may be new or have more children.
Grows(ds, ds2, c) ==
    \A d \in DOMAIN ds :
        /\ d \in DOMAIN ds2 /\ ds2[d].live = ds[d].live
        /\ Extends(ds[d].kids, ds2[d].kids)
        /\ d # c => ds2[d].kids = ds[d].kids

LEMMA ExtendsSelf == ASSUME NEW s, Proper(s) PROVE Extends(s, s)
  BY ProperParts DEF Extends

LEMMA ExtendsMore == ASSUME NEW s, NEW t, Proper(s), Proper(t) PROVE Extends(s, s \o t)
  <1>1. /\ Proper(s \o t) /\ Len(s \o t) = Len(s) + Len(t)
        /\ \A i \in 1 .. Len(s) : (s \o t)[i] = s[i]
    BY ProperConcat
  <1>2. Len(s) \in Nat /\ Len(t) \in Nat
    BY ProperParts
  <1> QED
    BY <1>1, <1>2 DEF Extends

LEMMA ExtendsOn ==
    ASSUME NEW s, NEW t, NEW u, Extends(s, t), Extends(t, u)
    PROVE  Extends(s, u)
  <1>1. Len(s) \in Nat /\ Len(t) \in Nat /\ Len(u) \in Nat
    BY ProperParts DEF Extends
  <1>2. Len(s) <= Len(u)
    BY <1>1 DEF Extends
  <1>3. \A i \in 1 .. Len(s) : u[i] = s[i]
    <2>1. ASSUME NEW i \in 1 .. Len(s) PROVE u[i] = s[i]
      <3>1. i \in 1 .. Len(t)
        BY <1>1 DEF Extends
      <3> QED
        BY <3>1 DEF Extends
    <2> QED
      BY <2>1
  <1> QED
    BY <1>2, <1>3 DEF Extends

LEMMA FreshGrows ==
    ASSUME NEW mem, MemoryOK(mem), NEW new, NEW n, NEW c, NEW kids, Fresh(mem, new, n, c, kids)
    PROVE  /\ Grows(mem.docs, new.docs, c) /\ c \notin DOMAIN mem.docs
           /\ new.docs[c].kids = kids /\ new.docs[c].live /\ c \in DOMAIN new.docs
  <1>1. ASSUME NEW d \in DOMAIN mem.docs
        PROVE  /\ d \in DOMAIN new.docs /\ new.docs[d].live = mem.docs[d].live
               /\ new.docs[d].kids = mem.docs[d].kids /\ Proper(mem.docs[d].kids)
    <2>1. /\ d \in DOMAIN new.docs
          /\ new.docs[d] = [kids |-> mem.docs[d].kids, next |-> new.docs[d].next,
                            live |-> mem.docs[d].live]
      <3>1. DOMAIN mem.docs = 0 .. (c - 1) /\ c \in Nat /\ DOMAIN new.docs = 0 .. c
        BY DEF Fresh
      <3>2. d \in 0 .. (c - 1) /\ d \in 0 .. c
        BY <3>1
      <3> QED
        BY <3>1, <3>2 DEF Fresh
    <2>2. Proper(mem.docs[d].kids)
      BY DEF MemoryOK, DocOK
    <2>3. new.docs[d].live = mem.docs[d].live /\ new.docs[d].kids = mem.docs[d].kids
      BY ONLY <2>1
    <2> QED
      BY <2>1, <2>2, <2>3
  <1>2. new.docs[c] = [kids |-> kids, next |-> new.docs[c].next, live |-> TRUE]
        /\ c \notin DOMAIN mem.docs /\ c \in DOMAIN new.docs
    BY DEF Fresh
  <1>3. new.docs[c].kids = kids /\ new.docs[c].live
    BY ONLY <1>2
  <1> QED
    BY <1>1, <1>2, <1>3, ExtendsSelf DEF Grows

LEMMA AddGrows ==
    ASSUME NEW mem, MemoryOK(mem), NEW c \in Made(mem), NEW kids, Proper(kids)
    PROVE  Grows(mem.docs, Mvar!slaxMvarAdd(mem, c, kids).docs, c)
  <1> DEFINE new == Mvar!slaxMvarAdd(mem, c, kids)
             old == mem.docs[c]
  <1>1. /\ DOMAIN new.docs = DOMAIN mem.docs
        /\ new.docs[c] = [kids |-> old.kids \o kids, next |-> old.next, live |-> old.live]
        /\ \A d \in DOMAIN mem.docs : d # c => new.docs[d] = mem.docs[d]
    BY AddIs
  <1> HIDE DEF new
  <1>2. new.docs[c].kids = old.kids \o kids /\ new.docs[c].live = old.live
    BY <1>1
  <1>3. \A d \in DOMAIN mem.docs : Proper(mem.docs[d].kids)
    BY DEF MemoryOK, DocOK
  <1>4. Extends(old.kids, new.docs[c].kids)
    BY <1>2, <1>3, ExtendsMore DEF Made
  <1>5. Grows(mem.docs, new.docs, c)
    BY <1>1, <1>2, <1>3, <1>4, ExtendsSelf DEF Grows
  <1> QED
    BY <1>5 DEF new

LEMMA GrowsOn ==
    ASSUME NEW ds, NEW ds2, NEW ds3, NEW c, Grows(ds, ds2, c), Grows(ds2, ds3, c)
    PROVE  Grows(ds, ds3, c)
  BY ExtendsOn DEF Grows

LEMMA GrownRefers ==
    ASSUME NEW ds, NEW ds2, NEW c, Grows(ds, ds2, c), NEW nodes, RefersWell(ds, nodes)
    PROVE  RefersWell(ds2, nodes)
  <1>1. \A i \in 1 .. Len(nodes) :
           /\ nodes[i][1] \in DOMAIN ds /\ nodes[i][2] \in Nat
           /\ ds[nodes[i][1]].live
           /\ nodes[i][2] <= Len(ds[nodes[i][1]].kids)
    BY WellParts
  <1>2. nodes \in Seq((DOMAIN ds) \X Nat) /\ \A i \in 1 .. Len(nodes) : nodes[i][2] = 0 => Len(nodes) = 1
    BY DEF RefersWell
  <1>3. DOMAIN ds \subseteq DOMAIN ds2
    BY DEF Grows
  <1>4. nodes \in Seq((DOMAIN ds2) \X Nat)
    <2>1. (DOMAIN ds) \X Nat \subseteq (DOMAIN ds2) \X Nat
      BY <1>3
    <2> QED
      BY <1>2, <2>1
  <1>5. ASSUME NEW i \in 1 .. Len(nodes)
        PROVE  ds2[nodes[i][1]].live /\ nodes[i][2] <= Len(ds2[nodes[i][1]].kids)
    <2> DEFINE k == ds[nodes[i][1]].kids
               k2 == ds2[nodes[i][1]].kids
    <2>1. Len(k) <= Len(k2) /\ Len(k) \in Nat /\ Len(k2) \in Nat
      BY <1>1, ProperParts DEF Grows, Extends
    <2>2. nodes[i][2] <= Len(k) /\ nodes[i][2] \in Nat
      BY <1>1
    <2>3. ds2[nodes[i][1]].live
      BY <1>1 DEF Grows
    <2> HIDE DEF k, k2
    <2>4. nodes[i][2] <= Len(k2)
      BY <2>1, <2>2
    <2> QED
      BY <2>3, <2>4 DEF k2
  <1> QED
    BY <1>2, <1>4, <1>5 DEF RefersWell

\* Only what refers to a fragment as a whole sees it grow.
LEMMA GrownContent ==
    ASSUME NEW ds, NEW ds2, NEW c, Grows(ds, ds2, c), NEW nodes, RefersWell(ds, nodes),
           Whole(nodes) => nodes[1][1] # c
    PROVE  ContentOf(ds2, nodes) = ContentOf(ds, nodes)
  <1>1. CASE Whole(nodes)
    BY <1>1, WellParts DEF ContentOf, Grows
  <1>2. CASE ~Whole(nodes)
    <2>1. ASSUME NEW i \in 1 .. Len(nodes)
          PROVE  ds2[nodes[i][1]].kids[nodes[i][2]] = ds[nodes[i][1]].kids[nodes[i][2]]
      <3>1. /\ nodes[i][1] \in DOMAIN ds /\ nodes[i][2] \in Nat
            /\ nodes[i][2] <= Len(ds[nodes[i][1]].kids) /\ nodes[i][2] # 0
        BY <1>2, WellParts
      <3>2. Extends(ds[nodes[i][1]].kids, ds2[nodes[i][1]].kids)
        BY <3>1 DEF Grows
      <3>3. nodes[i][2] \in 1 .. Len(ds[nodes[i][1]].kids)
        BY <3>1, <3>2, ProperParts DEF Extends
      <3> QED
        BY <3>2, <3>3 DEF Extends
    <2> QED
      BY <1>2, <2>1 DEF ContentOf
  <1> QED
    BY <1>1, <1>2

LEMMA GrownSeen ==
    ASSUME NEW ds, NEW ds2, NEW c, Grows(ds, ds2, c), NEW v, NEW was,
           RefersWell(ds, v.nodes), SeenStill(ds, v, was)
    PROVE  SeenStill(ds2, v, was)
  <1>1. CASE Whole(v.nodes)
    <2> DEFINE d == v.nodes[1][1]
    <2>1. d \in DOMAIN ds
      BY <1>1, WellParts
    <2>2. Extends(ds[d].kids, ds2[d].kids)
      BY <2>1 DEF Grows
    <2>3. ContentOf(ds, v.nodes) = ds[d].kids /\ ContentOf(ds2, v.nodes) = ds2[d].kids
      BY <1>1 DEF ContentOf
    <2> HIDE DEF d
    <2>4. Extends(was, ContentOf(ds2, v.nodes))
      BY <2>2, <2>3, ExtendsOn DEF SeenStill
    <2> QED
      BY <1>1, <2>4 DEF SeenStill
  <1>2. CASE ~Whole(v.nodes)
    <2>1. ContentOf(ds2, v.nodes) = ContentOf(ds, v.nodes)
      BY <1>2, GrownContent
    <2> QED
      BY <2>1 DEF SeenStill
  <1> QED
    BY <1>1, <1>2

\* What a value holds, in the terms of the specification.
AsHeld(ds, v) ==
    CASE v.kind = "nodes" -> [kind |-> "nodes", str |-> "", nodes |-> ContentOf(ds, v.nodes)]
      [] v.kind = "tree" -> [kind |-> "nodes", str |-> "", nodes |-> v.tree]
      [] OTHER -> [kind |-> v.kind, str |-> v.str, nodes |-> <<>>]

LEMMA ValueFields ==
    /\ Mvar!Nothing.kind = "none" /\ Mvar!Nothing.str = "" /\ Mvar!Nothing.nodes = <<>>
    /\ \A x : /\ Mvar!Text(x).kind = "string" /\ Mvar!Text(x).str = x /\ Mvar!Text(x).nodes = <<>>
              /\ Mvar!NodeSet(x).kind = "nodes" /\ Mvar!NodeSet(x).nodes = x
              /\ Mvar!Block(x).kind = "tree" /\ Mvar!Block(x).tree = x /\ Mvar!Block(x).nodes = <<>>
    /\ Mvar!Promise!Nothing.kind = "none"
    /\ \A x : Mvar!Promise!Text(x).kind = "string" /\ Mvar!Promise!Nodes(x).kind = "nodes"
  BY DEF Mvar!Nothing, Mvar!Text, Mvar!NodeSet, Mvar!Block,
         Mvar!Promise!Nothing, Mvar!Promise!Text, Mvar!Promise!Nodes

LEMMA HeldOf ==
    ASSUME NEW ds, NEW v, ValueOK(v), RefersWell(ds, v.nodes)
    PROVE  /\ v.kind = "nodes" =>
                 AsHeld(ds, v) = [kind |-> "nodes", str |-> "", nodes |-> Mvar!Content(ds, v)]
           /\ v.kind \notin {"nodes", "tree"} =>
                 AsHeld(ds, v) = [kind |-> v.kind, str |-> v.str, nodes |-> <<>>]
           /\ v.kind # "tree"
  <1>1. v.kind \in {"none", "string", "nodes"}
    BY ValueFields DEF ValueOK
  <1>2. Mvar!AllKids(ds, v.nodes) = ContentOf(ds, v.nodes)
    BY ContentIs
  <1>3. Mvar!Content(ds, v) = IF v.kind = "tree" THEN v.tree ELSE ContentOf(ds, v.nodes)
    BY <1>2 DEF Mvar!Content
  <1> QED
    BY <1>1, <1>3 DEF AsHeld

LEMMA ValueKinds == ASSUME NEW v, ValueOK(v) PROVE v.kind \in {"none", "string", "nodes"}
  BY ValueFields DEF ValueOK

LEMMA HeldIs ==
    ASSUME NEW n, ValueOK(values[n]), RefersWell(docs, values[n].nodes)
    PROVE  Mvar!Held(n) = AsHeld(docs, values[n])
  BY HeldOf, ValueKinds DEF Mvar!Held, Mvar!HeldBy

LEMMA HeldKinds ==
    ASSUME NEW ds, NEW v, ValueOK(v)
    PROVE  /\ v = Mvar!Nothing => v.nodes = <<>> /\ AsHeld(ds, v) = Mvar!Promise!Nothing
           /\ v = Mvar!Text(v.str) => v.nodes = <<>> /\ AsHeld(ds, v) = Mvar!Promise!Text(v.str)
           /\ v = Mvar!NodeSet(v.nodes) =>
                 AsHeld(ds, v) = Mvar!Promise!Nodes(ContentOf(ds, v.nodes))
           /\ AsHeld(ds, v) = Mvar!Promise!Nothing => v = Mvar!Nothing
           /\ v # Mvar!Nothing => AsHeld(ds, v) # Mvar!Promise!Nothing
  <1>1. v = Mvar!Nothing => v.nodes = <<>> /\ AsHeld(ds, v) = Mvar!Promise!Nothing
    BY ValueFields DEF AsHeld, Mvar!Promise!Nothing
  <1>2. ASSUME v = Mvar!Text(v.str)
        PROVE  /\ v.nodes = <<>> /\ AsHeld(ds, v) = Mvar!Promise!Text(v.str)
               /\ AsHeld(ds, v) # Mvar!Promise!Nothing
    <2>1. v.kind = "string" /\ v.nodes = <<>>
      <3>1. /\ Mvar!Text(v.str).kind = "string"
            /\ Mvar!Text(v.str).nodes = <<>>
        BY ValueFields
      <3> QED
        BY <1>2, <3>1
    <2>2. AsHeld(ds, v) = Mvar!Promise!Text(v.str)
      BY <2>1 DEF AsHeld, Mvar!Promise!Text
    <2> QED
      BY <2>1, <2>2, ValueFields
  <1>3. ASSUME v = Mvar!NodeSet(v.nodes)
        PROVE  /\ AsHeld(ds, v) = Mvar!Promise!Nodes(ContentOf(ds, v.nodes))
               /\ AsHeld(ds, v) # Mvar!Promise!Nothing
    <2>1. v.kind = "nodes"
      BY <1>3, ValueFields
    <2>2. AsHeld(ds, v) = Mvar!Promise!Nodes(ContentOf(ds, v.nodes))
      BY <2>1 DEF AsHeld, Mvar!Promise!Nodes
    <2> QED
      BY <2>1, <2>2, ValueFields
  <1> QED
    BY <1>1, <1>2, <1>3 DEF ValueOK

LEMMA InvParts ==
    ASSUME MvarInv, phase # "done"
    PROVE  /\ MemoryOK(Mvar!Memory) /\ MemoryInv(Mvar!Memory, fragment)
           /\ Mvar!Memory.docs = docs /\ Mvar!Memory.shadow = shadow
           /\ Mvar!Memory.persistRVT = persistRVT
           /\ \A n \in Variables : ValueOK(values[n]) /\ RefersWell(docs, values[n].nodes)
           /\ \A n \in Mvars : RefersToOwn(shadow[n], values[n]) /\ shadow[n] \in Seq(Made(Mvar!Memory))
           /\ \A n \in Others : values[n] = Mvar!Nothing \/ SeenStill(docs, values[n], seen[n])
           /\ \A d \in DOMAIN docs : Proper(docs[d].kids)
           /\ \A m, n \in Mvars : m # n => ToSet(shadow[m]) \cap ToSet(shadow[n]) = {}
           /\ values = [n \in Variables |-> values[n]] /\ seen = [n \in Others |-> seen[n]]
  <1>1. MemoryInv(Mvar!Memory, fragment) /\ ValuesInv(docs, shadow, values, seen)
    BY DEF MvarInv
  <1>2. MemoryOK(Mvar!Memory)
    BY <1>1 DEF MemoryInv
  <1>3. /\ Mvar!Memory.docs = docs /\ Mvar!Memory.shadow = shadow
        /\ Mvar!Memory.persistRVT = persistRVT
    BY DEF Mvar!Memory
  <1>4. \A d \in DOMAIN docs : Proper(docs[d].kids)
    BY <1>2, <1>3 DEF MemoryOK, DocOK
  <1>5. /\ \A n \in Mvars : shadow[n] \in Seq(Made(Mvar!Memory))
        /\ \A m, n \in Mvars : m # n => ToSet(shadow[m]) \cap ToSet(shadow[n]) = {}
    BY <1>2, <1>3 DEF MemoryOK
  <1>6. values = [n \in Variables |-> values[n]] /\ seen = [n \in Others |-> seen[n]]
    BY DEF MvarInv
  <1> QED
    BY <1>1, <1>2, <1>3, <1>4, <1>5, <1>6 DEF ValuesInv

LEMMA HoldingIs ==
    ASSUME MvarInv, phase # "done"
    PROVE  /\ Mvar!Holding = [m \in Mvars |-> AsHeld(docs, values[m])]
           /\ Mvar!Elsewhere = {AsHeld(docs, values[m]) : m \in Others}
  <1>1. \A n \in Variables : Mvar!Held(n) = AsHeld(docs, values[n])
    BY InvParts, HeldIs
  <1>2. Mvar!Mvars = Mvars /\ Mvars \subseteq Variables /\ Others \subseteq Variables
    BY MvarConstants DEF Variables
  <1>3. \A n \in Mvars : Mvar!Held(n) = AsHeld(docs, values[n])
    BY <1>1, <1>2
  <1>4. \A n \in Others : Mvar!Held(n) = AsHeld(docs, values[n])
    BY <1>1, <1>2
  <1> QED
    BY <1>2, <1>3, <1>4 DEF Mvar!Holding, Mvar!Elsewhere

LEMMA LastIn ==
    ASSUME NEW S, NEW s \in Seq(S), s # <<>>
    PROVE  s[Len(s)] \in ToSet(s) /\ s[Len(s)] \in S /\ Mvar!Last(s) = s[Len(s)]
  BY DEF ToSet, Mvar!Last

\* Documents that another variable than n does not own: its content stays.
LEMMA OwnStays ==
    ASSUME NEW ds, NEW ds2, NEW c, Grows(ds, ds2, c), NEW v, RefersWell(ds, v.nodes),
           NEW S, NEW own \in Seq(S), RefersToOwn(own, v), c \notin ToSet(own)
    PROVE  AsHeld(ds2, v) = AsHeld(ds, v)
  <1>1. Whole(v.nodes) => v.nodes[1][1] # c
    <2> SUFFICES ASSUME Whole(v.nodes) PROVE v.nodes[1][1] # c
      OBVIOUS
    <2>1. 1 \in 1 .. Len(v.nodes)
      BY DEF Whole
    <2>2. own # <<>> /\ v.nodes[1][1] = own[Len(own)]
      BY <2>1 DEF RefersToOwn
    <2> QED
      BY <2>2, LastIn
  <1>2. ContentOf(ds2, v.nodes) = ContentOf(ds, v.nodes)
    BY <1>1, GrownContent
  <1> QED
    BY <1>2 DEF AsHeld

\* A mutable variable gets another value, in memory where only its own last
\* container, c, is new or has more children.
LEMMA BecomesKeeps ==
    ASSUME MvarInv, phase # "done", phase' \in {"global", "template"}, seen' = seen,
           NEW n \in Mvars, NEW mem, NEW value, Mvar!Becomes(mem, n, value),
           MemoryInv(mem, fragment'),
           NEW c, Grows(docs, mem.docs, c),
           \A m \in Mvars : m # n => mem.shadow[m] = shadow[m] /\ c \notin ToSet(shadow[m]),
           ValueOK(value), RefersWell(mem.docs, value.nodes),
           RefersToOwn(mem.shadow[n], value)
    PROVE  /\ MvarInv'
           /\ Mvar!Holding' = [Mvar!Holding EXCEPT ![n] = AsHeld(mem.docs, value)]
  <1>1. /\ docs' = mem.docs /\ persistRVT' = mem.persistRVT /\ shadow' = mem.shadow
        /\ values' = [values EXCEPT ![n] = value]
    BY DEF Mvar!Becomes
  <1>2. /\ \A m \in Variables : ValueOK(values[m]) /\ RefersWell(docs, values[m].nodes)
        /\ \A m \in Mvars : RefersToOwn(shadow[m], values[m]) /\ shadow[m] \in Seq(Made(Mvar!Memory))
        /\ \A m \in Others : values[m] = Mvar!Nothing \/ SeenStill(docs, values[m], seen[m])
        /\ values = [m \in Variables |-> values[m]] /\ seen = [m \in Others |-> seen[m]]
    BY InvParts
  <1>3. n \in Variables /\ n \notin Others /\ Mvars \subseteq Variables /\ Others \subseteq Variables
    BY MvarConstants DEF Variables
  <1>4. /\ values' = [m \in Variables |-> values'[m]] /\ values'[n] = value
        /\ \A m \in Variables : m # n => values'[m] = values[m]
    BY <1>1, <1>2, <1>3
  <1>5. mem = [docs |-> mem.docs, persistRVT |-> mem.persistRVT, shadow |-> mem.shadow]
    BY DEF MemoryInv, MemoryOK
  <1>6. Mvar!Memory' = mem
    BY <1>1, <1>5 DEF Mvar!Memory
  <1>7. ValuesInv(mem.docs, mem.shadow, values', seen)
    <2>1. ASSUME NEW m \in Variables
          PROVE  ValueOK(values'[m]) /\ RefersWell(mem.docs, values'[m].nodes)
      BY <1>2, <1>4, GrownRefers
    <2>2. ASSUME NEW m \in Mvars PROVE RefersToOwn(mem.shadow[m], values'[m])
      BY <1>2, <1>3, <1>4
    <2>3. ASSUME NEW m \in Others, values'[m] # Mvar!Nothing
          PROVE  SeenStill(mem.docs, values'[m], seen[m])
      <3>1. m \in Variables /\ m # n /\ values'[m] = values[m]
        BY <1>3, <1>4
      <3>2. SeenStill(docs, values[m], seen[m]) /\ RefersWell(docs, values[m].nodes)
        BY <1>2, <2>3, <3>1
      <3> QED
        BY <3>1, <3>2, GrownSeen
    <2> QED
      BY <2>1, <2>2, <2>3 DEF ValuesInv
  <1>8. MvarInv'
    <2>1. MemoryInv(Mvar!Memory, fragment)'
      BY <1>6
    <2>2. ValuesInv(docs, shadow, values, seen)'
      BY <1>1, <1>7
    <2> QED
      BY <1>2, <1>4, <2>1, <2>2 DEF MvarInv
  <1>9. Mvar!Holding' = [Mvar!Holding EXCEPT ![n] = AsHeld(mem.docs, value)]
    <2>1. Mvar!Holding = [m \in Mvars |-> AsHeld(docs, values[m])]
      BY HoldingIs
    <2>2. \A m \in Mvars : Mvar!Held(m)' = AsHeld(mem.docs, values'[m])
      <3>1. \A m \in Variables : ValueOK(values[m])' /\ RefersWell(docs, values[m].nodes)'
        BY <1>1, <1>7 DEF ValuesInv
      <3> SUFFICES ASSUME NEW m \in Mvars PROVE Mvar!Held(m)' = AsHeld(docs, values[m])'
        BY <1>1
      <3>2. ValueOK(values[m])' /\ RefersWell(docs, values[m].nodes)'
        BY <1>3, <3>1
      <3>3. ValueOK(values'[m]) /\ RefersWell(docs', values'[m].nodes)
        BY <3>2
      <3>4. Mvar!Held(m)' = AsHeld(docs', values'[m])
        <4> DEFINE v == values'[m]
        <4>1. /\ v.kind \in {"nodes", "tree"} =>
                    Mvar!Held(m)' = [kind |-> "nodes", str |-> "", nodes |-> Mvar!Content(docs', v)]
              /\ v.kind \notin {"nodes", "tree"} =>
                    Mvar!Held(m)' = [kind |-> v.kind, str |-> v.str, nodes |-> <<>>]
          BY DEF Mvar!Held, Mvar!HeldBy
        <4> HIDE DEF v
        <4>2. ValueOK(v) /\ RefersWell(docs', v.nodes)
          BY <3>3 DEF v
        <4> QED
          BY <4>1, <4>2, HeldOf DEF v
      <3> QED
        BY <3>4
    <2>3. \A m \in Mvars : m # n => AsHeld(mem.docs, values'[m]) = AsHeld(docs, values[m])
      <3> SUFFICES ASSUME NEW m \in Mvars, m # n
                   PROVE  AsHeld(mem.docs, values[m]) = AsHeld(docs, values[m])
        BY <1>3, <1>4
      <3>1. /\ RefersWell(docs, values[m].nodes) /\ RefersToOwn(shadow[m], values[m])
            /\ shadow[m] \in Seq(Made(Mvar!Memory)) /\ c \notin ToSet(shadow[m])
        BY <1>2, <1>3
      <3> QED
        BY <3>1, OwnStays
    <2>4. Mvar!Holding' = [m \in Mvars |-> AsHeld(mem.docs, values'[m])]
      BY <2>2, MvarConstants DEF Mvar!Holding
    <2> QED
      BY <1>4, <2>1, <2>3, <2>4
  <1> QED
    BY <1>8, <1>9

LEMMA EmptyConcat == ASSUME NEW x PROVE <<>> \o <<x>> = <<x>>
  OBVIOUS

\* The nodes that were added are those that are there now.
LEMMA AddedIs ==
    ASSUME NEW mem, MemoryOK(mem), NEW c \in Made(mem), mem.docs[c].live, NEW kids, Proper(kids)
    PROVE  LET ds == Mvar!slaxMvarAdd(mem, c, kids).docs
               nodes == Mvar!Added(mem, c, Len(kids))
           IN /\ RefersWell(ds, nodes) /\ ~Whole(nodes)
              /\ Len(nodes) = Len(kids)
              /\ \A i \in 1 .. Len(nodes) : nodes[i] = <<c, Len(mem.docs[c].kids) + i>>
              /\ ContentOf(ds, nodes) = kids
  <1> DEFINE new == Mvar!slaxMvarAdd(mem, c, kids)
             ds == new.docs
             k == Len(mem.docs[c].kids)
             nodes == Mvar!Added(mem, c, Len(kids))
             old == mem.docs[c]
  <1>1. /\ DOMAIN ds = DOMAIN mem.docs
        /\ ds[c] = [kids |-> old.kids \o kids, next |-> old.next, live |-> old.live]
    <2>1. MemoryOK(mem) /\ c \in Made(mem) /\ Proper(kids)
      OBVIOUS
    <2> QED
      BY ONLY <2>1, AddIs
  <1> HIDE DEF new
  <1>2. c \in DOMAIN mem.docs /\ Proper(old.kids)
    BY DEF Made, MemoryOK, DocOK
  <1>3. k \in Nat /\ Len(kids) \in Nat
    BY <1>2, ProperParts
  <1> HIDE DEF ds
  <1>4. ds[c].kids = old.kids \o kids /\ ds[c].live = old.live
    BY <1>1
  <1>5. /\ Len(ds[c].kids) = k + Len(kids)
        /\ \A i \in 1 .. Len(kids) : ds[c].kids[k + i] = kids[i]
    <2> DEFINE ok == old.kids
    <2>1. Proper(ok) /\ k = Len(ok) /\ ds[c].kids = ok \o kids
      BY <1>2, <1>4
    <2> HIDE DEF ok, k, ds
    <2> QED
      BY <2>1, ProperConcat
  <1>6. nodes = [i \in 1 .. Len(kids) |-> <<c, k + i>>]
    BY DEF Mvar!Added
  <1> HIDE DEF k, nodes, old
  <1>7. /\ \A i \in 1 .. Len(kids) : nodes[i] = <<c, k + i>>
        /\ nodes \in Seq((DOMAIN ds) \X Nat) /\ Len(nodes) = Len(kids)
    <2>1. \A i \in 1 .. Len(kids) : <<c, k + i>> \in (DOMAIN ds) \X Nat
      BY <1>1, <1>2, <1>3
    <2>2. nodes \in [1 .. Len(kids) -> (DOMAIN ds) \X Nat]
      BY <1>6, <2>1
    <2>3. nodes \in Seq((DOMAIN ds) \X Nat) /\ Len(nodes) = Len(kids)
      BY <1>3, <2>2
    <2> QED
      BY <1>6, <2>3
  <1>8. \A i \in 1 .. Len(nodes) : /\ nodes[i][1] = c /\ nodes[i][2] = k + i
                                   /\ nodes[i][2] <= Len(ds[c].kids) /\ nodes[i][2] # 0
    <2> SUFFICES ASSUME NEW i \in 1 .. Len(kids)
                 PROVE  /\ nodes[i][1] = c /\ nodes[i][2] = k + i
                        /\ nodes[i][2] <= Len(ds[c].kids) /\ nodes[i][2] # 0
      BY <1>7
    <2>1. nodes[i][1] = c /\ nodes[i][2] = k + i
      BY <1>7
    <2> QED
      BY <1>3, <1>5, <2>1
  <1>9. ~Whole(nodes)
    <2> SUFFICES ASSUME Whole(nodes) PROVE FALSE
      OBVIOUS
    <2>1. 1 \in 1 .. Len(nodes) /\ nodes[1][2] = 0
      BY DEF Whole
    <2> QED
      BY <1>8, <2>1
  <1>10. RefersWell(ds, nodes)
    BY <1>4, <1>7, <1>8 DEF RefersWell, old
  <1>11. ContentOf(ds, nodes) = kids
    <2>1. ContentOf(ds, nodes) = [i \in 1 .. Len(nodes) |-> ds[nodes[i][1]].kids[nodes[i][2]]]
      BY <1>9 DEF ContentOf
    <2>2. \A i \in 1 .. Len(nodes) : ds[nodes[i][1]].kids[nodes[i][2]] = kids[i]
      BY <1>5, <1>7, <1>8
    <2>3. kids = [i \in 1 .. Len(kids) |-> kids[i]]
      BY ProperParts
    <2> QED
      BY <1>7, <2>1, <2>2, <2>3
  <1> QED
    BY <1>7, <1>9, <1>10, <1>11 DEF ds, nodes, k, old, new

LEMMA WholeIs ==
    ASSUME NEW ds, NEW c \in DOMAIN ds, c \in Nat, ds[c].live, Proper(ds[c].kids)
    PROVE  /\ Whole(<<<<c, 0>>>>) /\ RefersWell(ds, <<<<c, 0>>>>)
           /\ Len(<<<<c, 0>>>>) = 1 /\ <<<<c, 0>>>>[1] = <<c, 0>>
           /\ ContentOf(ds, <<<<c, 0>>>>) = ds[c].kids
  <1> DEFINE nodes == <<<<c, 0>>>>
  <1>1. Len(nodes) = 1 /\ nodes[1] = <<c, 0>> /\ nodes \in Seq((DOMAIN ds) \X Nat)
    OBVIOUS
  <1> HIDE DEF nodes
  <1>2. nodes[1][1] = c /\ nodes[1][2] = 0
    BY <1>1
  <1>3. Len(ds[c].kids) \in Nat
    BY ProperParts
  <1>4. \A i \in 1 .. Len(nodes) : i = 1
    BY <1>1
  <1>5. Whole(nodes)
    BY <1>1, <1>2 DEF Whole
  <1>6. RefersWell(ds, nodes)
    BY <1>1, <1>2, <1>3, <1>4 DEF RefersWell
  <1>7. ContentOf(ds, nodes) = ds[c].kids
    BY <1>2, <1>5 DEF ContentOf
  <1> QED
    BY <1>1, <1>5, <1>6, <1>7 DEF nodes

LEMMA HeldNodes ==
    ASSUME NEW ds, NEW nodes
    PROVE  AsHeld(ds, Mvar!NodeSet(nodes))
              = [kind |-> "nodes", str |-> "", nodes |-> ContentOf(ds, nodes)]
  BY ValueFields DEF AsHeld

\* A fragment of a container that was empty is what was added to it.
LEMMA WholeAdded ==
    ASSUME NEW mem, MemoryOK(mem), NEW c \in Made(mem), mem.docs[c].live, mem.docs[c].kids = <<>>,
           NEW kids, Proper(kids)
    PROVE  LET ds == Mvar!slaxMvarAdd(mem, c, kids).docs
           IN /\ RefersWell(ds, <<<<c, 0>>>>) /\ ContentOf(ds, <<<<c, 0>>>>) = kids
              /\ Len(<<<<c, 0>>>>) = 1 /\ <<<<c, 0>>>>[1] = <<c, 0>>
  <1> DEFINE new == Mvar!slaxMvarAdd(mem, c, kids)
             ds == new.docs
             old == mem.docs[c]
  <1>1. /\ DOMAIN ds = DOMAIN mem.docs
        /\ ds[c] = [kids |-> old.kids \o kids, next |-> old.next, live |-> old.live]
    <2>1. MemoryOK(mem) /\ c \in Made(mem) /\ Proper(kids)
      OBVIOUS
    <2> QED
      BY ONLY <2>1, AddIs
  <1> HIDE DEF ds
  <1>2. ds[c].kids = old.kids \o kids /\ ds[c].live = old.live
    BY <1>1
  <1>3. <<>> \o kids = kids
    BY DEF Proper
  <1>4. ds[c].kids = kids /\ ds[c].live
    BY <1>2, <1>3
  <1>5. c \in DOMAIN ds /\ c \in Nat
    BY <1>1 DEF Made, MemoryOK
  <1>6. /\ RefersWell(ds, <<<<c, 0>>>>) /\ ContentOf(ds, <<<<c, 0>>>>) = kids
        /\ Len(<<<<c, 0>>>>) = 1 /\ <<<<c, 0>>>>[1] = <<c, 0>>
    BY <1>4, <1>5, WholeIs
  <1> QED
    BY <1>6 DEF ds

\* A node set or a block that can be copied.
Copiable(ds, v) ==
    \/ v = Mvar!Block(v.tree) /\ Proper(v.tree)
    \/ v = Mvar!NodeSet(v.nodes) /\ RefersWell(ds, v.nodes)

\* The nodes of a copy are in the container c, and hold what was to be copied.
CopyOf(ds, c, res, kids) ==
    /\ RefersWell(ds, res) /\ ContentOf(ds, res) = kids
    /\ \A i \in 1 .. Len(res) : res[i][1] = c

LEMMA CopiableHeld ==
    ASSUME NEW ds, NEW v, Copiable(ds, v), \A d \in DOMAIN ds : Proper(ds[d].kids)
    PROVE  /\ Proper(AsHeld(ds, v).nodes)
           /\ AsHeld(ds, v) = [kind |-> "nodes", str |-> "", nodes |-> AsHeld(ds, v).nodes]
           /\ AsHeld(ds, v).nodes = IF v.kind = "tree" THEN v.tree ELSE ContentOf(ds, v.nodes)
           /\ v.kind = "tree" => v.nodes = <<>>
           /\ v.kind # "tree" => RefersWell(ds, v.nodes)
           /\ v.kind \in {"tree", "nodes"}
  <1> DEFINE held == AsHeld(ds, v)
  <1>1. CASE v = Mvar!Block(v.tree) /\ Proper(v.tree)
    <2>1. v.kind = "tree" /\ v.nodes = <<>>
      <3>1. Mvar!Block(v.tree).kind = "tree" /\ Mvar!Block(v.tree).nodes = <<>>
        BY ValueFields
      <3> QED
        BY <1>1, <3>1
    <2>2. held = [kind |-> "nodes", str |-> "", nodes |-> v.tree]
      BY <2>1 DEF AsHeld
    <2> HIDE DEF held
    <2>3. held.nodes = v.tree
      BY <2>2
    <2> QED
      BY <1>1, <2>1, <2>2, <2>3 DEF held
  <1>2. CASE v = Mvar!NodeSet(v.nodes) /\ RefersWell(ds, v.nodes)
    <2>1. v.kind = "nodes"
      <3>1. Mvar!NodeSet(v.nodes).kind = "nodes"
        BY ValueFields
      <3> QED
        BY <1>2, <3>1
    <2>2. held = [kind |-> "nodes", str |-> "", nodes |-> ContentOf(ds, v.nodes)]
      BY <2>1 DEF AsHeld
    <2> HIDE DEF held
    <2>3. held.nodes = ContentOf(ds, v.nodes)
      BY <2>2
    <2>4. Proper(ContentOf(ds, v.nodes))
      BY <1>2, ContentProper
    <2> QED
      BY <1>2, <2>1, <2>2, <2>3, <2>4 DEF held
  <1> QED
    BY <1>1, <1>2 DEF Copiable

LEMMA CloneIs ==
    ASSUME NEW mem, MemoryOK(mem), NEW c \in Made(mem), mem.docs[c].live, mem.docs[c].kids = <<>>,
           NEW value, Copiable(mem.docs, value)
    PROVE  LET clone == Mvar!slaxMvarCloneNodeset(mem, c, value)
               kids == AsHeld(mem.docs, value).nodes
           IN /\ clone.mem = Mvar!slaxMvarAdd(mem, c, kids)
              /\ CopyOf(clone.mem.docs, c, clone.res, kids)
  <1> DEFINE clone == Mvar!slaxMvarCloneNodeset(mem, c, value)
             kids == AsHeld(mem.docs, value).nodes
             new == Mvar!slaxMvarAdd(mem, c, kids)
  <1>1. \A d \in DOMAIN mem.docs : Proper(mem.docs[d].kids)
    BY DEF MemoryOK, DocOK
  <1>2. /\ Proper(kids)
        /\ kids = IF value.kind = "tree" THEN value.tree ELSE ContentOf(mem.docs, value.nodes)
        /\ value.kind = "tree" => value.nodes = <<>>
        /\ value.kind # "tree" => RefersWell(mem.docs, value.nodes)
    <2>1. Copiable(mem.docs, value)
      OBVIOUS
    <2> QED
      BY ONLY <1>1, <2>1, CopiableHeld
  <1> HIDE DEF kids
  <1>3. /\ RefersWell(new.docs, <<<<c, 0>>>>) /\ ContentOf(new.docs, <<<<c, 0>>>>) = kids
        /\ Len(<<<<c, 0>>>>) = 1 /\ <<<<c, 0>>>>[1] = <<c, 0>>
    BY <1>2, WholeAdded
  <1>4. CopyOf(new.docs, c, <<<<c, 0>>>>, kids)
    <2> DEFINE one == <<<<c, 0>>>>
    <2>1. RefersWell(new.docs, one) /\ ContentOf(new.docs, one) = kids
          /\ Len(one) = 1 /\ one[1] = <<c, 0>>
      BY <1>3
    <2> HIDE DEF one, new
    <2>2. \A i \in 1 .. Len(one) : one[i][1] = c
      BY <2>1
    <2>3. CopyOf(new.docs, c, one, kids)
      BY <2>1, <2>2 DEF CopyOf
    <2> QED
      BY <2>3 DEF one
  <1>5. <<>> \o <<<<c, 0>>>> = <<<<c, 0>>>>
    <2> DEFINE one == <<c, 0>>
    <2>1. <<>> \o <<one>> = <<one>>
      BY EmptyConcat
    <2> QED
      BY <2>1
  <1>6. CASE value.kind = "tree"
    <2>1. Mvar!Copied(value.nodes) = <<>>
      BY <1>2, <1>6 DEF Mvar!Copied, Mvar!FragmentAt
    <2>2. clone.mem = new /\ clone.res = Mvar!Added(mem, c, 0 - 1) \o <<<<c, 0>>>>
      BY <1>2, <1>6, <2>1 DEF Mvar!slaxMvarCloneNodeset
    <2>3. Mvar!Added(mem, c, 0 - 1) = <<>>
      BY DEF Mvar!Added
    <2> HIDE DEF clone, new
    <2>4. clone.res = <<<<c, 0>>>>
      BY <1>5, <2>2, <2>3
    <2> QED
      BY <1>4, <2>2, <2>4 DEF clone, new, kids
  <1>7. CASE value.kind # "tree"
    <2>1. /\ Mvar!AllKids(mem.docs, value.nodes) = kids
          /\ Mvar!FragmentAt(value.nodes) = IF Whole(value.nodes) THEN 1 ELSE 0
          /\ Mvar!Copied(value.nodes) = value.nodes
      BY <1>2, <1>7, ContentIs
    <2>2. CASE Whole(value.nodes)
      <3>1. Len(value.nodes) = 1
        BY <2>2 DEF Whole
      <3>2. clone.mem = new /\ clone.res = Mvar!Added(mem, c, 1 - 1) \o <<<<c, 0>>>>
        BY <1>7, <2>1, <2>2, <3>1 DEF Mvar!slaxMvarCloneNodeset
      <3>3. Mvar!Added(mem, c, 1 - 1) = <<>>
        BY DEF Mvar!Added
      <3> HIDE DEF clone, new
      <3>4. clone.res = <<<<c, 0>>>>
        BY <1>5, <3>2, <3>3
      <3> QED
        BY <1>4, <3>2, <3>4 DEF clone, new, kids
    <2>3. CASE ~Whole(value.nodes)
      <3> DEFINE nodes == Mvar!Added(mem, c, Len(kids))
      <3>1. Len(kids) = Len(value.nodes)
        <4>1. kids = ContentOf(mem.docs, value.nodes) /\ RefersWell(mem.docs, value.nodes)
          BY <1>2, <1>7
        <4> QED
          BY ONLY <1>1, <2>3, <4>1, ContentProper
      <3>2. /\ RefersWell(new.docs, nodes)
            /\ \A i \in 1 .. Len(nodes) : nodes[i] = <<c, Len(mem.docs[c].kids) + i>>
            /\ ContentOf(new.docs, nodes) = kids
        <4>1. MemoryOK(mem) /\ c \in Made(mem) /\ mem.docs[c].live /\ Proper(kids)
          BY <1>2
        <4> QED
          BY ONLY <4>1, AddedIs
      <3>3. clone.mem = new /\ clone.res = nodes \o <<>>
        <4>1. Mvar!FragmentAt(value.nodes) = 0 /\ ~(0 > 0)
          BY <2>1, <2>3
        <4>2. clone.mem = new /\ clone.res = Mvar!Added(mem, c, Len(value.nodes)) \o <<>>
          BY <1>7, <2>1, <4>1 DEF Mvar!slaxMvarCloneNodeset
        <4> HIDE DEF clone, new
        <4> QED
          BY <3>1, <4>2
      <3> HIDE DEF nodes, new, clone
      <3>4. nodes \o <<>> = nodes
        <4>1. nodes \in Seq((DOMAIN new.docs) \X Nat)
          BY <3>2 DEF RefersWell
        <4> QED
          BY <4>1
      <3>5. \A i \in 1 .. Len(nodes) : nodes[i][1] = c
        BY <3>2
      <3>6. CopyOf(new.docs, c, nodes, kids)
        BY <3>2, <3>5 DEF CopyOf
      <3> QED
        BY <3>3, <3>4, <3>6 DEF new, clone, kids
    <2> QED
      BY <2>2, <2>3
  <1> QED
    BY <1>6, <1>7 DEF kids

LEMMA FirstOf ==
    ASSUME NEW s, Proper(s), NEW k \in 0 .. Len(s)
    PROVE  SubSeq(s, 1, k) = [i \in 1 .. k |-> s[i]]
  <1>1. s \in Seq(ToSet(s))
    BY DEF Proper
  <1> QED
    BY <1>1

\* The first children of a document, as nodes.
LEMMA PlacesOf ==
    ASSUME NEW ds, NEW d \in DOMAIN ds, d \in Nat, ds[d].live, Proper(ds[d].kids),
           NEW k \in Nat, k <= Len(ds[d].kids),
           NEW nodes, nodes = [i \in 1 .. k |-> nodes[i]], \A i \in 1 .. k : nodes[i] = <<d, i>>,
           NEW first, Proper(first), Len(first) = k, \A i \in 1 .. k : first[i] = ds[d].kids[i]
    PROVE  RefersWell(ds, nodes) /\ ContentOf(ds, nodes) = first
  <1>1. \A i \in 1 .. k : <<d, i>> \in (DOMAIN ds) \X Nat
    OBVIOUS
  <1>2. nodes \in [1 .. k -> (DOMAIN ds) \X Nat]
    BY <1>1
  <1>3. nodes \in Seq((DOMAIN ds) \X Nat) /\ Len(nodes) = k /\ \A i \in 1 .. k : nodes[i] = <<d, i>>
    BY <1>2
  <1>4. Len(ds[d].kids) \in Nat
    BY ProperParts
  <1>5. \A i \in 1 .. Len(nodes) : nodes[i][1] = d /\ nodes[i][2] = i
    BY <1>3
  <1>6. RefersWell(ds, nodes)
    <2>1. ASSUME NEW i \in 1 .. Len(nodes)
          PROVE  /\ ds[nodes[i][1]].live /\ nodes[i][2] <= Len(ds[nodes[i][1]].kids)
                 /\ nodes[i][2] = 0 => Len(nodes) = 1
      <3>1. i <= Len(ds[d].kids) /\ i # 0
        BY <1>3, <1>4
      <3> QED
        BY <1>5, <3>1
    <2> QED
      BY <1>3, <2>1 DEF RefersWell
  <1>7. ~Whole(nodes)
    <2> SUFFICES ASSUME Whole(nodes) PROVE FALSE
      OBVIOUS
    <2>1. 1 \in 1 .. Len(nodes) /\ nodes[1][2] = 0
      BY DEF Whole
    <2> QED
      BY <1>5, <2>1
  <1>8. ContentOf(ds, nodes) = first
    <2>1. ContentOf(ds, nodes) = [i \in 1 .. Len(nodes) |-> ds[nodes[i][1]].kids[nodes[i][2]]]
      BY <1>7 DEF ContentOf
    <2>2. \A i \in 1 .. Len(nodes) : ds[nodes[i][1]].kids[nodes[i][2]] = first[i]
      BY <1>3, <1>5
    <2>3. first = [i \in 1 .. Len(first) |-> first[i]]
      BY ProperParts
    <2> QED
      BY <1>3, <2>1, <2>2, <2>3
  <1> QED
    BY <1>6, <1>8

LEMMA InputIs ==
    ASSUME MvarInv, phase # "done"
    PROVE  0 \in DOMAIN docs /\ docs[0].live /\ docs[0].kids = Input /\ Proper(Input)
  <1>1. docs[0] = [kids |-> Input, next |-> 0, live |-> TRUE] /\ 0 \in DOMAIN docs
    BY InvParts DEF MemoryOK
  <1>2. docs[0].live /\ docs[0].kids = Input
    BY ONLY <1>1
  <1> QED
    BY <1>1, <1>2, MvarConstants

Giveable(value) ==
    /\ value.kind \in {"string", "tree", "nodes"}
    /\ IF value.kind = "string" THEN value = Mvar!Text(value.str) ELSE Copiable(docs, value)
    /\ AsHeld(docs, value) \in Mvar!Promise!Values

LEMMA NodesGiveable ==
    ASSUME NEW nodes, RefersWell(docs, nodes),
           AsHeld(docs, Mvar!NodeSet(nodes)) \in Mvar!Promise!Values
    PROVE  Giveable(Mvar!NodeSet(nodes))
  <1> DEFINE v == Mvar!NodeSet(nodes)
  <1>1. v.kind = "nodes" /\ v.nodes = nodes
    BY ValueFields
  <1> HIDE DEF v
  <1>2. v = Mvar!NodeSet(v.nodes)
    BY <1>1 DEF v
  <1>3. Copiable(docs, v)
    BY <1>1, <1>2 DEF Copiable
  <1>4. Giveable(v)
    BY <1>1, <1>3 DEF Giveable, v
  <1> QED
    BY <1>4 DEF v

LEMMA LiteralsGiven ==
    /\ \A s \in Strings \cup {""} :
          Mvar!Promise!Text(s) \in Mvar!Promise!Values
    /\ \A t \in Trees : Mvar!Promise!Nodes(t) \in Mvar!Promise!Values
    /\ \A k \in 0 .. Len(Input) : Mvar!Promise!Nodes(SubSeq(Input, 1, k)) \in Mvar!Promise!Values
  <1>1. \A x : Mvar!Promise!Nodes(x) # Mvar!Promise!Nothing /\ Mvar!Promise!Text(x) # Mvar!Promise!Nothing
    BY ValueFields
  <1>2. \A s \in Strings \cup {""} : Mvar!Promise!Text(s) \in Mvar!Promise!Values
    BY <1>1 DEF Mvar!Promise!Values, Mvar!Promise!Text
  <1>3. \A t \in Trees : Mvar!Promise!Nodes(t) \in Mvar!Promise!Values
    BY <1>1 DEF Mvar!Promise!Values, Mvar!Promise!Nodes
  <1>4. \A k \in 0 .. Len(Input) : Mvar!Promise!Nodes(SubSeq(Input, 1, k)) \in Mvar!Promise!Values
    BY <1>1 DEF Mvar!Promise!Values, Mvar!Promise!Nodes
  <1> QED
    BY <1>2, <1>3, <1>4

LEMMA ConstantsGiveable ==
    ASSUME MvarInv, phase # "done", NEW value \in Mvar!Constants
    PROVE  Giveable(value)
  <1>1. CASE \E s \in Strings : value = Mvar!Text(s)
    <2>1. PICK s \in Strings : value = Mvar!Text(s)
      BY <1>1
    <2>2. value.kind = "string" /\ value.str = s /\ value.nodes = <<>>
      <3>1. Mvar!Text(s).kind = "string" /\ Mvar!Text(s).str = s /\ Mvar!Text(s).nodes = <<>>
        BY ValueFields
      <3> QED
        BY <2>1, <3>1
    <2>3. AsHeld(docs, value) = Mvar!Promise!Text(s)
      BY <2>2 DEF AsHeld, Mvar!Promise!Text
    <2>4. Mvar!Promise!Text(s) \in Mvar!Promise!Values
      BY LiteralsGiven
    <2> QED
      BY <2>1, <2>2, <2>3, <2>4 DEF Giveable
  <1>2. CASE \E t \in Trees : value = Mvar!Block(t)
    <2>1. PICK t \in Trees : value = Mvar!Block(t)
      BY <1>2
    <2>2. value.kind = "tree" /\ value.tree = t
      <3>1. Mvar!Block(t).kind = "tree" /\ Mvar!Block(t).tree = t
        BY ValueFields
      <3> QED
        BY <2>1, <3>1
    <2>3. AsHeld(docs, value) = Mvar!Promise!Nodes(t)
      BY <2>2 DEF AsHeld, Mvar!Promise!Nodes
    <2>4. Mvar!Promise!Nodes(t) \in Mvar!Promise!Values /\ Proper(t)
      BY LiteralsGiven, MvarConstants
    <2>5. Copiable(docs, value)
      BY <2>1, <2>2, <2>4 DEF Copiable
    <2> QED
      BY <2>2, <2>3, <2>4, <2>5 DEF Giveable
  <1>3. CASE \E k \in 1 .. Len(Input) : value = Mvar!NodeSet([i \in 1 .. k |-> <<0, i>>])
    <2>1. PICK k \in 1 .. Len(Input) : value = Mvar!NodeSet([i \in 1 .. k |-> <<0, i>>])
      BY <1>3
    <2>2. /\ 0 \in DOMAIN docs /\ docs[0].live /\ docs[0].kids = Input /\ Proper(Input)
          /\ Len(Input) \in Nat
      BY InputIs, ProperParts
    <2>3. k \in Nat /\ k <= Len(Input) /\ k \in 0 .. Len(Input)
      BY <2>2
    <2> DEFINE nodes == [i \in 1 .. k |-> <<0, i>>]
    <2> DEFINE first == SubSeq(Input, 1, k)
    <2>4. nodes = [i \in 1 .. k |-> nodes[i]] /\ \A i \in 1 .. k : nodes[i] = <<0, i>>
      OBVIOUS
    <2>5. /\ Proper(first) /\ Len(first) = k /\ \A i \in 1 .. k : first[i] = docs[0].kids[i]
      <3>1. first = [i \in 1 .. k |-> Input[i]]
        BY <2>2, <2>3, FirstOf
      <3>2. first = [i \in 1 .. k |-> first[i]]
        BY <3>1
      <3> QED
        BY <2>2, <2>3, <3>1, <3>2, ProperMade
    <2> HIDE DEF nodes, first
    <2>51. RefersWell(docs, nodes) /\ ContentOf(docs, nodes) = first
      BY <2>2, <2>3, <2>4, <2>5, PlacesOf
    <2>6. AsHeld(docs, Mvar!NodeSet(nodes)) = Mvar!Promise!Nodes(SubSeq(Input, 1, k))
      BY <2>51, HeldNodes DEF Mvar!Promise!Nodes, first
    <2>7. AsHeld(docs, Mvar!NodeSet(nodes)) \in Mvar!Promise!Values
      BY <2>3, <2>6, LiteralsGiven
    <2>8. Giveable(Mvar!NodeSet(nodes))
      BY <2>51, <2>7, NodesGiveable
    <2> QED
      BY <2>1, <2>8 DEF nodes
  <1> QED
    BY <1>1, <1>2, <1>3 DEF Mvar!Constants

LEMMA HeldGiven ==
    ASSUME MvarInv, phase # "done", NEW n \in Variables, values[n] # Mvar!Nothing
    PROVE  AsHeld(docs, values[n]) \in Mvar!Promise!Values
  <1>1. AsHeld(docs, values[n]) # Mvar!Promise!Nothing
    BY InvParts, HeldKinds
  <1>2. CASE n \in Mvars
    <2>1. AsHeld(docs, values[n]) = Mvar!Holding[n]
      BY <1>2, HoldingIs
    <2> QED
      BY <1>1, <1>2, <2>1, MvarConstants DEF Mvar!Promise!Values
  <1>3. CASE n \in Others
    <2>1. AsHeld(docs, values[n]) \in Mvar!Elsewhere
      BY <1>3, HoldingIs
    <2> QED
      BY <1>1, <2>1 DEF Mvar!Promise!Values
  <1> QED
    BY <1>2, <1>3 DEF Variables

LEMMA ReferencesGiveable ==
    ASSUME MvarInv, phase # "done", NEW n \in Variables, values[n] # Mvar!Nothing
    PROVE  Giveable(values[n])
  <1>1. ValueOK(values[n]) /\ RefersWell(docs, values[n].nodes)
    BY InvParts
  <1>2. AsHeld(docs, values[n]) \in Mvar!Promise!Values
    BY HeldGiven
  <1> DEFINE v == values[n]
  <1>3. v # Mvar!Nothing
    OBVIOUS
  <1> HIDE DEF v
  <1>4. CASE v = Mvar!Text(v.str)
    <2>1. v.kind = "string"
      <3>1. Mvar!Text(v.str).kind = "string"
        BY ValueFields
      <3> QED
        BY <1>4, <3>1
    <2> QED
      BY <1>2, <1>4, <2>1 DEF Giveable, v
  <1>5. CASE v = Mvar!NodeSet(v.nodes)
    <2>1. Giveable(Mvar!NodeSet(v.nodes))
      BY <1>1, <1>2, <1>5, NodesGiveable DEF v
    <2> QED
      BY <1>5, <2>1 DEF v
  <1> QED
    BY <1>1, <1>3, <1>4, <1>5 DEF ValueOK, v

\* The children of the fragment that a variable holds.
LEMMA ChildrenGiveable ==
    ASSUME MvarInv, phase # "done", NEW n \in Variables, values[n] # Mvar!Nothing,
           ~Mvar!slaxValueIsScalar(values[n])
    PROVE  Giveable(Mvar!Children(n))
  <1> DEFINE v == values[n]
             nodes == v.nodes
             Of(node) == IF node[2] # 0 THEN <<>>
                         ELSE [i \in 1 .. Len(docs[node[1]].kids) |-> <<node[1], i>>]
             all == Mvar!FlattenSeq([i \in 1 .. Len(nodes) |-> Of(nodes[i])])
  <1>1. Mvar!Children(n) = Mvar!NodeSet(all)
    BY DEF Mvar!Children
  <1>2. RefersWell(docs, nodes) /\ ValueOK(v)
    BY InvParts
  <1>3. AsHeld(docs, v) \in Mvar!Promise!Values
    BY HeldGiven
  <1>4. v = Mvar!NodeSet(nodes)
    <2>1. \A x : Mvar!Text(x).kind = "string"
      BY ValueFields
    <2> QED
      BY <1>2, <2>1 DEF ValueOK, Mvar!slaxValueIsScalar
  <1> HIDE DEF v
  <1>5. AsHeld(docs, v) = Mvar!Promise!Nodes(ContentOf(docs, nodes))
    BY <1>4, HeldNodes DEF Mvar!Promise!Nodes
  <1>6. Len(nodes) \in Nat /\ \A i \in 1 .. Len(nodes) : nodes[i][2] = 0 => Whole(nodes)
    BY <1>2, WellParts
  <1>7. CASE Whole(nodes)
    <2> DEFINE d == nodes[1][1]
               k == Len(docs[d].kids)
               places == [i \in 1 .. k |-> <<d, i>>]
    <2>1. Len(nodes) = 1 /\ nodes[1][2] = 0 /\ d \in DOMAIN docs /\ docs[d].live
      BY <1>2, <1>7, WellParts DEF Whole
    <2>2. Proper(docs[d].kids) /\ k \in Nat /\ k <= k
      BY <2>1, InvParts, ProperParts
    <2>3. d \in Nat
      BY <2>1, InvParts DEF MemoryOK
    <2>4. all = places
      <3>1. Of(nodes[1]) = places
        BY <2>1
      <3> HIDE DEF Of, places
      <3>2. [i \in 1 .. 1 |-> Of(nodes[i])] = <<Of(nodes[1])>>
        OBVIOUS
      <3> QED
        BY <2>1, <3>1, <3>2, FlattenedOne
    <2>5. places = [i \in 1 .. k |-> places[i]] /\ \A i \in 1 .. k : places[i] = <<d, i>>
      OBVIOUS
    <2>6. RefersWell(docs, places) /\ ContentOf(docs, places) = docs[d].kids
      <3> DEFINE first == docs[d].kids
      <3>1. /\ Proper(first) /\ Len(first) = k /\ \A i \in 1 .. k : first[i] = docs[d].kids[i]
            /\ first = docs[d].kids /\ k <= Len(docs[d].kids)
        BY <2>2
      <3> HIDE DEF places, d, first, k
      <3>2. RefersWell(docs, places) /\ ContentOf(docs, places) = first
        BY <2>1, <2>2, <2>3, <2>5, <3>1, PlacesOf
      <3> QED
        BY <3>1, <3>2
    <2>7. ContentOf(docs, nodes) = docs[d].kids
      BY <1>7 DEF ContentOf
    <2> HIDE DEF places, all
    <2>8. AsHeld(docs, Mvar!NodeSet(all)) = AsHeld(docs, v)
      BY <1>5, <2>4, <2>6, <2>7, HeldNodes DEF Mvar!Promise!Nodes
    <2>9. Giveable(Mvar!NodeSet(all))
      BY <1>3, <2>4, <2>6, <2>8, NodesGiveable
    <2> QED
      BY <1>1, <2>9 DEF all
  <1>8. CASE ~Whole(nodes)
    <2>1. [i \in 1 .. Len(nodes) |-> Of(nodes[i])] = [i \in 1 .. Len(nodes) |-> <<>>]
      BY <1>6, <1>8
    <2>2. all = <<>>
      BY <1>6, <2>1, FlattenedEmpties
    <2> HIDE DEF all
    <2>3. RefersWell(docs, <<>>)
      BY DEF RefersWell
    <2>4. ContentOf(docs, <<>>) = <<>>
      BY DEF ContentOf, Whole
    <2>5. SubSeq(Input, 1, 0) = <<>>
      <3>1. Proper(Input) /\ Len(Input) \in Nat
        BY MvarConstants, ProperParts
      <3>2. SubSeq(Input, 1, 0) = [i \in 1 .. 0 |-> Input[i]]
        BY <3>1, FirstOf
      <3> QED
        BY <3>2
    <2>6. AsHeld(docs, Mvar!NodeSet(<<>>)) = Mvar!Promise!Nodes(SubSeq(Input, 1, 0))
      BY <2>4, <2>5, HeldNodes DEF Mvar!Promise!Nodes
    <2>7. 0 \in 0 .. Len(Input)
      BY MvarConstants, ProperParts
    <2>8. Giveable(Mvar!NodeSet(<<>>))
      BY <2>3, <2>6, <2>7, LiteralsGiven, NodesGiveable
    <2> QED
      BY <1>1, <2>2, <2>8 DEF all
  <1> QED
    BY <1>7, <1>8

LEMMA ExpressionsGiveable ==
    ASSUME MvarInv, phase # "done", NEW value \in Mvar!Expressions
    PROVE  Giveable(value)
  <1>1. CASE value \in Mvar!Constants
    BY <1>1, ConstantsGiveable
  <1>2. CASE \E n \in Variables : values[n] # Mvar!Nothing /\ value = values[n]
    BY <1>2, ReferencesGiveable
  <1>3. CASE \E n \in Variables : /\ values[n] # Mvar!Nothing /\ ~Mvar!slaxValueIsScalar(values[n])
                                  /\ value = Mvar!Children(n)
    BY <1>3, ChildrenGiveable
  <1> QED
    BY <1>1, <1>2, <1>3, MvarConstants DEF Mvar!Expressions, Mvar!InScope, Mvar!Reference

\* A variable's last container, and that nobody else has it.
OwnLast(mem, n, c) ==
    /\ c \in Made(mem) /\ c \in Nat /\ mem.docs[c].live
    /\ Len(mem.shadow[n]) # 0 /\ mem.shadow[n] # <<>>
    /\ mem.shadow[n][Len(mem.shadow[n])] = c /\ Mvar!Last(mem.shadow[n]) = c
    /\ \A m \in Mvars : m # n => mem.shadow[m] = shadow[m] /\ c \notin ToSet(shadow[m])

LEMMA FreshThen ==
    ASSUME MvarInv, phase # "done", NEW n \in Mvars, NEW mem, NEW c, NEW kids, Proper(kids),
           Fresh(Mvar!Memory, mem, n, c, kids)
    PROVE  /\ Grows(docs, mem.docs, c) /\ c \notin DOMAIN docs
           /\ OwnLast(mem, n, c) /\ mem.docs[c].kids = kids
  <1> DEFINE old == Mvar!Memory
  <1>1. MemoryOK(old) /\ old.docs = docs /\ old.shadow = shadow
    BY InvParts
  <1>2. \A m \in Mvars : shadow[m] \in Seq(Made(old))
    BY InvParts
  <1>3. Fresh(old, mem, n, c, kids)
    OBVIOUS
  <1> HIDE DEF old
  <1>4. /\ Grows(docs, mem.docs, c) /\ c \notin DOMAIN docs
        /\ mem.docs[c].kids = kids /\ mem.docs[c].live /\ c \in DOMAIN mem.docs
    BY <1>1, <1>3, FreshGrows
  <1>5. /\ Made(mem) = Made(old) \cup {c}
        /\ \A m \in Mvars : m # n => mem.shadow[m] = shadow[m]
        /\ Len(mem.shadow[n]) # 0 /\ mem.shadow[n][Len(mem.shadow[n])] = c
    <2>1. MemoryOK(old) /\ n \in Mvars /\ Proper(kids)
      BY <1>1
    <2>2. /\ Made(mem) = Made(old) \cup {c}
          /\ \A m \in Mvars : m # n => mem.shadow[m] = old.shadow[m]
          /\ Len(mem.shadow[n]) # 0 /\ mem.shadow[n][Len(mem.shadow[n])] = c
      BY ONLY <1>3, <2>1, FreshSound
    <2> QED
      BY <1>1, <2>2
  <1>6. \A m \in Mvars : c \notin ToSet(shadow[m])
    <2>1. c \notin Made(old)
      BY <1>1, <1>4 DEF Made
    <2> QED
      BY <1>2, <2>1 DEF ToSet
  <1>7. c \in Nat
    BY DEF Fresh
  <1>8. mem.shadow[n] # <<>>
    BY <1>5
  <1> QED
    BY <1>4, <1>5, <1>6, <1>7, <1>8 DEF OwnLast, Mvar!Last

LEMMA GrowsSelf == ASSUME MvarInv, phase # "done", NEW c PROVE Grows(docs, docs, c)
  BY InvParts, ExtendsSelf DEF Grows

LEMMA OwnLastNow ==
    ASSUME MvarInv, phase # "done", NEW n \in Mvars, shadow[n] # <<>>
    PROVE  OwnLast(Mvar!Memory, n, Mvar!Last(shadow[n]))
  <1> DEFINE mem == Mvar!Memory
             c == shadow[n][Len(shadow[n])]
  <1>1. /\ mem.docs = docs /\ mem.shadow = shadow /\ shadow[n] \in Seq(Made(mem))
        /\ MemoryInv(mem, fragment) /\ MemoryOK(mem)
    BY InvParts
  <1>2. c \in ToSet(shadow[n]) /\ c \in Made(mem) /\ Mvar!Last(shadow[n]) = c /\ Len(shadow[n]) # 0
        /\ shadow[n][Len(shadow[n])] = c
    BY <1>1, LastIn
  <1>3. \A m \in Mvars : m # n => c \notin ToSet(shadow[m])
    BY <1>2, InvParts
  <1>4. c \in Nat
    BY <1>1, <1>2 DEF MemoryOK, Made
  <1>5. docs[c].live
    <2>1. PICK P \in SUBSET Made(mem) : OwnedBy(mem, fragment, P)
      BY <1>1 DEF MemoryInv
    <2> QED
      BY <1>1, <1>2, <2>1 DEF OwnedBy, OwnList
  <1> HIDE DEF c, mem
  <1>6. OwnLast(mem, n, c)
    BY <1>1, <1>2, <1>3, <1>4, <1>5 DEF OwnLast
  <1> QED
    BY <1>2, <1>6 DEF mem

\* A string is given.
LEMMA ScalarKeeps ==
    ASSUME MvarInv, phase # "done", phase' \in {"global", "template"}, seen' = seen,
           fragment' = fragment, NEW n \in Mvars, NEW mem, NEW s,
           MemoryInv(mem, fragment),
           mem = Mvar!Memory \/ \E c : Fresh(Mvar!Memory, mem, n, c, <<>>),
           Mvar!Becomes(mem, n, Mvar!Text(s))
    PROVE  /\ MvarInv'
           /\ Mvar!Holding' = [Mvar!Holding EXCEPT ![n] = Mvar!Promise!Text(s)]
  <1> DEFINE value == Mvar!Text(s)
  <1>1. value.kind = "string" /\ value.str = s /\ value.nodes = <<>> /\ value.kind # "none"
    BY ValueFields
  <1>2. ValueOK(value) /\ value # Mvar!Nothing
    BY <1>1, ValueFields DEF ValueOK
  <1> HIDE DEF value
  <1>3. RefersWell(mem.docs, value.nodes)
    BY <1>1 DEF RefersWell
  <1>4. RefersToOwn(mem.shadow[n], value)
    BY <1>1, <1>2 DEF RefersToOwn
  <1>5. AsHeld(mem.docs, value) = Mvar!Promise!Text(s)
    BY <1>1 DEF AsHeld, Mvar!Promise!Text
  <1>6. PICK c : /\ Grows(docs, mem.docs, c)
                 /\ \A m \in Mvars : m # n => mem.shadow[m] = shadow[m] /\ c \notin ToSet(shadow[m])
    <2>1. CASE mem = Mvar!Memory
      <3>1. mem.docs = docs /\ mem.shadow = shadow
        BY <2>1, InvParts
      <3>2. \A m \in Mvars : 0 \notin ToSet(shadow[m])
        BY InvParts DEF ToSet, Made
      <3> QED
        BY <3>1, <3>2, GrowsSelf
    <2>2. CASE \E c : Fresh(Mvar!Memory, mem, n, c, <<>>)
      <3>1. PICK c : Fresh(Mvar!Memory, mem, n, c, <<>>)
        BY <2>2
      <3>2. Grows(docs, mem.docs, c) /\ OwnLast(mem, n, c)
        BY <3>1, FreshThen, ProperEmpty
      <3> QED
        BY <3>2 DEF OwnLast
    <2> QED
      BY <2>1, <2>2
  <1>7. MemoryInv(mem, fragment') /\ Mvar!Becomes(mem, n, value)
    BY DEF value
  <1>8. /\ MvarInv'
        /\ Mvar!Holding' = [Mvar!Holding EXCEPT ![n] = AsHeld(mem.docs, value)]
    BY <1>2, <1>3, <1>4, <1>6, <1>7, BecomesKeeps
  <1> QED
    BY <1>5, <1>8

LEMMA GrownCopiable ==
    ASSUME MvarInv, phase # "done", NEW ds, NEW c, Grows(docs, ds, c), c \notin DOMAIN docs,
           NEW v, Copiable(docs, v)
    PROVE  Copiable(ds, v) /\ AsHeld(ds, v) = AsHeld(docs, v)
  <1>1. CASE v = Mvar!Block(v.tree) /\ Proper(v.tree)
    <2>1. v.kind = "tree"
      <3>1. Mvar!Block(v.tree).kind = "tree"
        BY ValueFields
      <3> QED
        BY <1>1, <3>1
    <2> QED
      BY <1>1, <2>1 DEF Copiable, AsHeld
  <1>2. CASE v = Mvar!NodeSet(v.nodes) /\ RefersWell(docs, v.nodes)
    <2>1. Whole(v.nodes) => v.nodes[1][1] # c
      BY <1>2, WellParts
    <2>2. RefersWell(ds, v.nodes) /\ ContentOf(ds, v.nodes) = ContentOf(docs, v.nodes)
      BY <1>2, <2>1, GrownRefers, GrownContent
    <2> QED
      BY <1>2, <2>2 DEF Copiable, AsHeld
  <1> QED
    BY <1>1, <1>2 DEF Copiable

\* Nodes or a block are copied to a new container.
LEMMA CopyKeeps ==
    ASSUME MvarInv, phase # "done", phase' \in {"global", "template"}, seen' = seen,
           fragment' = fragment, NEW n \in Mvars, NEW mem,
           MemoryInv(mem, fragment), NEW c, Fresh(Mvar!Memory, mem, n, c, <<>>),
           NEW value, Copiable(docs, value),
           NEW clone, clone = Mvar!slaxMvarCloneNodeset(mem, c, value),
           Mvar!Becomes(clone.mem, n, Mvar!NodeSet(clone.res))
    PROVE  /\ MvarInv'
           /\ Mvar!Holding' = [Mvar!Holding EXCEPT ![n] = AsHeld(docs, value)]
  <1>1. /\ Grows(docs, mem.docs, c) /\ c \notin DOMAIN docs
        /\ OwnLast(mem, n, c) /\ mem.docs[c].kids = <<>>
    BY FreshThen, ProperEmpty
  <1>2. MemoryOK(mem) /\ \A d \in DOMAIN mem.docs : Proper(mem.docs[d].kids)
    BY DEF MemoryInv, MemoryOK, DocOK
  <1>3. Copiable(mem.docs, value) /\ AsHeld(mem.docs, value) = AsHeld(docs, value)
    BY <1>1, GrownCopiable
  <1> DEFINE kids == AsHeld(mem.docs, value).nodes
             nodes == clone.res
             new == Mvar!slaxMvarAdd(mem, c, kids)
             v == Mvar!NodeSet(nodes)
  <1>4. /\ Proper(kids)
        /\ AsHeld(mem.docs, value) = [kind |-> "nodes", str |-> "", nodes |-> kids]
    BY ONLY <1>2, <1>3, CopiableHeld
  <1>5. clone.mem = new /\ CopyOf(new.docs, c, nodes, kids)
    <2>1. /\ MemoryOK(mem) /\ c \in Made(mem) /\ mem.docs[c].live /\ mem.docs[c].kids = <<>>
          /\ Copiable(mem.docs, value)
      BY <1>1, <1>2, <1>3 DEF OwnLast
    <2>2. LET cl == Mvar!slaxMvarCloneNodeset(mem, c, value)
          IN cl.mem = new /\ CopyOf(cl.mem.docs, c, cl.res, kids)
      BY ONLY <2>1, CloneIs
    <2> QED
      BY <2>2
  <1> HIDE DEF kids
  <1>6. /\ MemoryInv(new, fragment)
        /\ new.shadow = mem.shadow /\ Grows(mem.docs, new.docs, c)
    <2>1. c \in Made(mem) /\ MemoryOK(mem)
      BY <1>1, <1>2 DEF OwnLast
    <2>2. MemoryInv(new, fragment)
      BY <1>4, <2>1, AddKeeps
    <2>3. new.shadow = mem.shadow
      BY ONLY <1>4, <2>1, AddIs
    <2>4. Grows(mem.docs, new.docs, c)
      BY ONLY <1>4, <2>1, AddGrows
    <2> QED
      BY <2>2, <2>3, <2>4
  <1> HIDE DEF new, nodes
  <1>7. Grows(docs, new.docs, c)
    BY <1>1, <1>6, GrowsOn
  <1>8. v.nodes = nodes /\ v.kind = "nodes" /\ v # Mvar!Nothing
    BY ValueFields
  <1>9. ValueOK(v)
    BY <1>8 DEF ValueOK
  <1>10. AsHeld(new.docs, v) = AsHeld(docs, value)
    BY <1>3, <1>4, <1>5, HeldNodes DEF CopyOf
  <1> HIDE DEF v
  <1>11. RefersWell(new.docs, v.nodes) /\ RefersToOwn(new.shadow[n], v)
    BY <1>1, <1>5, <1>6, <1>8 DEF CopyOf, RefersToOwn, OwnLast
  <1>12. \A m \in Mvars : m # n => new.shadow[m] = shadow[m] /\ c \notin ToSet(shadow[m])
    BY <1>1, <1>6 DEF OwnLast
  <1>13. MemoryInv(new, fragment') /\ Mvar!Becomes(new, n, v)
    BY <1>5, <1>6 DEF v, nodes
  <1>14. /\ MvarInv'
         /\ Mvar!Holding' = [Mvar!Holding EXCEPT ![n] = AsHeld(new.docs, v)]
    BY <1>7, <1>9, <1>11, <1>12, <1>13, BecomesKeeps
  <1> QED
    BY <1>10, <1>14

\* What a variable refers to with the children that were added to its container.
LEMMA AppendIs ==
    ASSUME NEW mem, MemoryOK(mem), NEW c \in Made(mem), mem.docs[c].live,
           NEW res, RefersWell(mem.docs, res), \A i \in 1 .. Len(res) : res[i][1] = c,
           NEW kids, Proper(kids)
    PROVE  LET new == Mvar!slaxMvarAdd(mem, c, kids)
               nodes == IF Mvar!Targets(res, c) THEN res \o Mvar!Added(mem, c, Len(kids)) ELSE res
           IN CopyOf(new.docs, c, nodes, ContentOf(mem.docs, res) \o kids)
  <1> DEFINE new == Mvar!slaxMvarAdd(mem, c, kids)
             ds == new.docs
             more == Mvar!Added(mem, c, Len(kids))
             nodes == IF Mvar!Targets(res, c) THEN res \o more ELSE res
             old == mem.docs[c]
             was == ContentOf(mem.docs, res)
  <1>1. /\ MemoryOK(mem) /\ c \in Made(mem) /\ mem.docs[c].live /\ Proper(kids)
        /\ RefersWell(mem.docs, res)
        /\ \A d \in DOMAIN mem.docs : Proper(mem.docs[d].kids)
    BY DEF MemoryOK, DocOK
  <1>2. /\ ds[c] = [kids |-> old.kids \o kids, next |-> old.next, live |-> old.live]
        /\ DOMAIN ds = DOMAIN mem.docs
    <2>1. MemoryOK(mem) /\ c \in Made(mem) /\ Proper(kids)
      BY ONLY <1>1
    <2> QED
      BY ONLY <2>1, AddIs
  <1>3. /\ RefersWell(ds, more) /\ ~Whole(more) /\ Len(more) = Len(kids)
        /\ \A i \in 1 .. Len(more) : more[i] = <<c, Len(mem.docs[c].kids) + i>>
        /\ ContentOf(ds, more) = kids
    <2>1. MemoryOK(mem) /\ c \in Made(mem) /\ Proper(kids) /\ mem.docs[c].live
      BY ONLY <1>1
    <2> QED
      BY ONLY <2>1, AddedIs
  <1>4. Grows(mem.docs, ds, c)
    BY ONLY <1>1, AddGrows
  <1>5. RefersWell(ds, res)
    BY ONLY <1>1, <1>4, GrownRefers
  <1> HIDE DEF new, more
  <1>6. ds[c].kids = old.kids \o kids
    BY <1>2
  <1>7. CASE Whole(res)
    <2>1. res[1][1] = c /\ res[1][2] = 0 /\ 1 \in 1 .. Len(res)
      BY <1>7 DEF Whole
    <2>2. res[1] = <<c, 0>>
      <3>1. res \in Seq((DOMAIN mem.docs) \X Nat)
        BY DEF RefersWell
      <3>2. res[1] \in (DOMAIN mem.docs) \X Nat
        BY <2>1, <3>1
      <3> QED
        BY <2>1, <3>2
    <2>3. ~Mvar!Targets(res, c)
      <3>1. DOMAIN res = 1 .. Len(res)
        BY DEF RefersWell
      <3> QED
        BY <2>1, <2>2, <3>1 DEF Mvar!Targets, Mvar!ToSet
    <2>4. was = old.kids /\ ContentOf(ds, res) = ds[c].kids
      BY <1>7, <2>1 DEF ContentOf
    <2>5. CopyOf(ds, c, res, was \o kids)
      BY <1>5, <1>6, <2>4 DEF CopyOf
    <2> QED
      BY <2>3, <2>5 DEF new
  <1>8. CASE ~Whole(res)
    <2>1. \A i \in 1 .. Len(res) : res[i][2] # 0
      BY <1>1, <1>8, WellParts
    <2>2. Mvar!Targets(res, c)
      <3>1. DOMAIN res = 1 .. Len(res)
        BY DEF RefersWell
      <3> QED
        BY <2>1, <3>1 DEF Mvar!Targets, Mvar!ToSet
    <2> DEFINE all == res \o more
    <2>3. /\ res \in Seq((DOMAIN ds) \X Nat) /\ more \in Seq((DOMAIN ds) \X Nat)
          /\ Proper(res) /\ Proper(more) /\ Len(res) \in Nat /\ Len(more) \in Nat
      <3>1. res \in Seq((DOMAIN ds) \X Nat) /\ more \in Seq((DOMAIN ds) \X Nat)
        BY <1>3, <1>5 DEF RefersWell
      <3> QED
        BY <3>1, ProperSeq
    <2>4. all \in Seq((DOMAIN ds) \X Nat)
      BY <2>3
    <2>5. /\ Len(all) = Len(res) + Len(more)
          /\ \A i \in 1 .. Len(res) : all[i] = res[i]
          /\ \A i \in 1 .. Len(more) : all[Len(res) + i] = more[i]
      BY <2>3, ProperConcat
    <2> HIDE DEF all, ds
    <2>6. ASSUME NEW i \in 1 .. Len(all)
          PROVE  \/ i \in 1 .. Len(res) /\ all[i] = res[i]
                 \/ i - Len(res) \in 1 .. Len(more) /\ all[i] = more[i - Len(res)]
      <3>1. CASE i <= Len(res)
        <4>1. i \in 1 .. Len(res)
          BY <2>3, <2>5, <3>1
        <4> QED
          BY <2>5, <4>1
      <3>2. CASE ~(i <= Len(res))
        <4>1. i - Len(res) \in 1 .. Len(more) /\ Len(res) + (i - Len(res)) = i
          BY <2>3, <2>5, <3>2
        <4> QED
          BY <2>5, <4>1
      <3> QED
        BY <3>1, <3>2
    <2>7. \A i \in 1 .. Len(more) : more[i][1] = c /\ more[i][2] # 0
      <3>1. \A i \in 1 .. Len(more) : more[i][1] = c /\ more[i][2] = Len(mem.docs[c].kids) + i
        BY <1>3
      <3>2. Len(mem.docs[c].kids) \in Nat
        BY <1>1, ProperParts DEF Made
      <3> QED
        BY <2>3, <3>1, <3>2
    <2>8. \A i \in 1 .. Len(all) : all[i][1] = c /\ all[i][2] # 0
      BY <2>1, <2>6, <2>7
    <2>9. RefersWell(ds, all)
      <3>1. ASSUME NEW i \in 1 .. Len(all)
            PROVE  ds[all[i][1]].live /\ all[i][2] <= Len(ds[all[i][1]].kids)
        BY <1>3, <1>5, <2>6 DEF RefersWell
      <3> QED
        BY <2>4, <2>8, <3>1 DEF RefersWell
    <2>10. ~Whole(all)
      <3> SUFFICES ASSUME Whole(all) PROVE FALSE
        OBVIOUS
      <3>1. 1 \in 1 .. Len(all) /\ all[1][2] = 0
        BY DEF Whole
      <3> QED
        BY <2>8, <3>1
    <2>11. /\ Proper(was) /\ Len(was) = Len(res)
           /\ \A i \in 1 .. Len(res) : was[i] = mem.docs[res[i][1]].kids[res[i][2]]
      BY ONLY <1>1, <1>8, ContentProper
    <2>12. ContentOf(ds, res) = was
      BY <1>1, <1>4, <1>8, GrownContent
    <2>13. \A d \in DOMAIN ds : Proper(ds[d].kids)
      <3>1. MemoryOK(new)
        BY ONLY <1>1, AddIs DEF new
      <3> QED
        BY <3>1 DEF MemoryOK, DocOK, ds
    <2>14. /\ \A i \in 1 .. Len(res) : was[i] = ds[res[i][1]].kids[res[i][2]]
           /\ \A i \in 1 .. Len(more) : kids[i] = ds[more[i][1]].kids[more[i][2]]
           /\ Proper(ContentOf(ds, all)) /\ Len(ContentOf(ds, all)) = Len(all)
           /\ \A i \in 1 .. Len(all) : ContentOf(ds, all)[i] = ds[all[i][1]].kids[all[i][2]]
      <3>1. \A i \in 1 .. Len(res) : ContentOf(ds, res)[i] = ds[res[i][1]].kids[res[i][2]]
        BY ONLY <1>5, <1>8, <2>13, ContentProper
      <3>2. \A i \in 1 .. Len(more) : ContentOf(ds, more)[i] = ds[more[i][1]].kids[more[i][2]]
        BY ONLY <1>3, <2>13, ContentProper
      <3>3. /\ Proper(ContentOf(ds, all)) /\ Len(ContentOf(ds, all)) = Len(all)
            /\ \A i \in 1 .. Len(all) : ContentOf(ds, all)[i] = ds[all[i][1]].kids[all[i][2]]
        BY ONLY <2>9, <2>10, <2>13, ContentProper
      <3> QED
        BY <1>3, <2>12, <3>1, <3>2, <3>3
    <2> DEFINE now == ContentOf(ds, all)
               sum == was \o kids
    <2>15. /\ Proper(sum) /\ Len(sum) = Len(was) + Len(kids)
           /\ \A i \in 1 .. Len(was) : sum[i] = was[i]
           /\ \A i \in 1 .. Len(kids) : sum[Len(was) + i] = kids[i]
      BY ONLY <1>1, <2>11, ProperConcat
    <2> HIDE DEF now, sum, was
    <2>16. \A i \in 1 .. Len(all) : now[i] = sum[i]
      <3> SUFFICES ASSUME NEW i \in 1 .. Len(all) PROVE now[i] = sum[i]
        OBVIOUS
      <3>1. now[i] = ds[all[i][1]].kids[all[i][2]]
        BY <2>14 DEF now
      <3>2. CASE i \in 1 .. Len(res) /\ all[i] = res[i]
        BY <2>11, <2>14, <2>15, <3>1, <3>2
      <3>3. CASE i - Len(res) \in 1 .. Len(more) /\ all[i] = more[i - Len(res)]
        <4>1. now[i] = kids[i - Len(res)]
          BY <2>14, <3>1, <3>3
        <4>2. Len(was) + (i - Len(res)) = i
          BY <2>3, <2>11
        <4> QED
          BY <1>3, <2>15, <3>3, <4>1, <4>2
      <3> QED
        BY <2>6, <3>2, <3>3
    <2>17. now = sum
      <3>1. Proper(now) /\ Len(now) = Len(all) /\ Len(sum) = Len(all)
        BY <1>3, <2>5, <2>11, <2>14, <2>15 DEF now
      <3> QED
        BY <2>15, <2>16, <3>1, ProperEqual
    <2>18. CopyOf(ds, c, all, sum)
      BY <2>8, <2>9, <2>17 DEF CopyOf, now
    <2> QED
      BY <2>2, <2>18 DEF all, sum, was, new, more, ds
  <1> QED
    BY <1>7, <1>8

\* Steps of the promise.
LEMMA PromiseSteps ==
    ASSUME NEW n \in Mvars, NEW v
    PROVE  /\ Mvar!Holding[n] = Mvar!Promise!Nothing
                 /\ Mvar!Holding' = [Mvar!Holding EXCEPT ![n] = v] => Mvar!Promise!Declare(n, v)
           /\ Mvar!Holding[n] # Mvar!Promise!Nothing
                 /\ Mvar!Holding' = [Mvar!Holding EXCEPT ![n] = v] => Mvar!Promise!SetTo(n, v)
           /\ Mvar!Holding[n] # Mvar!Promise!Nothing
                 /\ Mvar!Holding' = [Mvar!Holding EXCEPT
                       ![n] = Mvar!Promise!Appended(Mvar!Holding[n], v)]
                 => Mvar!Promise!AppendTo(n, v)
  <1>1. n \in Mvar!Mvars
    BY MvarConstants
  <1> DEFINE h == Mvar!Holding
  <1>2. h[n] = Mvar!Promise!Nothing /\ h' = [h EXCEPT ![n] = v] => Mvar!Promise!Declare(n, v)
    BY DEF Mvar!Promise!Declare
  <1>3. h[n] # Mvar!Promise!Nothing /\ h' = [h EXCEPT ![n] = v] => Mvar!Promise!SetTo(n, v)
    BY <1>1 DEF Mvar!Promise!SetTo
  <1>4. h[n] # Mvar!Promise!Nothing
           /\ h' = [h EXCEPT ![n] = Mvar!Promise!Appended(h[n], v)] => Mvar!Promise!AppendTo(n, v)
    BY <1>1 DEF Mvar!Promise!AppendTo
  <1> QED
    BY <1>2, <1>3, <1>4

\* They are the steps that the promise has of a variable.
LEMMA PromiseNext ==
    ASSUME NEW n \in Mvars, NEW v \in Mvar!Promise!Values,
           Mvar!Promise!Declare(n, v) \/ Mvar!Promise!SetTo(n, v) \/ Mvar!Promise!AppendTo(n, v)
    PROVE  Mvar!Promise!Next
  <1>1. n \in Mvar!Mvars
    BY MvarConstants
  <1> QED
    BY <1>1 DEF Mvar!Promise!Next

\* What a mutable variable holds, before and after it has a value.
LEMMA HoldingOf ==
    ASSUME MvarInv, phase # "done", NEW n \in Mvars
    PROVE  /\ Mvar!Holding[n] = AsHeld(docs, values[n])
           /\ values[n] = Mvar!Nothing <=> Mvar!Holding[n] = Mvar!Promise!Nothing
           /\ n \in Variables /\ ValueOK(values[n]) /\ RefersWell(docs, values[n].nodes)
           /\ RefersToOwn(shadow[n], values[n]) /\ shadow[n] \in Seq(Made(Mvar!Memory))
           /\ values[n] = Mvar!Nothing => shadow[n] = <<>>
  <1>1. Mvar!Holding[n] = AsHeld(docs, values[n])
    BY HoldingIs
  <1>2. n \in Variables
    BY DEF Variables
  <1>3. /\ ValueOK(values[n]) /\ RefersWell(docs, values[n].nodes)
        /\ RefersToOwn(shadow[n], values[n]) /\ shadow[n] \in Seq(Made(Mvar!Memory))
    BY <1>2, InvParts
  <1>4. values[n] = Mvar!Nothing <=> AsHeld(docs, values[n]) = Mvar!Promise!Nothing
    BY <1>3, HeldKinds
  <1> QED
    BY <1>1, <1>2, <1>3, <1>4 DEF RefersToOwn

\* mvar $n = { ... }
LEMMA DeclareBlockKeeps ==
    ASSUME MvarInv, phase # "done", phase' \in {"global", "template"}, seen' = seen,
           NEW n \in Mvars, values[n] = Mvar!Nothing, NEW tree, Proper(tree),
           Mvar!DeclareBlock(n, tree)
    PROVE  MvarInv' /\ Mvar!Promise!Declare(n, Mvar!Promise!Nodes(tree))
  <1> DEFINE mem == Mvar!Memory
             made == Mvar!xsltCreateRVT(mem, tree, 0)
             local == Blocked(mem, n, tree)
             global == Mvar!Persistent(mem, n, tree)
             new == IF n \in Globals THEN global ELSE local
  <1>1. /\ MemoryInv(mem, fragment) /\ MemoryOK(mem) /\ mem.docs = docs /\ mem.shadow = shadow
        /\ shadow[n] = <<>>
    BY InvParts, HoldingOf
  <1>2. PICK top \in Nat : DOMAIN mem.docs = 0 .. top
    BY <1>1 DEF MemoryOK
  <1> DEFINE c == top + 1
             nodes == <<<<c, 0>>>>
             v == Mvar!NodeSet(nodes)
  <1>3. Proper(tree)
    OBVIOUS
  <1>4. Mvar!Newest(made) = c
    BY <1>1, <1>2, CreateIs
  <1>5. /\ Mvar!Becomes(new, n, v)
        /\ fragment' = IF n \in Globals THEN fragment ELSE [fragment EXCEPT ![n] = c]
    BY <1>4 DEF Mvar!DeclareBlock, Blocked
  <1>6. Fresh(mem, new, n, c, tree) /\ MemoryInv(new, fragment')
    <2>1. /\ MemoryInv(mem, fragment) /\ mem.shadow[n] = <<>> /\ Proper(tree)
          /\ top \in Nat /\ DOMAIN mem.docs = 0 .. top /\ n \in Mvars
      BY <1>1, <1>2, <1>3
    <2>2. CASE n \in Globals
      <3>1. Fresh(mem, global, n, c, tree) /\ MemoryInv(global, fragment)
        BY ONLY <2>1, RootKeeps
      <3> QED
        BY <1>5, <2>2, <3>1
    <2>3. CASE n \notin Globals
      <3>1. n \in Locals
        BY <2>3 DEF Mvars
      <3>2. Fresh(mem, local, n, c, tree) /\ MemoryInv(local, [fragment EXCEPT ![n] = c])
        BY ONLY <2>1, <3>1, LocalKeeps
      <3> QED
        BY <1>5, <2>3, <3>2
    <2> QED
      BY <2>2, <2>3
  <1> HIDE DEF new, mem, c
  <1>7. /\ Grows(docs, new.docs, c)
        /\ OwnLast(new, n, c) /\ new.docs[c].kids = tree
    BY <1>3, <1>6, FreshThen DEF mem
  <1>8. c \in DOMAIN new.docs /\ c \in Nat /\ new.docs[c].live
    BY <1>7 DEF OwnLast, Made
  <1>9. /\ Whole(nodes) /\ RefersWell(new.docs, nodes)
        /\ Len(nodes) = 1 /\ nodes[1] = <<c, 0>> /\ ContentOf(new.docs, nodes) = tree
    BY <1>3, <1>7, <1>8, WholeIs
  <1> HIDE DEF nodes
  <1>10. /\ v.nodes = nodes /\ v # Mvar!Nothing /\ ValueOK(v)
         /\ AsHeld(new.docs, v) = [kind |-> "nodes", str |-> "", nodes |-> ContentOf(new.docs, nodes)]
    <2>1. v.nodes = nodes /\ v # Mvar!Nothing
      BY ValueFields
    <2> QED
      BY <2>1, HeldNodes DEF ValueOK
  <1> HIDE DEF v
  <1>11. RefersToOwn(new.shadow[n], v)
    <2>1. \A i \in 1 .. Len(nodes) : nodes[i][1] = c
      BY <1>9
    <2> QED
      BY <1>7, <1>10, <2>1 DEF RefersToOwn, OwnLast
  <1>12. \A m \in Mvars : m # n => new.shadow[m] = shadow[m] /\ c \notin ToSet(shadow[m])
    BY <1>7 DEF OwnLast
  <1>13. /\ MvarInv'
         /\ Mvar!Holding' = [Mvar!Holding EXCEPT ![n] = AsHeld(new.docs, v)]
    <2>1. RefersWell(new.docs, v.nodes)
      BY <1>9, <1>10
    <2>2. MvarInv /\ phase # "done" /\ phase' \in {"global", "template"} /\ seen' = seen
      OBVIOUS
    <2>3. /\ n \in Mvars /\ Mvar!Becomes(new, n, v) /\ MemoryInv(new, fragment')
          /\ Grows(docs, new.docs, c) /\ ValueOK(v)
      BY <1>5, <1>6, <1>7, <1>10
    <2> QED
      BY ONLY <1>11, <1>12, <2>1, <2>2, <2>3, BecomesKeeps
  <1>14. AsHeld(new.docs, v) = Mvar!Promise!Nodes(tree)
    BY <1>9, <1>10 DEF Mvar!Promise!Nodes
  <1>15. Mvar!Holding[n] = Mvar!Promise!Nothing
    BY HoldingOf
  <1> QED
    BY <1>13, <1>14, <1>15, PromiseSteps

\* What a scalar is, as a promise.
LEMMA ScalarGiven ==
    ASSUME NEW value, Giveable(value), Mvar!slaxValueIsScalar(value)
    PROVE  /\ value = Mvar!Text(value.str) /\ value.nodes = <<>>
           /\ AsHeld(docs, value) = Mvar!Promise!Text(value.str)
           /\ Mvar!Promise!Text(value.str) \in Mvar!Promise!Values
  <1>1. value = Mvar!Text(value.str) /\ AsHeld(docs, value) \in Mvar!Promise!Values
    BY DEF Giveable, Mvar!slaxValueIsScalar
  <1>2. ValueOK(value)
    BY <1>1 DEF ValueOK
  <1>3. value.nodes = <<>> /\ AsHeld(docs, value) = Mvar!Promise!Text(value.str)
    BY <1>1, <1>2, HeldKinds
  <1> QED
    BY <1>1, <1>3

\* mvar $n = value, with nothing or with a container made for it.
LEMMA DeclareValueKeeps ==
    ASSUME MvarInv, phase # "done", phase' \in {"global", "template"}, seen' = seen,
           NEW n \in Mvars, values[n] = Mvar!Nothing, NEW value, Giveable(value),
           Mvar!DeclareValue(n, value)
    PROVE  MvarInv' /\ Mvar!Promise!Declare(n, AsHeld(docs, value))
  <1> DEFINE mem == Mvar!slaxMvarLastContainer(Mvar!Memory, n)
             clone == Mvar!slaxMvarCloneNodeset(mem, Mvar!Last(mem.shadow[n]), value)
  <1>1. /\ fragment' = fragment
        /\ IF Mvar!slaxValueIsScalar(value) THEN Mvar!Becomes(mem, n, value)
           ELSE Mvar!Becomes(clone.mem, n, Mvar!NodeSet(clone.res))
    BY DEF Mvar!DeclareValue
  <1>2. MemoryInv(Mvar!Memory, fragment) /\ Mvar!Memory.shadow[n] = <<>>
    BY InvParts, HoldingOf
  <1>3. MemoryInv(mem, fragment) /\ \E c : Fresh(Mvar!Memory, mem, n, c, <<>>)
    BY <1>2, ContainerKeeps
  <1>4. Mvar!Holding[n] = Mvar!Promise!Nothing
    BY HoldingOf
  <1> HIDE DEF mem
  <1>5. CASE Mvar!slaxValueIsScalar(value)
    <2>1. /\ value = Mvar!Text(value.str)
          /\ AsHeld(docs, value) = Mvar!Promise!Text(value.str)
      BY <1>5, ScalarGiven
    <2>2. Mvar!Becomes(mem, n, Mvar!Text(value.str))
      BY <1>1, <1>5, <2>1
    <2>3. MvarInv' /\ Mvar!Holding' = [Mvar!Holding EXCEPT ![n] = Mvar!Promise!Text(value.str)]
      BY <1>1, <1>3, <2>2, ScalarKeeps
    <2> QED
      BY <1>4, <2>1, <2>3, PromiseSteps
  <1>6. CASE ~Mvar!slaxValueIsScalar(value)
    <2>1. PICK c : Fresh(Mvar!Memory, mem, n, c, <<>>)
      BY <1>3
    <2>2. Mvar!Last(mem.shadow[n]) = c
      BY <2>1, FreshThen, ProperEmpty DEF OwnLast
    <2>3. Copiable(docs, value)
      BY <1>6 DEF Giveable, Mvar!slaxValueIsScalar
    <2>4. clone = Mvar!slaxMvarCloneNodeset(mem, c, value)
      BY <2>2
    <2>5. Mvar!Becomes(clone.mem, n, Mvar!NodeSet(clone.res))
      BY <1>1, <1>6
    <2> HIDE DEF clone
    <2>6. MvarInv' /\ Mvar!Holding' = [Mvar!Holding EXCEPT ![n] = AsHeld(docs, value)]
      BY <1>1, <1>3, <2>1, <2>3, <2>4, <2>5, CopyKeeps
    <2> QED
      BY <1>4, <2>6, PromiseSteps
  <1> QED
    BY <1>5, <1>6

LEMMA DeclareEmptyKeeps ==
    ASSUME MvarInv, phase # "done", phase' \in {"global", "template"}, seen' = seen,
           NEW n \in Mvars, values[n] = Mvar!Nothing, Mvar!DeclareEmpty(n)
    PROVE  MvarInv' /\ Mvar!Promise!Declare(n, Mvar!Promise!Text(""))
  <1>1. fragment' = fragment /\ Mvar!Becomes(Mvar!Memory, n, Mvar!Text(""))
    BY DEF Mvar!DeclareEmpty
  <1>2. MemoryInv(Mvar!Memory, fragment)
    BY InvParts
  <1>3. MvarInv' /\ Mvar!Holding' = [Mvar!Holding EXCEPT ![n] = Mvar!Promise!Text("")]
    BY <1>1, <1>2, ScalarKeeps
  <1>4. Mvar!Holding[n] = Mvar!Promise!Nothing
    BY HoldingOf
  <1> QED
    BY <1>3, <1>4, PromiseSteps

\* What a declaration gives can be given, and what a script sees in it.
LEMMA InitialGiveable ==
    ASSUME MvarInv, phase # "done", NEW value \in Mvar!Initial
    PROVE  Giveable(value)
  <1>1. CASE value = Mvar!Text("")
    <2>1. Mvar!Text("").kind = "string" /\ Mvar!Text("").str = ""
      BY ValueFields
    <2>2. value.kind = "string" /\ value.str = "" /\ value = Mvar!Text(value.str)
      BY <1>1, <2>1
    <2>3. AsHeld(docs, value) = Mvar!Promise!Text("")
      BY <2>2 DEF AsHeld, Mvar!Promise!Text
    <2>4. Mvar!Promise!Text("") \in Mvar!Promise!Values
      BY LiteralsGiven
    <2> QED
      BY <2>2, <2>3, <2>4 DEF Giveable
  <1>2. CASE value \in Mvar!Expressions
    BY <1>2, ExpressionsGiveable
  <1> QED
    BY <1>1, <1>2 DEF Mvar!Initial

LEMMA GivenHeld ==
    ASSUME NEW value, Giveable(value) PROVE Mvar!HeldBy(value) = AsHeld(docs, value)
  <1>1. CASE value.kind = "string"
    BY <1>1 DEF Mvar!HeldBy, AsHeld
  <1>2. CASE value.kind = "tree"
    BY <1>2 DEF Mvar!HeldBy, AsHeld, Mvar!Content
  <1>3. CASE value.kind = "nodes"
    <2>1. Copiable(docs, value)
      BY <1>3 DEF Giveable
    <2>2. value # Mvar!Block(value.tree)
      <3>1. Mvar!Block(value.tree).kind = "tree"
        BY ValueFields
      <3> QED
        BY <1>3, <3>1
    <2>3. RefersWell(docs, value.nodes)
      BY <2>1, <2>2 DEF Copiable
    <2>4. Mvar!Content(docs, value) = ContentOf(docs, value.nodes)
      BY <1>3, <2>3, ContentIs DEF Mvar!Content
    <2> QED
      BY <1>3, <2>4 DEF Mvar!HeldBy, AsHeld
  <1> QED
    BY <1>1, <1>2, <1>3 DEF Giveable

LEMMA BlockGiven ==
    ASSUME NEW value, Giveable(value), value.kind = "tree"
    PROVE  Proper(value.tree) /\ AsHeld(docs, value) = Mvar!Promise!Nodes(value.tree)
  <1>1. Copiable(docs, value)
    BY DEF Giveable
  <1>2. value # Mvar!NodeSet(value.nodes)
    <2>1. Mvar!NodeSet(value.nodes).kind = "nodes"
      BY ValueFields
    <2> QED
      BY <2>1
  <1>3. Proper(value.tree)
    BY <1>1, <1>2 DEF Copiable
  <1>4. AsHeld(docs, value) = Mvar!Promise!Nodes(value.tree)
    BY DEF AsHeld, Mvar!Promise!Nodes
  <1> QED
    BY <1>3, <1>4

\* A mutable variable is declared.
LEMMA CreateKeeps ==
    ASSUME MvarInv, phase # "done", NEW n \in Mvars, NEW value \in Mvar!Initial,
           Mvar!slaxMvarCreateSvar(n, value)
    PROVE  MvarInv' /\ Mvar!Promise!Declare(n, AsHeld(docs, value))
  <1>1. /\ values[n] = Mvar!Nothing /\ seen' = seen /\ phase' \in {"global", "template"}
    BY DEF Mvar!slaxMvarCreateSvar, Mvar!InScope
  <1>2. Giveable(value)
    BY InitialGiveable
  <1>3. CASE value.kind = "tree" /\ Mvar!DeclareBlock(n, value.tree)
    BY <1>1, <1>2, <1>3, BlockGiven, DeclareBlockKeeps
  <1>4. CASE Mvar!DeclareValue(n, value)
    BY <1>1, <1>2, <1>4, DeclareValueKeeps
  <1>5. CASE value = Mvar!Text("") /\ Mvar!DeclareEmpty(n)
    <2>1. Mvar!Text("").kind = "string" /\ Mvar!Text("").str = ""
      BY ValueFields
    <2>2. value.kind = "string" /\ value.str = ""
      BY <1>5, <2>1
    <2>3. AsHeld(docs, value) = Mvar!Promise!Text("")
      BY <2>2 DEF AsHeld, Mvar!Promise!Text
    <2> QED
      BY <1>1, <1>5, <2>3, DeclareEmptyKeeps
  <1> QED
    BY <1>3, <1>4, <1>5 DEF Mvar!slaxMvarCreateSvar

\* var $n = nodes: what is seen is the content of the nodes.
LEMMA DeclareOtherKeeps ==
    ASSUME MvarInv, NEW n \in Others, NEW value \in Mvar!Expressions,
           Mvar!DeclareOther(n, value)
    PROVE  MvarInv' /\ UNCHANGED Mvar!Holding
  <1>1. /\ phase = "template" /\ phase' = "template" /\ value.kind = "nodes"
        /\ values' = [values EXCEPT ![n] = value]
        /\ seen' = [seen EXCEPT ![n] = Mvar!Content(docs, value)]
        /\ docs' = docs /\ shadow' = shadow /\ persistRVT' = persistRVT /\ fragment' = fragment
    BY DEF Mvar!DeclareOther
  <1>2. Giveable(value)
    BY <1>1, ExpressionsGiveable
  <1>3. value = Mvar!NodeSet(value.nodes) /\ RefersWell(docs, value.nodes)
    <2>1. Copiable(docs, value)
      BY <1>1, <1>2 DEF Giveable
    <2>2. value # Mvar!Block(value.tree)
      <3>1. Mvar!Block(value.tree).kind = "tree"
        BY ValueFields
      <3> QED
        BY <1>1, <3>1
    <2> QED
      BY <2>1, <2>2 DEF Copiable
  <1>4. Mvar!Content(docs, value) = ContentOf(docs, value.nodes)
    BY <1>1, <1>3, ContentIs DEF Mvar!Content
  <1>5. /\ \A m \in Variables : ValueOK(values[m]) /\ RefersWell(docs, values[m].nodes)
        /\ \A m \in Mvars : RefersToOwn(shadow[m], values[m])
        /\ \A m \in Others : values[m] = Mvar!Nothing \/ SeenStill(docs, values[m], seen[m])
        /\ \A d \in DOMAIN docs : Proper(docs[d].kids)
        /\ values = [m \in Variables |-> values[m]] /\ seen = [m \in Others |-> seen[m]]
    BY <1>1, InvParts
  <1>6. n \in Variables /\ n \notin Mvars /\ Mvars \subseteq Variables /\ Others \subseteq Variables
    BY MvarConstants DEF Variables
  <1>7. /\ values' = [m \in Variables |-> values'[m]] /\ values'[n] = value
        /\ \A m \in Variables : m # n => values'[m] = values[m]
    BY <1>1, <1>5, <1>6
  <1>8. /\ seen' = [m \in Others |-> seen'[m]] /\ seen'[n] = ContentOf(docs, value.nodes)
        /\ \A m \in Others : m # n => seen'[m] = seen[m]
    BY <1>1, <1>4, <1>5
  <1>9. SeenStill(docs, value, seen'[n])
    <2>1. Extends(seen'[n], ContentOf(docs, value.nodes))
      BY <1>3, <1>5, <1>8, ContentProper, ExtendsSelf
    <2> QED
      BY <1>3, <1>8, <2>1 DEF SeenStill
  <1>10. ValuesInv(docs, shadow, values', seen')
    <2>1. \A m \in Variables : ValueOK(values'[m]) /\ RefersWell(docs, values'[m].nodes)
      BY <1>3, <1>5, <1>7 DEF ValueOK
    <2>2. \A m \in Mvars : RefersToOwn(shadow[m], values'[m])
      BY <1>5, <1>6, <1>7
    <2>3. \A m \in Others : values'[m] = Mvar!Nothing \/ SeenStill(docs, values'[m], seen'[m])
      BY <1>5, <1>6, <1>7, <1>8, <1>9
    <2> QED
      BY <2>1, <2>2, <2>3 DEF ValuesInv
  <1>11. MvarInv'
    <2>1. MemoryInv(Mvar!Memory, fragment)
      BY <1>1, InvParts
    <2>2. Mvar!Memory' = Mvar!Memory
      BY <1>1 DEF Mvar!Memory
    <2>3. MemoryInv(Mvar!Memory', fragment')
      BY <1>1, <2>1, <2>2
    <2>4. ValuesInv(docs', shadow', values', seen')
      BY <1>1, <1>10
    <2> QED
      BY <1>1, <1>7, <1>8, <2>3, <2>4 DEF MvarInv
  <1>12. UNCHANGED Mvar!Holding
    <2>1. \A m \in Mvars : Mvar!Held(m)' = Mvar!Held(m)
      <3> SUFFICES ASSUME NEW m \in Mvars PROVE Mvar!Held(m)' = Mvar!Held(m)
        OBVIOUS
      <3>1. values'[m] = values[m] /\ docs' = docs
        BY <1>1, <1>6, <1>7
      <3> QED
        BY <3>1 DEF Mvar!Held, Mvar!HeldBy, Mvar!Content, Mvar!AllKids, Mvar!Kids
    <2> QED
      BY <2>1, MvarConstants DEF Mvar!Holding
  <1> QED
    BY <1>11, <1>12

\* set $n = value
LEMMA SetKeeps ==
    ASSUME MvarInv, phase = "template", NEW n \in Mvars, values[n] # Mvar!Nothing,
           NEW value, Giveable(value), Mvar!slaxMvarSet(n, value)
    PROVE  MvarInv' /\ Mvar!Promise!SetTo(n, AsHeld(docs, value))
  <1> DEFINE mem == Mvar!slaxMvarNewContainer(Mvar!Memory, n)
             clone == Mvar!slaxMvarCloneNodeset(mem, Mvar!Last(mem.shadow[n]), value)
  <1>1. /\ fragment' = fragment /\ seen' = seen /\ phase' = "template"
        /\ IF Mvar!slaxValueIsScalar(value) THEN Mvar!Becomes(Mvar!Memory, n, value)
           ELSE Mvar!Becomes(clone.mem, n, Mvar!NodeSet(clone.res))
    BY DEF Mvar!slaxMvarSet
  <1>2. MemoryInv(Mvar!Memory, fragment)
    BY InvParts
  <1>3. MemoryInv(mem, fragment) /\ \E c : Fresh(Mvar!Memory, mem, n, c, <<>>)
    BY <1>2, ContainerKeeps
  <1>4. Mvar!Holding[n] # Mvar!Promise!Nothing
    BY HoldingOf
  <1> HIDE DEF mem
  <1>5. CASE Mvar!slaxValueIsScalar(value)
    <2>1. /\ value = Mvar!Text(value.str)
          /\ AsHeld(docs, value) = Mvar!Promise!Text(value.str)
      BY <1>5, ScalarGiven
    <2>2. Mvar!Becomes(Mvar!Memory, n, Mvar!Text(value.str))
      BY <1>1, <1>5, <2>1
    <2>3. MvarInv' /\ Mvar!Holding' = [Mvar!Holding EXCEPT ![n] = Mvar!Promise!Text(value.str)]
      BY <1>1, <1>2, <2>2, ScalarKeeps
    <2> QED
      BY <1>4, <2>1, <2>3, PromiseSteps
  <1>6. CASE ~Mvar!slaxValueIsScalar(value)
    <2>1. PICK c : Fresh(Mvar!Memory, mem, n, c, <<>>)
      BY <1>3
    <2>2. Mvar!Last(mem.shadow[n]) = c
      BY <2>1, FreshThen, ProperEmpty DEF OwnLast
    <2>3. Copiable(docs, value)
      BY <1>6 DEF Giveable, Mvar!slaxValueIsScalar
    <2>4. clone = Mvar!slaxMvarCloneNodeset(mem, c, value)
      BY <2>2
    <2>5. Mvar!Becomes(clone.mem, n, Mvar!NodeSet(clone.res))
      BY <1>1, <1>6
    <2> HIDE DEF clone
    <2>6. MvarInv' /\ Mvar!Holding' = [Mvar!Holding EXCEPT ![n] = AsHeld(docs, value)]
      BY <1>1, <1>3, <2>1, <2>3, <2>4, <2>5, CopyKeeps
    <2> QED
      BY <1>4, <2>6, PromiseSteps
  <1> QED
    BY <1>5, <1>6

\* append $n += value, of strings
LEMMA AppendStringKeeps ==
    ASSUME MvarInv, phase = "template", fragment' = fragment, seen' = seen,
           NEW n \in Mvars, values[n] # Mvar!Nothing, Mvar!slaxValueIsScalar(values[n]),
           NEW value, Giveable(value), Mvar!slaxValueIsScalar(value), Mvar!AppendString(n, value)
    PROVE  /\ MvarInv' /\ phase' = "template"
           /\ Mvar!Promise!AppendTo(n, AsHeld(docs, value))
  <1> DEFINE s == values[n].str \o value.str
  <1>1. phase' = "template" /\ Mvar!Becomes(Mvar!Memory, n, Mvar!Text(s))
    BY DEF Mvar!AppendString
  <1>2. MemoryInv(Mvar!Memory, fragment)
    BY InvParts
  <1>3. MvarInv' /\ Mvar!Holding' = [Mvar!Holding EXCEPT ![n] = Mvar!Promise!Text(s)]
    <2> HIDE DEF s
    <2> QED
      BY <1>1, <1>2, ScalarKeeps
  <1>4. AsHeld(docs, value) = Mvar!Promise!Text(value.str)
    BY ScalarGiven
  <1>5. Mvar!Holding[n] = Mvar!Promise!Text(values[n].str) /\ Mvar!Holding[n] # Mvar!Promise!Nothing
    <2>1. values[n] = Mvar!Text(values[n].str)
      <3>1. ValueOK(values[n])
        BY HoldingOf
      <3>2. values[n] # Mvar!NodeSet(values[n].nodes)
        <4>1. Mvar!NodeSet(values[n].nodes).kind = "nodes"
          BY ValueFields
        <4> QED
          BY <4>1 DEF Mvar!slaxValueIsScalar
      <3> QED
        BY <3>1, <3>2 DEF ValueOK
    <2>2. AsHeld(docs, values[n]) = Mvar!Promise!Text(values[n].str)
      BY <2>1, HoldingOf, HeldKinds
    <2> QED
      BY <2>2, HoldingOf
  <1>6. Mvar!Promise!Appended(Mvar!Promise!Text(values[n].str), Mvar!Promise!Text(value.str))
           = Mvar!Promise!Text(s)
    <2>1. \A x, y : Mvar!Promise!Appended(Mvar!Promise!Text(x), Mvar!Promise!Text(y))
                       = Mvar!Promise!Text(x \o y)
      BY DEF Mvar!Promise!Appended, Mvar!Promise!Text
    <2> QED
      BY <2>1
  <1> HIDE DEF s
  <1>7. Mvar!Holding' = [Mvar!Holding EXCEPT
           ![n] = Mvar!Promise!Appended(Mvar!Holding[n], Mvar!Promise!Text(value.str))]
    BY <1>3, <1>5, <1>6
  <1> QED
    BY <1>1, <1>3, <1>4, <1>5, <1>7, PromiseSteps

\* The children that append adds, for every kind of value.
AppendedKids(value) ==
    CASE value.kind = "string" -> IF value.str = "" THEN <<>> ELSE <<value.str>>
      [] value.kind = "tree" -> value.tree
      [] OTHER -> Mvar!AllKids(docs, Mvar!Copied(value.nodes))

LEMMA AppendedKidsAre ==
    ASSUME MvarInv, phase # "done", NEW value, Giveable(value)
    PROVE  /\ Proper(AppendedKids(value))
           /\ AppendedKids(value) = IF value.kind = "string"
                                    THEN Mvar!Promise!TextNode(value.str)
                                    ELSE AsHeld(docs, value).nodes
           /\ AsHeld(docs, value) = IF value.kind = "string" THEN Mvar!Promise!Text(value.str)
                                    ELSE Mvar!Promise!Nodes(AppendedKids(value))
  <1>1. CASE value.kind = "string"
    <2>1. AppendedKids(value) = Mvar!Promise!TextNode(value.str)
      BY <1>1 DEF AppendedKids, Mvar!Promise!TextNode
    <2>2. Proper(Mvar!Promise!TextNode(value.str))
      <3> DEFINE S == {value.str}
      <3>1. <<>> \in Seq(S) /\ <<value.str>> \in Seq(S)
        OBVIOUS
      <3>2. Mvar!Promise!TextNode(value.str) \in Seq(S)
        <4>1. Mvar!Promise!TextNode(value.str) \in {<<>>, <<value.str>>}
          BY DEF Mvar!Promise!TextNode
        <4> HIDE DEF S
        <4> QED
          BY <3>1, <4>1
      <3> QED
        BY <3>2, ProperSeq
    <2>3. AsHeld(docs, value) = Mvar!Promise!Text(value.str)
      BY <1>1, ScalarGiven DEF Mvar!slaxValueIsScalar
    <2> QED
      BY <1>1, <2>1, <2>2, <2>3
  <1>2. CASE value.kind # "string"
    <2>1. Copiable(docs, value) /\ \A d \in DOMAIN docs : Proper(docs[d].kids)
      BY <1>2, InvParts DEF Giveable
    <2>2. /\ Proper(AsHeld(docs, value).nodes)
          /\ AsHeld(docs, value) = [kind |-> "nodes", str |-> "", nodes |-> AsHeld(docs, value).nodes]
          /\ AsHeld(docs, value).nodes
                = IF value.kind = "tree" THEN value.tree ELSE ContentOf(docs, value.nodes)
          /\ value.kind # "tree" => RefersWell(docs, value.nodes)
          /\ value.kind \in {"tree", "nodes"}
      BY ONLY <2>1, CopiableHeld
    <2>3. AppendedKids(value) = AsHeld(docs, value).nodes
      <3>1. CASE value.kind = "tree"
        BY <2>2, <3>1 DEF AppendedKids
      <3>2. CASE value.kind # "tree"
        <4>1. Mvar!AllKids(docs, Mvar!Copied(value.nodes)) = ContentOf(docs, value.nodes)
          BY <2>2, <3>2, ContentIs
        <4> QED
          BY <1>2, <2>2, <3>2, <4>1 DEF AppendedKids
      <3> QED
        BY <3>1, <3>2
    <2> QED
      BY <1>2, <2>2, <2>3 DEF Mvar!Promise!Nodes
  <1> QED
    BY <1>1, <1>2

\* The container that append adds to.
LEMMA LastContainerIs ==
    ASSUME MvarInv, phase # "done", NEW n \in Mvars, values[n] # Mvar!Nothing,
           NEW mem, mem = Mvar!slaxMvarLastContainer(Mvar!Memory, n),
           NEW c, c = Mvar!Last(mem.shadow[n])
    PROVE  /\ MemoryInv(mem, fragment) /\ Grows(docs, mem.docs, c) /\ OwnLast(mem, n, c)
           /\ RefersWell(mem.docs, values[n].nodes)
           /\ \A i \in 1 .. Len(values[n].nodes) : values[n].nodes[i][1] = c
           /\ ContentOf(mem.docs, values[n].nodes) = ContentOf(docs, values[n].nodes)
  <1>1. /\ MemoryInv(Mvar!Memory, fragment) /\ Mvar!Memory.shadow = shadow
        /\ Mvar!Memory.docs = docs
    BY InvParts
  <1>2. RefersToOwn(shadow[n], values[n]) /\ RefersWell(docs, values[n].nodes)
        /\ shadow[n] \in Seq(Made(Mvar!Memory))
    BY HoldingOf
  <1>3. CASE shadow[n] = <<>>
    <2>1. MemoryInv(mem, fragment) /\ \E d : Fresh(Mvar!Memory, mem, n, d, <<>>)
      BY <1>1, <1>3, ContainerKeeps
    <2>2. PICK d : Fresh(Mvar!Memory, mem, n, d, <<>>)
      BY <2>1
    <2>3. Grows(docs, mem.docs, d) /\ OwnLast(mem, n, d)
      BY <2>2, FreshThen, ProperEmpty
    <2>4. c = d
      BY <2>3 DEF OwnLast
    <2>5. \A i \in 1 .. Len(values[n].nodes) : FALSE
      BY <1>2, <1>3 DEF RefersToOwn
    <2>6. ~Whole(values[n].nodes)
      <3> SUFFICES ASSUME Whole(values[n].nodes) PROVE FALSE
        OBVIOUS
      <3>1. 1 \in 1 .. Len(values[n].nodes)
        BY DEF Whole
      <3> QED
        BY <2>5, <3>1
    <2>7. /\ RefersWell(mem.docs, values[n].nodes)
          /\ ContentOf(mem.docs, values[n].nodes) = ContentOf(docs, values[n].nodes)
      BY <1>2, <2>3, <2>6, GrownRefers, GrownContent
    <2> QED
      BY <2>1, <2>3, <2>4, <2>5, <2>7
  <1>4. CASE shadow[n] # <<>>
    <2>1. mem = Mvar!Memory
      BY <1>1, <1>4, ContainerKeeps
    <2>2. c = Mvar!Last(shadow[n]) /\ OwnLast(mem, n, c)
      BY <1>1, <1>4, <2>1, OwnLastNow
    <2>3. \A i \in 1 .. Len(values[n].nodes) : values[n].nodes[i][1] = c
      BY <1>2, <1>4, <2>2, LastIn DEF RefersToOwn
    <2> QED
      BY <1>1, <1>2, <2>1, <2>2, <2>3, GrowsSelf
  <1> QED
    BY <1>3, <1>4

\* What is promised of a variable to which something is appended.
LEMMA AppendedIs ==
    ASSUME MvarInv, phase # "done", NEW n \in Mvars, values[n] # Mvar!Nothing,
           NEW value, Giveable(value),
           ~(Mvar!slaxValueIsScalar(values[n]) /\ Mvar!slaxValueIsScalar(value))
    PROVE  Mvar!Promise!Appended(Mvar!Holding[n], AsHeld(docs, value))
              = Mvar!Promise!Nodes(ContentOf(docs, values[n].nodes) \o AppendedKids(value))
  <1> DEFINE old == Mvar!Holding[n]
             new == AsHeld(docs, value)
             was == ContentOf(docs, values[n].nodes)
             kids == AppendedKids(value)
  <1>1. /\ Proper(kids)
        /\ kids = IF value.kind = "string" THEN Mvar!Promise!TextNode(value.str)
                  ELSE AsHeld(docs, value).nodes
        /\ new = IF value.kind = "string" THEN Mvar!Promise!Text(value.str)
                 ELSE Mvar!Promise!Nodes(kids)
    BY AppendedKidsAre
  <1>2. old = AsHeld(docs, values[n]) /\ ValueOK(values[n])
    BY HoldingOf
  <1>3. \/ /\ values[n].kind = "string" /\ values[n].nodes = <<>>
           /\ old = Mvar!Promise!Text(values[n].str)
        \/ values[n].kind = "nodes" /\ old = Mvar!Promise!Nodes(was)
    <2>1. CASE values[n] = Mvar!Text(values[n].str)
      <3>1. Mvar!Text(values[n].str).kind = "string"
        BY ValueFields
      <3> QED
        BY <1>2, <2>1, <3>1, HeldKinds
    <2>2. CASE values[n] = Mvar!NodeSet(values[n].nodes)
      <3>1. Mvar!NodeSet(values[n].nodes).kind = "nodes"
        BY ValueFields
      <3> QED
        BY <1>2, <2>2, <3>1, HeldKinds
    <2> QED
      BY <1>2, <2>1, <2>2 DEF ValueOK
  <1>4. values[n].nodes = <<>> => was \o kids = kids
    <2> SUFFICES ASSUME values[n].nodes = <<>> PROVE was \o kids = kids
      OBVIOUS
    <2>1. was = <<>>
      BY DEF ContentOf, Whole
    <2>2. kids \in Seq(ToSet(kids))
      BY <1>1 DEF Proper
    <2> HIDE DEF kids, was
    <2> QED
      BY <2>1, <2>2
  <1>5. /\ \A x : Mvar!Promise!Text(x).kind = "string" /\ Mvar!Promise!Text(x).str = x
        /\ \A x : Mvar!Promise!Nodes(x).kind = "nodes" /\ Mvar!Promise!Nodes(x).nodes = x
    BY DEF Mvar!Promise!Text, Mvar!Promise!Nodes
  <1> HIDE DEF old, new, was, kids
  <1>6. CASE values[n].kind = "string"
    <2>1. value.kind # "string" /\ old.kind = "string" /\ new.kind = "nodes"
          /\ new = Mvar!Promise!Nodes(kids)
      BY <1>1, <1>3, <1>5, <1>6 DEF Mvar!slaxValueIsScalar
    <2>2. Mvar!Promise!Appended(old, new) = new
      BY <2>1 DEF Mvar!Promise!Appended
    <2> QED
      BY <1>3, <1>4, <1>6, <2>1, <2>2 DEF old, new, was, kids
  <1>7. CASE values[n].kind # "string"
    <2>1. old.kind = "nodes" /\ old.nodes = was
      BY <1>3, <1>5, <1>7
    <2>2. CASE value.kind = "string"
      <3>1. new.kind = "string" /\ new.str = value.str /\ kids = Mvar!Promise!TextNode(new.str)
        BY <1>1, <1>5, <2>2
      <3>2. Mvar!Promise!Appended(old, new)
               = Mvar!Promise!Nodes(old.nodes \o Mvar!Promise!TextNode(new.str))
        BY <2>1, <3>1 DEF Mvar!Promise!Appended
      <3> QED
        BY <2>1, <3>1, <3>2 DEF old, new, was, kids
    <2>3. CASE value.kind # "string"
      <3>1. new.kind = "nodes" /\ new.nodes = kids
        BY <1>1, <1>5, <2>3
      <3>2. Mvar!Promise!Appended(old, new) = Mvar!Promise!Nodes(old.nodes \o new.nodes)
        BY <2>1, <3>1 DEF Mvar!Promise!Appended
      <3> QED
        BY <2>1, <3>1, <3>2 DEF old, new, was, kids
    <2> QED
      BY <2>2, <2>3
  <1> QED
    BY <1>6, <1>7

\* append $n += value, with nodes on one side at least
LEMMA AppendNodesKeeps ==
    ASSUME MvarInv, phase = "template", fragment' = fragment, seen' = seen,
           NEW n \in Mvars, values[n] # Mvar!Nothing,
           NEW value, Giveable(value),
           ~(Mvar!slaxValueIsScalar(values[n]) /\ Mvar!slaxValueIsScalar(value)),
           ~Mvar!Endless(n, value), Mvar!AppendNodes(n, value)
    PROVE  /\ MvarInv' /\ phase' = "template"
           /\ Mvar!Promise!AppendTo(n, AsHeld(docs, value))
  <1> DEFINE mem == Mvar!slaxMvarLastContainer(Mvar!Memory, n)
             c == Mvar!Last(mem.shadow[n])
             kids == AppendedKids(value)
             res == values[n].nodes
             was == ContentOf(docs, res)
             new == Mvar!slaxMvarAdd(mem, c, kids)
             nodes == IF Mvar!Targets(res, c) THEN res \o Mvar!Added(mem, c, Len(kids)) ELSE res
             v == Mvar!NodeSet(nodes)
  <1>1. phase' = "template" /\ Mvar!Becomes(new, n, v)
    BY DEF Mvar!AppendNodes, AppendedKids
  <1>2. /\ MemoryInv(mem, fragment) /\ Grows(docs, mem.docs, c) /\ OwnLast(mem, n, c)
        /\ RefersWell(mem.docs, res)
        /\ \A i \in 1 .. Len(res) : res[i][1] = c
        /\ ContentOf(mem.docs, res) = was
    BY LastContainerIs
  <1>3. Proper(kids)
    BY AppendedKidsAre
  <1> HIDE DEF mem, c, kids, res
  <1>4. /\ MemoryInv(new, fragment) /\ new.shadow = mem.shadow /\ Grows(docs, new.docs, c)
    <2>1. c \in Made(mem) /\ MemoryOK(mem) /\ Proper(kids)
      BY <1>2, <1>3 DEF OwnLast, MemoryInv
    <2>2. MemoryInv(new, fragment)
      BY <1>2, <2>1, AddKeeps
    <2>3. new.shadow = mem.shadow
      BY ONLY <2>1, AddIs
    <2>4. Grows(mem.docs, new.docs, c)
      BY ONLY <2>1, AddGrows
    <2> QED
      BY <1>2, <2>2, <2>3, <2>4, GrowsOn
  <1>5. CopyOf(new.docs, c, nodes, was \o kids)
    <2>1. /\ MemoryOK(mem) /\ c \in Made(mem) /\ mem.docs[c].live /\ RefersWell(mem.docs, res)
          /\ \A i \in 1 .. Len(res) : res[i][1] = c
          /\ Proper(kids)
      BY <1>2, <1>3 DEF OwnLast, MemoryInv
    <2>2. CopyOf(new.docs, c, nodes, ContentOf(mem.docs, res) \o kids)
      BY ONLY <2>1, AppendIs
    <2> QED
      BY <1>2, <2>2
  <1> HIDE DEF new, nodes
  <1>6. v.nodes = nodes /\ v # Mvar!Nothing /\ ValueOK(v)
    <2>1. v.nodes = nodes /\ v # Mvar!Nothing
      BY ValueFields
    <2> QED
      BY <2>1 DEF ValueOK
  <1>7. AsHeld(new.docs, v) = Mvar!Promise!Nodes(was \o kids)
    BY <1>5, HeldNodes DEF CopyOf, Mvar!Promise!Nodes
  <1> HIDE DEF v
  <1>8. RefersWell(new.docs, v.nodes) /\ RefersToOwn(new.shadow[n], v)
    BY <1>2, <1>4, <1>5, <1>6 DEF CopyOf, RefersToOwn, OwnLast
  <1>9. /\ MvarInv'
        /\ Mvar!Holding' = [Mvar!Holding EXCEPT ![n] = AsHeld(new.docs, v)]
    <2>1. /\ MvarInv /\ phase # "done" /\ phase' \in {"global", "template"} /\ seen' = seen
          /\ MemoryInv(new, fragment')
      BY <1>1, <1>4
    <2>2. \A m \in Mvars : m # n => new.shadow[m] = shadow[m] /\ c \notin ToSet(shadow[m])
      BY <1>2, <1>4 DEF OwnLast
    <2>3. n \in Mvars /\ Mvar!Becomes(new, n, v) /\ Grows(docs, new.docs, c) /\ ValueOK(v)
      BY <1>1, <1>4, <1>6
    <2> QED
      BY ONLY <1>8, <2>1, <2>2, <2>3, BecomesKeeps
  <1>10. Mvar!Promise!Appended(Mvar!Holding[n], AsHeld(docs, value))
            = Mvar!Promise!Nodes(was \o kids)
    BY AppendedIs DEF kids, res
  <1>11. Mvar!Holding[n] # Mvar!Promise!Nothing
    BY HoldingOf
  <1>12. Mvar!Holding' = [Mvar!Holding EXCEPT
            ![n] = Mvar!Promise!Appended(Mvar!Holding[n], AsHeld(docs, value))]
    BY <1>7, <1>9, <1>10
  <1> QED
    BY <1>1, <1>9, <1>11, <1>12, PromiseSteps

\* Nothing changes any more once children are copied to their own list.
LEMMA LoopingKeeps ==
    ASSUME MvarInv, phase # "done", phase' = "looping", fragment' = fragment, seen' = seen,
           docs' = docs, persistRVT' = persistRVT, shadow' = shadow, values' = values
    PROVE  MvarInv' /\ UNCHANGED Mvar!Holding
  <1>1. MemoryInv(Mvar!Memory, fragment) /\ ValuesInv(docs, shadow, values, seen)
    BY DEF MvarInv
  <1>2. Mvar!Memory' = Mvar!Memory
    BY DEF Mvar!Memory
  <1>3. MemoryInv(Mvar!Memory', fragment') /\ ValuesInv(docs', shadow', values', seen')
    BY <1>1, <1>2
  <1>4. MvarInv'
    BY <1>3 DEF MvarInv
  <1>5. UNCHANGED Mvar!Holding
    BY DEF Mvar!Holding, Mvar!Held, Mvar!HeldBy, Mvar!Content, Mvar!AllKids, Mvar!Kids
  <1> QED
    BY <1>4, <1>5

\* A set statement, and one that appends.
LEMMA SetElementKeeps ==
    ASSUME MvarInv, NEW n \in Mvars, NEW value, Giveable(value),
           Mvar!slaxMvarElement(n, value, FALSE)
    PROVE  MvarInv' /\ Mvar!Promise!SetTo(n, AsHeld(docs, value))
  <1>1. phase = "template" /\ values[n] # Mvar!Nothing /\ Mvar!slaxMvarSet(n, value)
    BY DEF Mvar!slaxMvarElement, Mvar!InScope
  <1> QED
    BY <1>1, SetKeeps

LEMMA AppendElementKeeps ==
    ASSUME MvarInv, NEW n \in Mvars, NEW value, Giveable(value),
           Mvar!slaxMvarElement(n, value, TRUE)
    PROVE  /\ MvarInv'
           /\ IF phase' = "looping" THEN UNCHANGED Mvar!Holding
              ELSE Mvar!Promise!AppendTo(n, AsHeld(docs, value))
  <1>1. phase = "template" /\ values[n] # Mvar!Nothing /\ Mvar!slaxMvarAppend(n, value)
    BY DEF Mvar!slaxMvarElement, Mvar!InScope
  <1>2. /\ fragment' = fragment /\ seen' = seen
        /\ IF Mvar!slaxValueIsScalar(values[n]) /\ Mvar!slaxValueIsScalar(value)
           THEN Mvar!AppendString(n, value) ELSE Mvar!AppendNodes(n, value)
    BY <1>1 DEF Mvar!slaxMvarAppend
  <1>3. CASE Mvar!slaxValueIsScalar(values[n]) /\ Mvar!slaxValueIsScalar(value)
    BY <1>1, <1>2, <1>3, AppendStringKeeps
  <1>4. CASE ~(Mvar!slaxValueIsScalar(values[n]) /\ Mvar!slaxValueIsScalar(value))
    <2>1. Mvar!AppendNodes(n, value)
      BY <1>2, <1>4
    <2>2. CASE Mvar!Endless(n, value)
      <3>1. phase' = "looping" /\ UNCHANGED <<docs, persistRVT, shadow, values>>
        BY <2>1, <2>2 DEF Mvar!AppendNodes
      <3> QED
        BY <1>1, <1>2, <3>1, LoopingKeeps
    <2>3. CASE ~Mvar!Endless(n, value)
      BY <1>1, <1>2, <1>4, <2>1, <2>3, AppendNodesKeeps
    <2> QED
      BY <2>2, <2>3
  <1> QED
    BY <1>3, <1>4

\* Either, of a variable that the compiler lets be set.
LEMMA ElementKeeps ==
    ASSUME MvarInv, Imported \cap Others = {}, NEW append \in BOOLEAN,
           NEW n \in Mvar!Names, NEW value \in Mvar!Expressions,
           Mvar!slaxMvarElement(n, value, append)
    PROVE  MvarInv' /\ (Mvar!Promise!Next \/ UNCHANGED Mvar!Holding)
  <1>1. phase = "template" /\ Mvar!Compiles(n) /\ Mvar!InScope(n)
    BY DEF Mvar!slaxMvarElement
  <1>2. n \in Mvars
    BY <1>1, MvarConstants DEF Mvar!Compiles, Variables
  <1>3. Giveable(value) /\ AsHeld(docs, value) \in Mvar!Promise!Values
    BY <1>1, ExpressionsGiveable DEF Giveable
  <1>4. CASE append = FALSE
    BY <1>2, <1>3, <1>4, SetElementKeeps, PromiseNext
  <1>5. CASE append = TRUE
    BY <1>2, <1>3, <1>5, AppendElementKeeps, PromiseNext
  <1> QED
    BY <1>4, <1>5

-----------------------------------------------------------------------------
(* Lists that are freed *)

Reaches(head, f) ==
    f = [k \in 0 .. MaxDocs |->
            IF k = 0 THEN {head} ELSE f[k - 1] \cup {docs[d].next : d \in f[k - 1]}]

\* Following next does not leave a set of documents that it leads out of nowhere.
LEMMA ChainIn ==
    ASSUME NEW K, NEW head \in K, \A d \in K : docs[d].next \in K
    PROVE  Mvar!Chain(head) \subseteq K \ {0}
  <1> DEFINE S == SUBSET K
             F == [x \in Nat \X S |-> x[2] \cup {docs[d].next : d \in x[2]}]
             p == [n \in Nat \ {0} |-> n - 1]
             reach == CHOOSE f : Reaches(head, f)
  <1>1. F \in [Nat \X S -> S] /\ \A n \in Nat, v \in S : F[<<n, v>>] = v \cup {docs[d].next : d \in v}
    <2>1. \A x \in Nat \X S : x[2] \cup {docs[d].next : d \in x[2]} \in S
      OBVIOUS
    <2> QED
      BY <2>1
  <1>2. p \in [Nat \ {0} -> Nat] /\ \A n \in Nat \ {0} : p[n] = n - 1 /\ p[n] < n
    OBVIOUS
  <1>3. {head} \in S /\ MaxDocs \in Nat
    <2>1. MaxDocs \in Nat
      BY RunningAssumption DEF Mvar!MvarAssumption
    <2> QED
      BY <2>1
  <1> HIDE DEF F, p
  <1>4. Recursion(S, p, {head}, F)
    BY <1>1, <1>2, <1>3 DEF Recursion
  <1> HIDE DEF S
  <1>5. PICK h \in [Nat -> S] :
           h[0] = {head} /\ \A n \in Nat \ {0} : h[n] = F[<<n, h[p[n]]>>]
    BY <1>4, RecursionExists
  <1> DEFINE g == [k \in 0 .. MaxDocs |-> h[k]]
  <1>6. /\ g = [k \in 0 .. MaxDocs |-> g[k]]
        /\ \A k \in 0 .. MaxDocs : g[k] = h[k] /\ g[k] \in S
    BY <1>3, <1>5
  <1> HIDE DEF g
  <1>7. ASSUME NEW k \in 0 .. MaxDocs
        PROVE  g[k] = IF k = 0 THEN {head} ELSE g[k - 1] \cup {docs[d].next : d \in g[k - 1]}
    <2>1. CASE k = 0
      BY <1>5, <1>6, <2>1
    <2>2. CASE k # 0
      <3>1. k \in Nat \ {0} /\ k - 1 \in 0 .. MaxDocs /\ k - 1 \in Nat /\ p[k] = k - 1
        BY <1>2, <1>3, <2>2
      <3>2. h[k] = F[<<k, h[k - 1]>>] /\ h[k - 1] \in S
        BY <1>5, <3>1
      <3> QED
        BY <1>1, <1>6, <2>2, <3>1, <3>2
    <2> QED
      BY <2>1, <2>2
  <1>8. Reaches(head, g)
    BY <1>6, <1>7 DEF Reaches
  <1>9. Reaches(head, reach)
    BY <1>8
  <1>10. Mvar!Chain(head) = reach[MaxDocs] \ {0}
    BY DEF Mvar!Chain, Reaches
  <1> HIDE DEF reach
  <1> DEFINE T == {k \in Nat : k \in 0 .. MaxDocs => reach[k] \in SUBSET K}
  <1>11. 0 \in T
    BY <1>9 DEF Reaches
  <1>12. ASSUME NEW k \in Nat, k \in T PROVE k + 1 \in T
    <2> SUFFICES ASSUME k + 1 \in 0 .. MaxDocs PROVE reach[k + 1] \in SUBSET K
      OBVIOUS
    <2>1. k \in 0 .. MaxDocs /\ (k + 1) - 1 = k /\ k + 1 # 0
      BY <1>3
    <2>2. reach[k + 1] = reach[k] \cup {docs[d].next : d \in reach[k]}
      BY <1>9, <2>1 DEF Reaches
    <2>3. reach[k] \in SUBSET K
      BY <1>12, <2>1
    <2> QED
      BY <2>2, <2>3
  <1> HIDE DEF T
  <1>13. Nat \subseteq T
    BY <1>11, <1>12, SetInduction
  <1>14. reach[MaxDocs] \subseteq K
    BY <1>3, <1>13 DEF T
  <1> QED
    BY <1>10, <1>14

\* What a variable's own list and the context's free.
LEMMA ListsAre ==
    ASSUME MvarInv, phase # "done", NEW P \in SUBSET Made(Mvar!Memory),
           OwnedBy(Mvar!Memory, fragment, P)
    PROVE  /\ Mvar!Chain(persistRVT) \subseteq P
           /\ \A d \in P : docs[d].live /\ d # 0
           /\ \A n \in Locals :
                 /\ Mvar!Chain(fragment[n]) \subseteq ToSet(shadow[n])
                 /\ Mvar!Chain(fragment[n]) \cap P = {}
                 /\ \A d \in Mvar!Chain(fragment[n]) : docs[d].live /\ d # 0
  <1>1. Mvar!Memory.docs = docs /\ Mvar!Memory.shadow = shadow /\ Mvar!Memory.persistRVT = persistRVT
    BY InvParts
  <1>2. docs[0].next = 0
    BY <1>1, InvParts DEF MemoryOK
  <1>3. /\ persistRVT \in P \cup {0}
        /\ \A d \in P : docs[d].live /\ docs[d].next \in P \cup {0} /\ d # 0
    BY <1>1 DEF OwnedBy, Made
  <1>4. Mvar!Chain(persistRVT) \subseteq P
    <2> DEFINE K == P \cup {0}
    <2>1. persistRVT \in K /\ \A d \in K : docs[d].next \in K
      BY <1>2, <1>3
    <2>2. Mvar!Chain(persistRVT) \subseteq K \ {0}
      <3> HIDE DEF K
      <3> QED
        BY <2>1, ChainIn
    <2> QED
      BY <2>2
  <1>5. ASSUME NEW n \in Locals
        PROVE  /\ Mvar!Chain(fragment[n]) \subseteq ToSet(shadow[n])
               /\ Mvar!Chain(fragment[n]) \cap P = {}
               /\ \A d \in Mvar!Chain(fragment[n]) : docs[d].live /\ d # 0
    <2>1. n \in Mvars
      BY DEF Mvars
    <2>2. CASE fragment[n] = 0
      <3> DEFINE K == {0}
      <3>1. fragment[n] \in K /\ \A d \in K : docs[d].next \in K
        BY <1>2, <2>2
      <3>2. Mvar!Chain(fragment[n]) \subseteq K \ {0}
        <4> HIDE DEF K
        <4> QED
          BY <3>1, ChainIn
      <3> QED
        BY <3>2
    <2>3. CASE fragment[n] # 0
      <3> DEFINE own == ToSet(shadow[n])
                 K == own \cup {0}
      <3>1. /\ fragment[n] \in own /\ own \cap P = {}
            /\ \A d \in own : docs[d].live /\ docs[d].next \in K
        BY <1>1, <2>1, <2>3 DEF OwnedBy, OwnList
      <3>2. fragment[n] \in K /\ \A d \in K : docs[d].next \in K
        BY <1>2, <3>1
      <3>3. Mvar!Chain(fragment[n]) \subseteq K \ {0}
        <4> HIDE DEF K
        <4> QED
          BY <3>2, ChainIn
      <3> QED
        BY <3>1, <3>3
    <2> QED
      BY <2>2, <2>3
  <1> QED
    BY <1>3, <1>4, <1>5

\* What the variables refer to is the same where documents have the same children.
LEMMA SameKids ==
    ASSUME NEW ds, NEW ds2, DOMAIN ds2 = DOMAIN ds,
           \A d \in DOMAIN ds : ds2[d].kids = ds[d].kids,
           NEW nodes, RefersWell(ds, nodes), \A i \in 1 .. Len(nodes) : ds2[nodes[i][1]].live
    PROVE  RefersWell(ds2, nodes) /\ ContentOf(ds2, nodes) = ContentOf(ds, nodes)
  <1>1. \A i \in 1 .. Len(nodes) : ds2[nodes[i][1]].kids = ds[nodes[i][1]].kids
    BY WellParts
  <1>2. RefersWell(ds2, nodes)
    BY <1>1 DEF RefersWell
  <1>3. ContentOf(ds2, nodes) = ContentOf(ds, nodes)
    <2>1. CASE Whole(nodes)
      <3>1. 1 \in 1 .. Len(nodes)
        BY <2>1 DEF Whole
      <3> QED
        BY <1>1, <2>1, <3>1 DEF ContentOf
    <2>2. CASE ~Whole(nodes)
      BY <1>1, <2>2 DEF ContentOf
    <2> QED
      BY <2>1, <2>2
  <1> QED
    BY <1>2, <1>3

\* A template ends.
LEMMA LeaveKeeps ==
    ASSUME MvarInv, Mvar!LeaveTemplate
    PROVE  MvarInv' /\ Mvar!Promise!Leave
  <1> DEFINE mem == Mvar!Memory
             gone == UNION {Mvar!Chain(fragment[n]) : n \in Locals}
  <1>1. /\ phase = "template" /\ phase' = "global" /\ persistRVT' = persistRVT
        /\ docs' = [d \in DOMAIN docs |-> [docs[d] EXCEPT !.live = @ /\ d \notin gone]]
        /\ values' = [n \in Variables |-> IF n \in Globals THEN values[n] ELSE Mvar!Nothing]
        /\ shadow' = [n \in Mvars |-> IF n \in Globals THEN shadow[n] ELSE <<>>]
        /\ fragment' = [n \in Locals |-> 0] /\ seen' = [n \in Others |-> <<>>]
    BY MvarConstants DEF Mvar!LeaveTemplate, Mvar!Freed
  <1>2. /\ MemoryInv(mem, fragment) /\ MemoryOK(mem)
        /\ mem.docs = docs /\ mem.shadow = shadow /\ mem.persistRVT = persistRVT
    BY <1>1, InvParts
  <1>3. PICK P \in SUBSET Made(mem) : OwnedBy(mem, fragment, P)
    BY <1>2 DEF MemoryInv
  <1>4. /\ \A d \in P : docs[d].live /\ d # 0 /\ d \notin gone
        /\ 0 \notin gone
    <2>1. /\ \A d \in P : docs[d].live /\ d # 0
          /\ \A n \in Locals :
                /\ Mvar!Chain(fragment[n]) \cap P = {}
                /\ \A d \in Mvar!Chain(fragment[n]) : d # 0
      BY <1>1, <1>3, ListsAre
    <2> QED
      BY <2>1
  <1> HIDE DEF gone
  <1>5. Globals \subseteq Mvars /\ Mvars \subseteq Variables /\ Others \subseteq Variables
        /\ Globals \cap Locals = {} /\ Mvars \cap Others = {} /\ Globals \cap Others = {}
        /\ Locals \subseteq Mvars
    BY MvarConstants DEF Mvars, Variables
  <1>6. /\ DOMAIN docs' = DOMAIN docs /\ docs' = [d \in DOMAIN docs |-> docs'[d]]
        /\ \A d \in DOMAIN docs : docs'[d] = [docs[d] EXCEPT !.live = @ /\ d \notin gone]
    BY <1>1
  <1>7. ASSUME NEW d \in DOMAIN docs
        PROVE  /\ docs'[d] = [kids |-> docs[d].kids, next |-> docs[d].next,
                              live |-> docs[d].live /\ d \notin gone]
               /\ DocOK(docs[d])
    <2>1. DocOK(docs[d])
      BY <1>2 DEF MemoryOK
    <2>2. docs[d] = [kids |-> docs[d].kids, next |-> docs[d].next, live |-> docs[d].live]
      BY <2>1 DEF DocOK
    <2> DEFINE x == docs[d]
    <2>3. docs'[d] = [x EXCEPT !.live = @ /\ d \notin gone]
      BY <1>6
    <2> HIDE DEF x
    <2>4. x = [kids |-> x.kids, next |-> x.next, live |-> x.live]
      BY <2>2 DEF x
    <2>5. docs'[d] = [kids |-> x.kids, next |-> x.next, live |-> x.live /\ d \notin gone]
      BY <2>3, <2>4
    <2> QED
      BY <2>1, <2>5 DEF x
  <1>8. \A d \in DOMAIN docs :
           /\ docs'[d].kids = docs[d].kids /\ docs'[d].next = docs[d].next
           /\ docs'[d].live = (docs[d].live /\ d \notin gone)
    <2> SUFFICES ASSUME NEW d \in DOMAIN docs
                 PROVE  /\ docs'[d].kids = docs[d].kids /\ docs'[d].next = docs[d].next
                        /\ docs'[d].live = (docs[d].live /\ d \notin gone)
      OBVIOUS
    <2> DEFINE x == docs'[d]
               live == docs[d].live /\ d \notin gone
    <2>1. x = [kids |-> docs[d].kids, next |-> docs[d].next, live |-> live]
      BY <1>7
    <2> HIDE DEF x, live
    <2>2. x.kids = docs[d].kids /\ x.next = docs[d].next /\ x.live = live
      BY ONLY <2>1
    <2> QED
      BY <2>2 DEF x, live
  <1>9. \A d \in DOMAIN docs : DocOK(docs'[d])
    <2> SUFFICES ASSUME NEW d \in DOMAIN docs PROVE DocOK(docs'[d])
      OBVIOUS
    <2>1. Proper(docs[d].kids)
      BY <1>7 DEF DocOK
    <2> DEFINE x == docs'[d]
    <2>2. /\ x = [kids |-> docs[d].kids, next |-> docs[d].next, live |-> docs[d].live /\ d \notin gone]
          /\ x.kids = docs[d].kids
          /\ x.live = (docs[d].live /\ d \notin gone)
      BY <1>7, <1>8
    <2> HIDE DEF x
    <2>3. x = [kids |-> x.kids, next |-> x.next, live |-> x.live] /\ x.live \in BOOLEAN
      BY <2>2
    <2>4. DocOK(x)
      BY <2>1, <2>2, <2>3 DEF DocOK
    <2> QED
      BY <2>4 DEF x
  <1>10. MemoryOK(mem)'
    <2> DEFINE now == [docs |-> docs', persistRVT |-> persistRVT', shadow |-> shadow']
    <2>1. (Mvar!Memory)' = now
      BY DEF Mvar!Memory
    <2>2. now.docs = docs' /\ now.shadow = shadow' /\ now.persistRVT = persistRVT'
          /\ now = [docs |-> now.docs, persistRVT |-> now.persistRVT, shadow |-> now.shadow]
      OBVIOUS
    <2> HIDE DEF now
    <2>3. docs'[0] = [kids |-> Input, next |-> 0, live |-> TRUE] /\ \E top \in Nat : DOMAIN docs' = 0 .. top
      <3>1. docs[0] = [kids |-> Input, next |-> 0, live |-> TRUE] /\ 0 \in DOMAIN docs
            /\ \E top \in Nat : DOMAIN docs = 0 .. top
        BY <1>2 DEF MemoryOK
      <3>2. docs'[0] = [kids |-> docs[0].kids, next |-> docs[0].next, live |-> docs[0].live /\ 0 \notin gone]
        BY <1>7, <3>1
      <3>3. docs[0].kids = Input /\ docs[0].next = 0 /\ docs[0].live = TRUE
        BY <3>1
      <3> QED
        BY <1>4, <1>6, <3>1, <3>2, <3>3
    <2>4. Made(now) = Made(mem)
      BY <1>2, <1>6, <2>2 DEF Made
    <2>5. mem.shadow \in [Mvars -> Seq(Made(mem))]
          /\ \A m, n \in Mvars : m # n => ToSet(mem.shadow[m]) \cap ToSet(mem.shadow[n]) = {}
      BY <1>2 DEF MemoryOK
    <2>6. /\ \A n \in Mvars : shadow'[n] = IF n \in Globals THEN shadow[n] ELSE <<>>
          /\ ToSet(<<>>) = {}
      BY <1>1 DEF ToSet
    <2>7. shadow' \in [Mvars -> Seq(Made(now))]
      <3>1. <<>> \in Seq(Made(now))
        OBVIOUS
      <3>2. \A n \in Mvars : shadow[n] \in Seq(Made(now))
        BY <1>2, <2>4, <2>5
      <3>3. \A n \in Mvars : shadow'[n] \in Seq(Made(now))
        BY ONLY <2>6, <3>1, <3>2
      <3>4. shadow' = [n \in Mvars |-> shadow'[n]]
        BY <1>1
      <3> QED
        BY ONLY <3>3, <3>4
    <2>8. \A m, n \in Mvars : m # n => ToSet(shadow'[m]) \cap ToSet(shadow'[n]) = {}
      BY <1>2, <2>5, <2>6
    <2>9. MemoryOK(now)
      BY <1>6, <1>9, <2>2, <2>3, <2>7, <2>8 DEF MemoryOK
    <2> QED
      BY <2>1, <2>9
  <1>11. OwnedBy(Mvar!Memory', fragment', P) /\ P \in SUBSET Made(Mvar!Memory')
    <2> DEFINE now == Mvar!Memory'
    <2>1. now.docs = docs' /\ now.shadow = shadow' /\ now.persistRVT = persistRVT
      BY <1>1 DEF Mvar!Memory
    <2>2. Made(now) = Made(mem)
      BY <1>2, <1>6, <2>1 DEF Made
    <2> HIDE DEF now
    <2>3. P \subseteq DOMAIN docs
      BY <1>2 DEF Made
    <2>4. persistRVT \in P \cup {0}
      BY <1>2, <1>3 DEF OwnedBy
    <2>5. \A d \in P : docs'[d].live /\ docs'[d].next \in P \cup {0}
      BY <1>2, <1>3, <1>4, <1>8, <2>3 DEF OwnedBy
    <2>6. ASSUME NEW n \in Mvars PROVE ~(n \in Locals /\ fragment'[n] # 0) /\ ToSet(shadow'[n]) \subseteq P
      <3>1. CASE n \in Globals
        <4>1. n \notin Locals /\ shadow'[n] = shadow[n]
          BY <1>1, <1>5, <3>1
        <4> QED
          BY <1>2, <1>3, <4>1 DEF OwnedBy
      <3>2. CASE n \notin Globals
        <4>1. shadow'[n] = <<>> /\ (n \in Locals => fragment'[n] = 0)
          BY <1>1, <3>2
        <4> QED
          BY <4>1 DEF ToSet
      <3> QED
        BY <3>1, <3>2
    <2>7. OwnedBy(now, fragment', P)
      BY <2>1, <2>2, <2>4, <2>5, <2>6 DEF OwnedBy
    <2> QED
      BY <2>2, <2>7 DEF now
  <1>12. ASSUME NEW n \in Globals
         PROVE  /\ values'[n] = values[n] /\ shadow'[n] = shadow[n]
                /\ ValueOK(values[n]) /\ RefersToOwn(shadow[n], values[n])
                /\ RefersWell(docs', values[n].nodes)
                /\ ContentOf(docs', values[n].nodes) = ContentOf(docs, values[n].nodes)
    <2>1. n \in Mvars /\ n \in Variables /\ n \notin Locals
      BY <1>5
    <2>2. /\ ValueOK(values[n]) /\ RefersToOwn(shadow[n], values[n])
          /\ RefersWell(docs, values[n].nodes) /\ shadow[n] \in Seq(Made(mem))
      BY <1>1, <2>1, HoldingOf
    <2>3. ToSet(shadow[n]) \subseteq P
      BY <1>2, <1>3, <2>1 DEF OwnedBy
    <2>4. ASSUME NEW i \in 1 .. Len(values[n].nodes) PROVE docs'[values[n].nodes[i][1]].live
      <3>1. values[n].nodes[i][1] \in P
        BY <2>2, <2>3, LastIn DEF RefersToOwn
      <3> QED
        BY <1>2, <1>4, <1>8, <3>1 DEF Made
    <2>5. /\ RefersWell(docs', values[n].nodes)
          /\ ContentOf(docs', values[n].nodes) = ContentOf(docs, values[n].nodes)
      <3>1. DOMAIN docs' = DOMAIN docs /\ \A d \in DOMAIN docs : docs'[d].kids = docs[d].kids
        BY <1>6, <1>8
      <3>2. RefersWell(docs, values[n].nodes)
        BY <2>2
      <3> DEFINE ds == docs'
                 nodes == values[n].nodes
      <3>3. /\ DOMAIN ds = DOMAIN docs /\ \A d \in DOMAIN docs : ds[d].kids = docs[d].kids
            /\ RefersWell(docs, nodes) /\ \A i \in 1 .. Len(nodes) : ds[nodes[i][1]].live
        BY <2>4, <3>1, <3>2
      <3> HIDE DEF ds, nodes
      <3>4. RefersWell(ds, nodes) /\ ContentOf(ds, nodes) = ContentOf(docs, nodes)
        BY ONLY <3>3, SameKids
      <3> QED
        BY <3>4 DEF ds, nodes
    <2> QED
      BY <1>1, <2>1, <2>2, <2>5
  <1>13. \A n \in Variables : n \notin Globals => values'[n] = Mvar!Nothing
    BY <1>1
  <1>14. ValueOK(Mvar!Nothing) /\ RefersWell(docs', Mvar!Nothing.nodes) /\ RefersToOwn(<<>>, Mvar!Nothing)
    <2>1. Mvar!Nothing.nodes = <<>> /\ Len(<<>>) = 0
      BY ValueFields
    <2> DEFINE all == (DOMAIN docs') \X Nat
    <2>2. <<>> \in Seq(all)
      OBVIOUS
    <2>3. RefersWell(docs', <<>>)
      BY ONLY <2>2 DEF RefersWell
    <2>4. RefersToOwn(<<>>, Mvar!Nothing)
      BY <2>1 DEF RefersToOwn
    <2> QED
      BY <2>1, <2>3, <2>4 DEF ValueOK
  <1>15. ValuesInv(docs', shadow', values', seen')
    <2>1. \A n \in Variables : ValueOK(values'[n]) /\ RefersWell(docs', values'[n].nodes)
      BY <1>12, <1>13, <1>14
    <2>2. \A n \in Mvars : RefersToOwn(shadow'[n], values'[n])
      <3> SUFFICES ASSUME NEW n \in Mvars PROVE RefersToOwn(shadow'[n], values'[n])
        OBVIOUS
      <3>1. CASE n \in Globals
        BY <1>12, <3>1
      <3>2. CASE n \notin Globals
        <4>1. shadow'[n] = <<>> /\ values'[n] = Mvar!Nothing
          BY <1>1, <1>5, <1>13, <3>2
        <4> QED
          BY <1>14, <4>1
      <3> QED
        BY <3>1, <3>2
    <2>3. \A n \in Others : values'[n] = Mvar!Nothing
      BY <1>5, <1>13
    <2> QED
      BY <2>1, <2>2, <2>3 DEF ValuesInv
  <1>16. MvarInv'
    <2>1. MemoryInv(Mvar!Memory', fragment')
      <3>1. fragment' \in [Locals -> Nat]
        BY <1>1
      <3> QED
        BY <1>10, <1>11, <3>1 DEF MemoryInv
    <2>2. values' = [n \in Variables |-> values'[n]] /\ seen' = [n \in Others |-> seen'[n]]
      BY <1>1
    <2> QED
      BY <1>1, <1>15, <2>1, <2>2 DEF MvarInv
  <1>17. Mvar!Holding' = [n \in Mvars |-> IF n \in Locals THEN Mvar!Promise!Nothing
                                          ELSE Mvar!Holding[n]]
    <2>1. phase' # "done"
      BY <1>1
    <2>2. Mvar!Holding' = [m \in Mvars |-> Mvar!Held(m)']
      BY MvarConstants DEF Mvar!Holding
    <2>3. ASSUME NEW n \in Mvars
          PROVE  Mvar!Held(n)' = IF n \in Locals THEN Mvar!Promise!Nothing ELSE Mvar!Holding[n]
      <3>1. n \in Variables
        BY <1>5
      <3>2. ValueOK(values'[n]) /\ RefersWell(docs', values'[n].nodes)
        BY <1>15, <3>1 DEF ValuesInv
      <3>3. Mvar!Held(n)' = AsHeld(docs', values'[n])
        <4> DEFINE v == values'[n]
        <4>1. /\ v.kind \in {"nodes", "tree"} =>
                    Mvar!Held(n)' = [kind |-> "nodes", str |-> "", nodes |-> Mvar!Content(docs', v)]
              /\ v.kind \notin {"nodes", "tree"} =>
                    Mvar!Held(n)' = [kind |-> v.kind, str |-> v.str, nodes |-> <<>>]
          BY DEF Mvar!Held, Mvar!HeldBy
        <4> HIDE DEF v
        <4>2. ValueOK(v) /\ RefersWell(docs', v.nodes)
          BY <3>2 DEF v
        <4> QED
          BY <4>1, <4>2, HeldOf DEF v
      <3>4. CASE n \in Locals
        <4>1. values'[n] = Mvar!Nothing
          BY <1>5, <1>13, <3>1, <3>4
        <4> QED
          BY <1>14, <3>3, <3>4, <4>1, HeldKinds
      <3>5. CASE n \notin Locals
        <4>1. n \in Globals
          BY <3>5 DEF Mvars
        <4>2. AsHeld(docs', values[n]) = AsHeld(docs, values[n]) /\ values'[n] = values[n]
          BY <1>12, <4>1 DEF AsHeld
        <4>3. Mvar!Holding[n] = AsHeld(docs, values[n])
          BY <1>1, HoldingOf
        <4> QED
          BY <3>3, <3>5, <4>2, <4>3
      <3> QED
        BY <3>4, <3>5
    <2> QED
      BY <2>2, <2>3
  <1>18. Mvar!Promise!Leave
    BY <1>17, MvarConstants DEF Mvar!Promise!Leave
  <1> QED
    BY <1>16, <1>18

\* The run ends.
LEMMA FinishKeeps ==
    ASSUME MvarInv, Mvar!Finish
    PROVE  MvarInv' /\ Mvar!Promise!Finish
  <1>1. /\ phase' = "done" /\ seen' = seen /\ phase = "global"
        /\ values' = [n \in Variables |-> Mvar!Nothing]
    BY MvarConstants DEF Mvar!Finish
  <1>2. \A n \in Variables : values'[n] = Mvar!Nothing
    BY <1>1
  <1>3. MvarInv'
    <2>1. values' = [n \in Variables |-> values'[n]] /\ seen' = [n \in Others |-> seen'[n]]
      BY <1>1 DEF MvarInv
    <2> QED
      BY <1>1, <1>2, <2>1 DEF MvarInv
  <1>4. Mvar!Holding' = [n \in Mvars |-> Mvar!Promise!Nothing]
    <2>1. Mvar!Holding' = [m \in Mvars |-> Mvar!Held(m)']
      BY MvarConstants DEF Mvar!Holding
    <2>2. ASSUME NEW n \in Mvars PROVE Mvar!Held(n)' = Mvar!Promise!Nothing
      <3>1. values'[n] = Mvar!Nothing
        BY <1>2 DEF Variables
      <3>2. values'[n].kind = "none" /\ values'[n].str = ""
        BY <3>1, ValueFields
      <3> QED
        BY <3>2 DEF Mvar!Held, Mvar!HeldBy, Mvar!Promise!Nothing
    <2> QED
      BY <2>1, <2>2
  <1>5. Mvar!Promise!Finish
    BY <1>4, MvarConstants DEF Mvar!Promise!Finish
  <1> QED
    BY <1>3, <1>5

LEMMA EnterKeeps ==
    ASSUME MvarInv, Mvar!EnterTemplate
    PROVE  MvarInv' /\ UNCHANGED Mvar!Holding
  <1>1. /\ phase = "global" /\ phase' = "template"
        /\ docs' = docs /\ persistRVT' = persistRVT /\ values' = values /\ shadow' = shadow
        /\ fragment' = fragment /\ seen' = seen
    BY DEF Mvar!EnterTemplate
  <1>2. MemoryInv(Mvar!Memory, fragment) /\ ValuesInv(docs, shadow, values, seen)
    BY <1>1 DEF MvarInv
  <1>3. Mvar!Memory' = Mvar!Memory
    BY <1>1 DEF Mvar!Memory
  <1>4. MemoryInv(Mvar!Memory', fragment') /\ ValuesInv(docs', shadow', values', seen')
    BY <1>1, <1>2, <1>3
  <1>5. MvarInv'
    BY <1>1, <1>4 DEF MvarInv
  <1>6. UNCHANGED Mvar!Holding
    BY <1>1 DEF Mvar!Holding, Mvar!Held, Mvar!HeldBy, Mvar!Content, Mvar!AllKids, Mvar!Kids
  <1> QED
    BY <1>5, <1>6

LEMMA MvarStep ==
    ASSUME MvarInv, Imported \cap Others = {}, Mvar!Next
    PROVE  MvarInv' /\ (Mvar!Promise!Next \/ UNCHANGED Mvar!Holding)
  <1>1. CASE \E n \in Mvar!Mvars : \E value \in Mvar!Initial : Mvar!slaxMvarCreateSvar(n, value)
    <2>1. PICK n \in Mvars, value \in Mvar!Initial : Mvar!slaxMvarCreateSvar(n, value)
      BY <1>1, MvarConstants
    <2>2. phase # "done"
      BY <2>1 DEF Mvar!slaxMvarCreateSvar
    <2>3. AsHeld(docs, value) \in Mvar!Promise!Values
      BY <2>2, InitialGiveable DEF Giveable
    <2> QED
      BY <2>1, <2>2, <2>3, CreateKeeps, PromiseNext
  <1>2. CASE \E n \in Others : \E value \in Mvar!Expressions : Mvar!DeclareOther(n, value)
    BY <1>2, DeclareOtherKeeps
  <1>3. CASE \E n \in Mvar!Names : \E value \in Mvar!Expressions :
                Mvar!slaxMvarElement(n, value, FALSE) \/ Mvar!slaxMvarElement(n, value, TRUE)
    BY <1>3, ElementKeeps
  <1>4. CASE Mvar!EnterTemplate
    BY <1>4, EnterKeeps
  <1>5. CASE Mvar!LeaveTemplate
    BY <1>5, LeaveKeeps DEF Mvar!Promise!Next
  <1>6. CASE Mvar!Finish
    BY <1>6, FinishKeeps DEF Mvar!Promise!Next
  <1> QED
    BY <1>1, <1>2, <1>3, <1>4, <1>5, <1>6 DEF Mvar!Next

LEMMA MvarUnchanged ==
    ASSUME MvarInv, UNCHANGED mvarVars
    PROVE  MvarInv' /\ UNCHANGED Mvar!Holding
  <1>1. /\ docs' = docs /\ persistRVT' = persistRVT /\ values' = values /\ shadow' = shadow
        /\ fragment' = fragment /\ seen' = seen /\ phase' = phase
    BY DEF mvarVars
  <1>2. Mvar!Memory' = Mvar!Memory
    BY <1>1 DEF Mvar!Memory
  <1>3. MvarInv'
    <2>1. MemoryInv(Mvar!Memory', fragment') = MemoryInv(Mvar!Memory, fragment)
      BY <1>1, <1>2
    <2>2. ValuesInv(docs', shadow', values', seen') = ValuesInv(docs, shadow, values, seen)
      BY <1>1
    <2> QED
      BY <1>1, <2>1, <2>2 DEF MvarInv
  <1>4. UNCHANGED Mvar!Holding
    BY <1>1 DEF Mvar!Holding, Mvar!Held, Mvar!HeldBy, Mvar!Content, Mvar!AllKids, Mvar!Kids
  <1> QED
    BY <1>3, <1>4

LEMMA MvarInitially == Mvar!Init => MvarInv /\ Mvar!Promise!Init
  <1> SUFFICES ASSUME Mvar!Init PROVE MvarInv /\ Mvar!Promise!Init
    OBVIOUS
  <1> DEFINE mem == Mvar!Memory
  <1>1. /\ docs = [d \in {0} |-> [kids |-> Input, next |-> 0, live |-> TRUE]]
        /\ persistRVT = 0 /\ values = [n \in Variables |-> Mvar!Nothing]
        /\ shadow = [n \in Mvars |-> <<>>] /\ fragment = [n \in Locals |-> 0]
        /\ seen = [n \in Others |-> <<>>] /\ phase = "global"
    BY MvarConstants DEF Mvar!Init
  <1>2. /\ mem.docs = docs /\ mem.persistRVT = persistRVT /\ mem.shadow = shadow
        /\ mem = [docs |-> mem.docs, persistRVT |-> mem.persistRVT, shadow |-> mem.shadow]
    BY DEF Mvar!Memory
  <1> HIDE DEF mem
  <1>3. DOMAIN docs = {0} /\ docs[0] = [kids |-> Input, next |-> 0, live |-> TRUE]
        /\ docs = [d \in DOMAIN docs |-> docs[d]]
    BY <1>1
  <1>4. DocOK(docs[0])
    <2> DEFINE x == docs[0]
    <2>1. x = [kids |-> Input, next |-> 0, live |-> TRUE]
      BY <1>3
    <2>2. Proper(Input)
      BY MvarConstants
    <2> HIDE DEF x
    <2>3. x.kids = Input /\ x.live = TRUE /\ x = [kids |-> x.kids, next |-> x.next, live |-> x.live]
      BY <2>1
    <2>4. DocOK(x)
      BY <2>2, <2>3 DEF DocOK
    <2> QED
      BY <2>4 DEF x
  <1>5. Made(mem) = {}
    BY <1>2, <1>3 DEF Made
  <1>6. /\ mem.shadow \in [Mvars -> Seq(Made(mem))] /\ \A n \in Mvars : mem.shadow[n] = <<>>
        /\ ToSet(<<>>) = {}
    BY <1>1, <1>2 DEF ToSet
  <1>7. MemoryOK(mem)
    <2>1. DOMAIN docs = 0 .. 0 /\ 0 \in Nat
      BY <1>3
    <2>2. \E top \in Nat : DOMAIN docs = 0 .. top
      BY <2>1
    <2>3. \A m, n \in Mvars : m # n => ToSet(mem.shadow[m]) \cap ToSet(mem.shadow[n]) = {}
      BY <1>6
    <2> QED
      BY <1>2, <1>3, <1>4, <1>6, <2>2, <2>3 DEF MemoryOK
  <1>8. OwnedBy(mem, fragment, {})
    BY <1>1, <1>2, <1>6 DEF OwnedBy
  <1>9. MemoryInv(mem, fragment)
    BY <1>1, <1>7, <1>8 DEF MemoryInv
  <1>10. ValuesInv(docs, shadow, values, seen)
    <2>1. ValueOK(Mvar!Nothing) /\ RefersToOwn(<<>>, Mvar!Nothing) /\ Mvar!Nothing.nodes = <<>>
      <3>1. Mvar!Nothing.nodes = <<>> /\ Len(<<>>) = 0
        BY ValueFields
      <3>2. RefersToOwn(<<>>, Mvar!Nothing)
        BY <3>1 DEF RefersToOwn
      <3> QED
        BY <3>1, <3>2 DEF ValueOK
    <2>2. RefersWell(docs, <<>>)
      <3> DEFINE all == (DOMAIN docs) \X Nat
      <3>1. <<>> \in Seq(all) /\ Len(<<>>) = 0
        OBVIOUS
      <3> QED
        BY ONLY <3>1 DEF RefersWell
    <2>3. \A n \in Variables : values[n] = Mvar!Nothing
      BY <1>1
    <2>4. Mvars \subseteq Variables /\ Others \subseteq Variables
      BY DEF Variables
    <2> QED
      BY <1>1, <2>1, <2>2, <2>3, <2>4 DEF ValuesInv
  <1>11. MvarInv
    <2>1. values = [n \in Variables |-> values[n]] /\ seen = [n \in Others |-> seen[n]]
      BY <1>1
    <2> QED
      BY <1>1, <1>9, <1>10, <2>1 DEF MvarInv, mem
  <1>12. Mvar!Holding = [n \in Mvars |-> Mvar!Promise!Nothing]
    <2>1. \A n \in Mvars : Mvar!Held(n) = Mvar!Promise!Nothing
      <3> SUFFICES ASSUME NEW n \in Mvars PROVE Mvar!Held(n) = Mvar!Promise!Nothing
        OBVIOUS
      <3>1. values[n] = Mvar!Nothing
        BY <1>1 DEF Variables
      <3>2. values[n].kind = "none" /\ values[n].str = ""
        BY <3>1, ValueFields
      <3> QED
        BY <3>2 DEF Mvar!Held, Mvar!HeldBy, Mvar!Promise!Nothing
    <2> QED
      BY <2>1, MvarConstants DEF Mvar!Holding
  <1> QED
    BY <1>11, <1>12, MvarConstants DEF Mvar!Promise!Init

LEMMA MvarInvSound == MvarInv => Mvar!DocumentsSound
  <1> SUFFICES ASSUME MvarInv PROVE Mvar!DocumentsSound
    OBVIOUS
  <1>0. Mvar!Names = Variables
    BY MvarConstants
  <1>1. CASE phase = "done"
    <2>1. \A n \in Variables : values[n] = Mvar!Nothing /\ Len(values[n].nodes) = 0
      <3>1. \A n \in Variables : values[n] = Mvar!Nothing
        BY <1>1 DEF MvarInv
      <3>2. Mvar!Nothing.nodes = <<>> /\ Len(<<>>) = 0
        BY ValueFields
      <3> QED
        BY <3>1, <3>2
    <2>2. Mvar!NoDangling
      BY <1>0, <2>1 DEF Mvar!NoDangling
    <2>3. Mvar!OthersKept
      BY <2>1 DEF Mvar!OthersKept, Mvar!InScope, Variables
    <2> QED
      BY <1>1, <2>2, <2>3 DEF Mvar!DocumentsSound, Mvar!FreedOnce
  <1>2. CASE phase # "done"
    <2>1. Mvar!NoDangling
      BY <1>0, <1>2, InvParts DEF Mvar!NoDangling, RefersWell
    <2>2. Mvar!FreedOnce
      <3>1. PICK P \in SUBSET Made(Mvar!Memory) : OwnedBy(Mvar!Memory, fragment, P)
        BY <1>2, InvParts DEF MemoryInv
      <3>2. /\ Mvar!Chain(persistRVT) \subseteq P
            /\ \A d \in P : docs[d].live
            /\ \A n \in Locals :
                  /\ Mvar!Chain(fragment[n]) \subseteq ToSet(shadow[n])
                  /\ Mvar!Chain(fragment[n]) \cap P = {}
                  /\ \A d \in Mvar!Chain(fragment[n]) : docs[d].live
        BY <1>2, <3>1, ListsAre
      <3>3. \A m, n \in Locals : m # n => ToSet(shadow[m]) \cap ToSet(shadow[n]) = {}
        BY <1>2, InvParts DEF Mvars
      <3> DEFINE lists == {Mvar!Chain(persistRVT)} \cup {Mvar!Chain(fragment[n]) : n \in Locals}
      <3>4. ASSUME NEW a \in lists, NEW b \in lists PROVE a = b \/ a \cap b = {}
        <4>1. CASE a = Mvar!Chain(persistRVT) \/ b = Mvar!Chain(persistRVT)
          BY <3>2, <4>1
        <4>2. CASE /\ a # Mvar!Chain(persistRVT) /\ b # Mvar!Chain(persistRVT)
          <5>1. PICK m \in Locals, n \in Locals :
                   a = Mvar!Chain(fragment[m]) /\ b = Mvar!Chain(fragment[n])
            BY <4>2
          <5> QED
            BY <3>2, <3>3, <5>1
        <4> QED
          BY <4>1, <4>2
      <3>5. \A a \in lists : \A d \in a : docs[d].live
        BY <3>2
      <3> QED
        BY <3>4, <3>5 DEF Mvar!FreedOnce
    <2>3. Mvar!OthersKept
      <3> SUFFICES ASSUME NEW n \in Others, Mvar!InScope(n)
                   PROVE  LET now == Mvar!Content(docs, values[n])
                          IN IF Mvar!FragmentAt(values[n].nodes) = 0 THEN now = seen[n]
                             ELSE Mvar!IsPrefix(seen[n], now)
        BY DEF Mvar!OthersKept
      <3> DEFINE v == values[n]
                 now == ContentOf(docs, v.nodes)
      <3>1. SeenStill(docs, v, seen[n]) /\ RefersWell(docs, v.nodes)
        BY <1>2, InvParts DEF Mvar!InScope, Variables
      <3>2. v.kind = "nodes"
        <4>1. v = Mvar!NodeSet(v.nodes) /\ Mvar!NodeSet(v.nodes).kind = "nodes"
          BY <3>1, ValueFields DEF SeenStill
        <4> QED
          BY <4>1
      <3>3. Mvar!Content(docs, v) = now /\ Mvar!FragmentAt(v.nodes) = IF Whole(v.nodes) THEN 1 ELSE 0
        BY <3>1, <3>2, ContentIs DEF Mvar!Content
      <3>4. CASE ~Whole(v.nodes)
        BY <3>1, <3>3, <3>4 DEF SeenStill
      <3>5. CASE Whole(v.nodes)
        <4>1. Extends(seen[n], now)
          BY <3>1 DEF SeenStill
        <4> HIDE DEF now
        <4>2. Mvar!IsPrefix(seen[n], now)
          <5>1. /\ Proper(seen[n]) /\ Proper(now) /\ Len(seen[n]) <= Len(now)
                /\ \A i \in 1 .. Len(seen[n]) : now[i] = seen[n][i]
            BY <4>1 DEF Extends
          <5>2. Len(seen[n]) \in 0 .. Len(now)
            BY <5>1, ProperParts
          <5>3. SubSeq(now, 1, Len(seen[n])) = [i \in 1 .. Len(seen[n]) |-> now[i]]
            BY <5>1, <5>2, FirstOf
          <5>4. seen[n] = [i \in 1 .. Len(seen[n]) |-> seen[n][i]]
            BY <5>1, ProperParts
          <5>5. seen[n] = SubSeq(now, 1, Len(seen[n]))
            BY <5>1, <5>3, <5>4
          <5> QED
            BY <5>1, <5>5 DEF Mvar!IsPrefix
        <4> QED
          BY <3>3, <3>5, <4>2 DEF now
      <3> QED
        BY <3>4, <3>5
    <2> QED
      BY <2>1, <2>2, <2>3 DEF Mvar!DocumentsSound
  <1> QED
    BY <1>1, <1>2

\* What is true of variables in every state of a run in which they are set.
LEMMA RunningStep ==
    ASSUME what = "mvar" => MvarInv, Imported \cap Others = {}, [RunningNext]_runningVars
    PROVE  /\ (what = "mvar" => MvarInv)'
           /\ what = "mvar" => Mvar!Promise!Next \/ UNCHANGED Mvar!Holding
           /\ what # "mvar" => UNCHANGED Mvar!Holding
  <1>1. CASE what = "mvar"
    <2>1. what' = what /\ (Mvar!Next \/ UNCHANGED mvarVars)
      BY <1>1 DEF RunningNext, runningVars
    <2>2. MvarInv' /\ (Mvar!Promise!Next \/ UNCHANGED Mvar!Holding)
      BY <1>1, <2>1, MvarStep, MvarUnchanged
    <2> QED
      BY <1>1, <2>1, <2>2
  <1>2. CASE what # "mvar"
    <2>1. what' = what /\ UNCHANGED mvarVars
      BY <1>2 DEF RunningNext, runningVars
    <2>2. UNCHANGED Mvar!Holding
      BY <2>1 DEF mvarVars, Mvar!Holding, Mvar!Held, Mvar!HeldBy, Mvar!Content, Mvar!AllKids, Mvar!Kids
    <2> QED
      BY <1>2, <2>1, <2>2
  <1> QED
    BY <1>1, <1>2

\* No value refers to a document that was freed, no document is freed twice and what
\* an immutable variable was given stays what it was, for any number of documents,
\* variables and statements (slaxMvarSet, slaxMvarAppend, slaxMvarNewContainer, and the
\* lists that libxslt frees).  That a file's immutable variables are its own is what
\* slaxMvarCompile relies on.
THEOREM DocumentsAlwaysSound ==
    ASSUME Imported \cap Others = {} PROVE RunningSpec => []DocumentsSound
  <1>1. RunningInit => (what = "mvar" => MvarInv)
    BY MvarInitially DEF RunningInit
  <1>2. (what = "mvar" => MvarInv) /\ [RunningNext]_runningVars => (what = "mvar" => MvarInv)'
    BY RunningStep
  <1>3. (what = "mvar" => MvarInv) => DocumentsSound
    BY MvarInvSound DEF DocumentsSound
  <1> QED
    BY <1>1, <1>2, <1>3, PTL DEF RunningSpec

\* What one statement does to the variable it names.
LEMMA EffectHolds ==
    ASSUME MvarInv, NEW n \in Mvars, NEW value \in Mvar!Initial
    PROVE  Mvar!Effect(n, value)
  <1>1. ASSUME phase # "done" PROVE Giveable(value) /\ Mvar!HeldBy(value) = AsHeld(docs, value)
    BY <1>1, InitialGiveable, GivenHeld
  <1>2. ASSUME Mvar!slaxMvarCreateSvar(n, value)
        PROVE  Mvar!Promise!Declare(n, Mvar!HeldBy(value))
    <2>1. phase # "done"
      BY <1>2 DEF Mvar!slaxMvarCreateSvar
    <2>2. Mvar!Promise!Declare(n, AsHeld(docs, value))
      BY <1>2, <2>1, CreateKeeps
    <2> QED
      BY <1>1, <2>1, <2>2
  <1>3. ASSUME Mvar!slaxMvarElement(n, value, FALSE)
        PROVE  Mvar!Promise!SetTo(n, Mvar!HeldBy(value))
    <2>1. phase # "done"
      BY <1>3 DEF Mvar!slaxMvarElement
    <2>2. Mvar!Promise!SetTo(n, AsHeld(docs, value))
      BY <1>1, <1>3, <2>1, SetElementKeeps
    <2> QED
      BY <1>1, <2>1, <2>2
  <1>4. ASSUME Mvar!slaxMvarElement(n, value, TRUE)
        PROVE  IF phase' = "looping" THEN UNCHANGED Mvar!Holding
               ELSE Mvar!Promise!AppendTo(n, Mvar!HeldBy(value))
    <2>1. phase # "done"
      BY <1>4 DEF Mvar!slaxMvarElement
    <2>2. IF phase' = "looping" THEN UNCHANGED Mvar!Holding
          ELSE Mvar!Promise!AppendTo(n, AsHeld(docs, value))
      BY <1>1, <1>4, <2>1, AppendElementKeeps
    <2> QED
      BY <1>1, <2>1, <2>2
  <1> QED
    BY <1>2, <1>3, <1>4 DEF Mvar!Effect

LEMMA EffectsHold ==
    MvarInv => Mvar!Effects
  <1> SUFFICES ASSUME MvarInv PROVE Mvar!Effects
    OBVIOUS
  <1>1. \A n \in {m \in Mvar!Mvars : \A o \in Mvar!Names \ {m} : values'[o] = values[o]} :
           \A value \in Mvar!Initial : Mvar!Effect(n, value)
    BY EffectHolds, MvarConstants
  <1>2. Mvar!LeaveTemplate => Mvar!Promise!Leave
    BY LeaveKeeps
  <1>3. Mvar!Finish => Mvar!Promise!Finish
    BY FinishKeeps
  <1> QED
    BY <1>1, <1>2, <1>3 DEF Mvar!Effects

\* Mutable variables over libxslt's documents are values that are declared, set and
\* appended to, and each statement does what it says: a declaration and a set give the
\* variable they name what the value given holds, an append adds it as the comment on
\* slaxMvarAppend lists, and no other variable changes, whatever was assigned from one
\* to the other before; only an append of a variable's last container to itself, which
\* does not end, does nothing; the end of a template takes the values of its variables
\* only (slaxMvarSet, slaxMvarAppend).
THEOREM StatementsAlwaysTakeEffect ==
    ASSUME Imported \cap Others = {} PROVE RunningSpec => Mvar!Promise!Spec /\ StatementsTakeEffect
  <1> DEFINE Inv == what = "mvar" => MvarInv
  <1>1. RunningInit => Inv /\ Mvar!Promise!Init
    BY MvarInitially DEF RunningInit
  <1>2. Inv /\ [RunningNext]_runningVars => Inv' /\ [Mvar!Promise!Next]_(Mvar!Holding)
    BY RunningStep
  <1>3. Inv /\ [RunningNext]_runningVars => [what = "mvar" => Mvar!Effects]_mvarVars
    BY EffectsHold
  <1> HIDE DEF Inv
  <1> QED
    BY <1>1, <1>2, <1>3, PTL DEF RunningSpec, Mvar!Promise!Spec, StatementsTakeEffect
=============================================================================
