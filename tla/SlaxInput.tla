----------------------------- MODULE SlaxInput -----------------------------
(***************************************************************************)
(* The input buffer of the SLAX lexer (libslax/slaxlexer.c).  Its state is *)
(* a record sd of the fields of slax_data_t that describe the buffer:      *)
(* sd_buf is memory, indexed from 0, in which the bytes from sd_len on are *)
(* what earlier reads left there.  Two fields are not in the code: file is *)
(* what has not been read yet, and base the offset in the file of the byte *)
(* at sd_buf[0].                                                           *)
(***************************************************************************)
LOCAL INSTANCE Integers
LOCAL INSTANCE Sequences

CONSTANTS
    SD_BUF_FUDGE,   \* room wanted after sd_len before a read
    SD_BUF_INCR     \* what realloc adds to the buffer

LOCAL Smaller(a, b) == IF a < b THEN a ELSE b

\* The byte that ends a string, and one that nothing has written yet.
NUL == "NUL"
Unwritten == "unwritten"

\* One character stands for the three bytes of a byte order mark.
BOM == "bom"

isspace(ch) == ch \in {" ", "\n"}

\* Does the given character end a token?
slaxIsFinalChar(ch) == ch = ";" \/ isspace(ch)

\* A parser's buffer before its first read.
NewData(text) ==
    [sd_buf |-> << >>, sd_start |-> 0, sd_cur |-> 0, sd_len |-> 0,
     sd_size |-> 0, SDF_EOF |-> FALSE, sd_line |-> 1,
     sd_file |-> TRUE, file |-> text, base |-> 0]

\* A parser's buffer around a string that is already complete.
StringData(text) ==
    [NewData(<< >>) EXCEPT
        !.sd_buf = [i \in 0 .. Len(text) |->
                        IF i < Len(text) THEN text[i + 1] ELSE NUL],
        !.sd_len = Len(text), !.sd_size = Len(text) + 1, !.sd_file = FALSE]

At(sd, i) == IF i \in DOMAIN sd.sd_buf THEN sd.sd_buf[i] ELSE Unwritten

\* Wrong: the current point stays where it was.
ShiftedUnder(sd) ==
    LET n == sd.sd_len - sd.sd_start
    IN [sd EXCEPT
          !.sd_buf = [i \in DOMAIN @ |-> IF i < n THEN @[i + sd.sd_start] ELSE @[i]],
          !.sd_len = n, !.sd_start = 0, !.base = @ + sd.sd_start]

\* Shift the data forward to give us some room at the end.
Shifted(sd) ==
    LET n == sd.sd_len - sd.sd_start
    IN [sd EXCEPT
          !.sd_buf = [i \in DOMAIN @ |-> IF i < n THEN @[i + sd.sd_start] ELSE @[i]],
          !.sd_len = n,
          !.sd_cur = @ - sd.sd_start,
          !.sd_start = 0,
          !.base = @ + sd.sd_start]

\* We need more room, so realloc() some; running out of memory is left out.
Grown(sd) ==
    LET size == sd.sd_size + SD_BUF_INCR
    IN [sd EXCEPT
          !.sd_size = size,
          !.sd_buf = [i \in 0 .. size - 1 |->
                        IF i < sd.sd_size THEN sd.sd_buf[i] ELSE Unwritten]]

Roomy(sd) ==
    IF sd.sd_len + SD_BUF_FUDGE <= sd.sd_size THEN sd
    ELSE IF sd.sd_start > SD_BUF_FUDGE THEN Shifted(sd) ELSE Grown(sd)

\* What fgets takes from the file: a line, or as much of it as there is room
\* for beside the NUL.
fgetsCount(sd) ==
    LET room == sd.sd_size - sd.sd_len - 1
        most == Smaller(room, Len(sd.file))
        ends == {i \in 1 .. most : i = most \/ sd.file[i] = "\n"}
    IN IF ends = {} THEN 0 ELSE CHOOSE i \in ends : \A j \in ends : i <= j

Read(sd) ==
    LET n == fgetsCount(sd)
    IN [sd EXCEPT
          !.sd_buf = [i \in DOMAIN @ |->
                        IF i < sd.sd_len \/ i > sd.sd_len + n THEN @[i]
                        ELSE IF i = sd.sd_len + n THEN NUL
                        ELSE sd.file[i - sd.sd_len + 1]],
          !.sd_len = @ + n,
          !.file = SubSeq(@, n + 1, Len(@))]

\* Wrong: only a byte order mark is skipped.
FirstReadMark(sd) ==
    [sd EXCEPT !.sd_cur = IF At(sd, 0) = BOM THEN @ + 1 ELSE @]

\* The first read skips a byte order mark, and a line that starts with "#!".
FirstRead(sd) ==
    LET cur == IF At(sd, 0) = BOM THEN sd.sd_cur + 1 ELSE sd.sd_cur
    IN IF At(sd, cur) = "#" /\ At(sd, cur + 1) = "!"
       THEN [sd EXCEPT !.sd_cur = cur, !.sd_len = 0, !.sd_line = @ + 1,
                       !.base = @ + sd.sd_len]
       ELSE [sd EXCEPT !.sd_cur = cur]

\* What a turn of the loop of slaxGetInput makes of a line it has read.
LineRead(sd, first, final) ==
    [sd |-> IF first THEN FirstRead(sd) ELSE sd,
     first |-> FALSE,
     done |-> ~first /\ (~final \/ slaxIsFinalChar(sd.sd_buf[sd.sd_len - 1])),
     rc |-> FALSE]

\* One turn of the loop, in a buffer with room; rc is what the function returns.
GetInputStep(sd, first, final) ==
    IF sd.SDF_EOF \/ fgetsCount(sd) = 0
    THEN [sd |-> [sd EXCEPT !.SDF_EOF = TRUE], first |-> first,
          done |-> TRUE, rc |-> sd.sd_cur >= sd.sd_len]
    ELSE LineRead(Read(sd), first, final)

\* Fill the input buffer; a parser of strings has nothing to read.  Every turn
\* but the last takes something from the file, so as many turns as it has
\* characters, and one, are enough.
slaxGetInput(sd, final) ==
    LET Turn(prev) ==
            IF prev.done THEN prev ELSE GetInputStep(Roomy(prev.sd), prev.first, final)
        after[n \in 0 .. Len(sd.file) + 1] ==
            IF n = 0
            THEN [sd |-> sd, first |-> sd.sd_size = 0, done |-> ~sd.sd_file, rc |-> TRUE]
            ELSE Turn(after[n - 1])
    IN after[Len(sd.file) + 1]

\* Move the current point by one character, getting more data if needed.
slaxMoveCur(sd) ==
    LET moved == sd.sd_cur < sd.sd_len
        next == IF moved THEN [sd EXCEPT !.sd_cur = @ + 1] ELSE sd
        Refilled(got) ==
            [sd |-> IF got.rc /\ moved THEN [got.sd EXCEPT !.sd_cur = @ - 1] ELSE got.sd,
             rc |-> got.rc]
    IN IF next.sd_cur # next.sd_len THEN [sd |-> next, rc |-> FALSE]
       ELSE Refilled(slaxGetInput(next, FALSE))
=============================================================================
