----------------------------- MODULE TaskInput -----------------------------
(***************************************************************************)
(* How `task submit` gets its instructions: from --input, from a file, or   *)
(* from stdin, which a goroutine reads while the command waits for it or    *)
(* for cancellation.  The text is bounded, checked and normalised.  Others  *)
(* write to the file and to stdin meanwhile.                                *)
(*                                                                          *)
(* A text is a sequence of characters of five kinds; the limit counts them. *)
(***************************************************************************)
EXTENDS Naturals, Sequences, SequencesExt, FiniteSetsExt

CONSTANTS
    Limit,      \* maxTaskInputSize, maxManualInputSize
    Contents,   \* what the option, the file or the writer of stdin may hold
    Sources,    \* which of "inline", "file", "stdin" are used
    Stdins,     \* kinds of stdin
    Appended,   \* what others may append to the file, one character at a time
    MaxLength   \* bound on the length of the file

(* text, blank, line feed, carriage return, NUL or invalid UTF-8            *)
Characters == {"x", "sp", "lf", "cr", "bad"}

(* Close ends a pending read of an interruptible stdin (a pipe or a         *)
(* terminal in non-blocking mode) and not one of a blocking stdin.          *)
StdinKinds == {"interruptible", "blocking"}

ASSUME InputAssumption ==
    /\ Limit \in Nat /\ MaxLength \in Nat
    /\ Contents \subseteq Seq(Characters)
    /\ Sources \subseteq {"inline", "file", "stdin"}
    /\ Stdins \subseteq StdinKinds
    /\ Appended \subseteq Characters

VARIABLES
    source, stdin,  \* where the input comes from
    content,        \* what the file holds, or what stdin will deliver
    file,           \* what the file's path names
    raw,            \* what has been read
    ended,          \* the end of the input has been read
    reader,         \* the goroutine and the channel `completed`
    closed,         \* stdin.Close has been called
    cancelled,      \* the command's context is done
    pc, reason, input

vars == <<source, stdin, content, file, raw, ended, reader, closed, cancelled,
          pc, reason, input>>

outside == <<source, stdin, content, file>>
Final == {"done", "failed"}
FileKinds == {"regular", "irregular", "missing"}

Init ==
    /\ source \in Sources
    /\ stdin \in Stdins
    /\ content \in Contents
    /\ file \in IF source = "file" THEN FileKinds ELSE {"missing"}
    /\ raw = <<>> /\ ended = FALSE
    /\ reader = "idle" /\ closed = FALSE /\ cancelled = FALSE
    /\ pc = "start" /\ reason = "none" /\ input = <<>>

-----------------------------------------------------------------------------
(* domain.NormalizeManualInput.                                             *)

(* Seeded fault: a text of exactly the limit is too long.                   *)
OversizeAtLimit(s) == Len(s) >= Limit

Oversize(s) == Len(s) > Limit

(* The characters of s at a set of positions, in one pass.                  *)
At(s, positions) ==
    LET kept[k \in 0..Len(s)] ==
            IF k = 0 THEN <<>>
            ELSE IF k \in positions THEN Append(kept[k - 1], s[k])
            ELSE kept[k - 1]
    IN  kept[Len(s)]

(* strings.ReplaceAll(s, CRLF, LF): a CR before an LF goes.                 *)
WithoutCRLF(s) ==
    At(s, {i \in DOMAIN s : ~(s[i] = "cr" /\ i < Len(s) /\ s[i + 1] = "lf")})

UnixLines(s) == ReplaceAll(WithoutCRLF(s), "cr", "lf")

(* strings.Split(s, LF): a line feed begins another line.                   *)
Split(s) ==
    LET lines[k \in 0..Len(s)] ==
            IF k = 0 THEN << <<>> >>
            ELSE LET before == lines[k - 1]
                 IN  IF s[k] = "lf" THEN Append(before, <<>>)
                     ELSE [before EXCEPT ![Len(before)] = Append(@, s[k])]
    IN  lines[Len(s)]

(* strings.Join(lines, LF).                                                 *)
Join(lines) ==
    LET text[k \in 0..Len(lines)] ==
            IF k = 0 THEN <<>>
            ELSE IF k = 1 THEN lines[1]
            ELSE text[k - 1] \o <<"lf">> \o lines[k]
    IN  text[Len(lines)]

Visible(line) == \E i \in DOMAIN line : line[i] # "sp"

(* Seeded fault: at most one leading blank line is dropped.                 *)
WithoutOneBlank(lines) ==
    LET kept == {k \in DOMAIN lines : Visible(lines[k])}
    IN  IF kept = {} THEN <<>>
        ELSE SubSeq(lines, IF 1 \in kept THEN 1 ELSE 2, Max(kept))

(* The loops over start and end.                                            *)
WithoutOuterBlanks(lines) ==
    LET kept == {k \in DOMAIN lines : Visible(lines[k])}
    IN  IF kept = {} THEN <<>> ELSE SubSeq(lines, Min(kept), Max(kept))

Instructions(s) == Join(WithoutOuterBlanks(Split(UnixLines(s))))

(* Why the text is refused, or "none".  Instructions are never longer than  *)
(* the text they come from, so the second size check does not fire.         *)
Refusal(s) ==
    IF Oversize(s) THEN "exceeds"
    ELSE IF "bad" \in ToSet(s) \/ Instructions(s) = <<>> THEN "invalid"
    ELSE "none"

-----------------------------------------------------------------------------
Fail(why) == pc' = "failed" /\ reason' = why /\ UNCHANGED input

(* Seeded fault: the limited reader stops at the limit.                     *)
ReadLimitExact == Limit

(* Seeded fault: the reader is not limited.                                 *)
ReadLimitNone == MaxLength + Limit + 2

(* io.LimitReader(..., maxTaskInputSize+1).                                 *)
ReadLimit == Limit + 1

(* io.ReadAll: another character, or the end of the input or of the limit.  *)
ReadMore ==
    /\ Len(raw) < ReadLimit /\ Len(raw) < Len(content)
    /\ raw' = Append(raw, content[Len(raw) + 1])
    /\ UNCHANGED ended

ReadEnd ==
    /\ Len(raw) = Len(content) \/ Len(raw) >= ReadLimit
    /\ ended' = (Len(raw) < ReadLimit)
    /\ UNCHANGED raw

-----------------------------------------------------------------------------
(* readTaskInput.                                                           *)

Start ==
    /\ pc = "start"
    /\ CASE source = "inline" ->
              raw' = content /\ ended' = TRUE /\ pc' = "normalize" /\ UNCHANGED reader
         [] source = "stdin" ->
              reader' = "reading" /\ pc' = "select" /\ UNCHANGED <<raw, ended>>
         [] source = "file" ->
              pc' = "stat" /\ UNCHANGED <<raw, ended, reader>>
    /\ UNCHANGED <<outside, closed, cancelled, reason, input>>

(* The goroutine's read of stdin returns some data.                         *)
StdinData ==
    /\ reader = "reading" /\ ~closed
    /\ ReadMore
    /\ UNCHANGED <<outside, reader, closed, cancelled, pc, reason, input>>

(* ReadAll ends: at the end of stdin, or by itself at the limit.            *)
StdinEnd ==
    /\ reader = "reading"
    /\ closed => stdin = "blocking" \/ Len(raw) >= ReadLimit
    /\ ReadEnd
    /\ reader' = "sent"
    /\ UNCHANGED <<outside, closed, cancelled, pc, reason, input>>

(* A read fails: an I/O error, data for a blocking read after the Close     *)
(* (the next read fails), or the Close itself.                              *)
StdinFails ==
    /\ reader = "reading"
    /\ reader' = "error"
    /\ UNCHANGED <<outside, raw, ended, closed, cancelled, pc, reason, input>>

(* select: the result is there.                                             *)
Received ==
    /\ pc = "select" /\ reader \in {"sent", "error"}
    /\ IF reader = "error" THEN Fail("unreadable")
       ELSE IF Oversize(raw) THEN Fail("exceeds")
       ELSE pc' = "normalize" /\ UNCHANGED <<reason, input>>
    /\ UNCHANGED <<outside, raw, ended, reader, closed, cancelled>>

(* Seeded fault: stdin is left open.                                        *)
InterruptedOpen ==
    /\ pc = "select" /\ cancelled
    /\ pc' = "drain"
    /\ UNCHANGED <<outside, raw, ended, reader, closed, cancelled, reason, input>>

(* select: the context is done.  If both are ready, either may be taken.    *)
Interrupted ==
    /\ pc = "select" /\ cancelled
    /\ closed' = TRUE
    /\ pc' = "drain"
    /\ UNCHANGED <<outside, raw, ended, reader, cancelled, reason, input>>

(* Seeded fault: the command returns without its goroutine.                 *)
DrainedAtOnce ==
    /\ pc = "drain"
    /\ Fail("cancelled")
    /\ UNCHANGED <<outside, raw, ended, reader, closed, cancelled>>

(* <-completed.                                                             *)
Drained ==
    /\ pc = "drain" /\ reader \in {"sent", "error"}
    /\ Fail("cancelled")
    /\ UNCHANGED <<outside, raw, ended, reader, closed, cancelled>>

Stat ==
    /\ pc = "stat"
    /\ IF file # "regular" THEN Fail("unreadable")
       ELSE IF Oversize(content) THEN Fail("exceeds")
       ELSE pc' = "open" /\ UNCHANGED <<reason, input>>
    /\ UNCHANGED <<outside, raw, ended, reader, closed, cancelled>>

Open ==
    /\ pc = "open"
    /\ IF file = "missing" THEN Fail("unreadable")
       ELSE pc' = "read" /\ UNCHANGED <<reason, input>>
    /\ UNCHANGED <<outside, raw, ended, reader, closed, cancelled>>

FileData ==
    /\ pc = "read"
    /\ ReadMore
    /\ UNCHANGED <<outside, reader, closed, cancelled, pc, reason, input>>

(* ReadAll ends, Close, and the size once more.                             *)
FileEnd ==
    /\ pc = "read"
    /\ ReadEnd
    /\ IF Oversize(raw) THEN Fail("exceeds")
       ELSE pc' = "normalize" /\ UNCHANGED <<reason, input>>
    /\ UNCHANGED <<outside, reader, closed, cancelled>>

(* Open, ReadAll or Close returns an error.                                 *)
FileFails ==
    /\ pc \in {"open", "read"}
    /\ Fail("unreadable")
    /\ UNCHANGED <<outside, raw, ended, reader, closed, cancelled>>

Normalize ==
    /\ pc = "normalize"
    /\ IF Refusal(raw) # "none" THEN Fail(Refusal(raw))
       ELSE pc' = "done" /\ input' = Instructions(raw) /\ UNCHANGED reason
    /\ UNCHANGED <<outside, raw, ended, reader, closed, cancelled>>

-----------------------------------------------------------------------------
(* The surroundings.                                                        *)

Cancel ==
    /\ ~cancelled /\ pc \notin Final
    /\ cancelled' = TRUE
    /\ UNCHANGED <<outside, raw, ended, reader, closed, pc, reason, input>>

FileGrows ==
    /\ file = "regular" /\ pc \notin Final
    /\ Len(content) < MaxLength
    /\ \E c \in Appended : content' = Append(content, c)
    /\ UNCHANGED <<source, stdin, file, raw, ended, reader, closed, cancelled,
                   pc, reason, input>>

FileRemoved ==
    /\ file = "regular" /\ pc \notin Final
    /\ file' = "missing"
    /\ UNCHANGED <<source, stdin, content, raw, ended, reader, closed, cancelled,
                   pc, reason, input>>

-----------------------------------------------------------------------------
Main ==
    \/ Start \/ Received \/ Interrupted \/ Drained
    \/ Stat \/ Open \/ FileData \/ FileEnd \/ FileFails \/ Normalize

Goroutine == StdinData \/ StdinEnd \/ StdinFails

Terminated == pc \in Final /\ UNCHANGED vars

Next == Main \/ Goroutine \/ Cancel \/ FileGrows \/ FileRemoved \/ Terminated

Spec == Init /\ [][Next]_vars

(* The command runs until the text is read; the goroutine runs on when      *)
(* stdin is closed under it or the limit is reached.  Nobody has to write   *)
(* to stdin.                                                                *)
Reading == pc # "normalize" /\ Main

GoroutineOn ==
    \/ closed /\ stdin = "interruptible" /\ StdinFails
    \/ Len(raw) >= ReadLimit /\ StdinEnd

FairSpec == Spec /\ WF_vars(Reading) /\ WF_vars(GoroutineOn)

-----------------------------------------------------------------------------
(* Types; no more than one character above the limit is ever held; and      *)
(* there are no instructions until they are returned (see Stable for those).*)
TypeOK ==
    /\ source \in Sources /\ stdin \in Stdins /\ file \in FileKinds
    /\ content \in Seq(Characters)
    /\ raw \in Seq(Characters)
    /\ source # "inline" => Len(raw) <= Limit + 1
    /\ ended \in BOOLEAN /\ closed \in BOOLEAN /\ cancelled \in BOOLEAN
    /\ reader \in {"idle", "reading", "sent", "error"}
    /\ pc \in Final \cup {"start", "select", "drain", "stat", "open", "read", "normalize"}
    /\ reason \in {"none", "unreadable", "exceeds", "cancelled", "invalid"}
    /\ pc # "done" => input = <<>>

(* What the instructions should be: every line end (CRLF, CR or LF) is one  *)
(* line feed, and the text reaches from the first to the last line in which *)
(* something is visible.                                                    *)
OneLineEnd(s) ==
    ReplaceAll(At(s, {i \in DOMAIN s : ~(s[i] = "lf" /\ i > 1 /\ s[i - 1] = "cr")}),
               "cr", "lf")

Wanted(s) ==
    LET t     == OneLineEnd(s)
        ends  == {i \in DOMAIN t : t[i] = "lf"}
        seen  == {i \in DOMAIN t : t[i] = "x"}
        first == Max({0} \cup {i \in ends : i < Min(seen)})
        last  == Min({Len(t) + 1} \cup {i \in ends : i > Max(seen)})
    IN  SubSeq(t, first + 1, last - 1)

(* A task is submitted only with the whole of what was given: a text that   *)
(* the limited reader cut off is never taken for complete, also not when    *)
(* the file has grown since its Stat.                                       *)
NeverTruncated ==
    pc = "done" => ended /\ Len(raw) <= Limit /\ IsPrefix(raw, content)

(* The instructions are what is wanted of the text, normalising the stored  *)
(* ones again would change nothing, and a text is invalid only for a        *)
(* character that is, or because nothing in it is visible.                  *)
Stable ==
    /\ pc = "done" =>
         /\ input \in Seq(Characters) /\ input = Wanted(raw)
         /\ Refusal(input) = "none" /\ Instructions(input) = input
    /\ reason = "invalid" => "bad" \in ToSet(raw) \/ "x" \notin ToSet(raw)

(* A refusal has the cause it names: a text of exactly the limit is taken,  *)
(* only a whole text is invalid, and only a cancelled command, which has    *)
(* closed stdin, reports a cancellation.                                    *)
RefusedForCause ==
    /\ reason = "exceeds" => Len(content) > Limit
    /\ reason = "invalid" => Len(raw) <= Limit /\ ended
    /\ reason = "cancelled" => cancelled /\ closed

(* No goroutine still reads stdin when readTaskInput returns.               *)
NoReaderLeft == pc \in Final => reader # "reading"

(* A cancelled submission stops waiting although nobody writes to stdin, if *)
(* Close interrupts a read of it: it returns, or has the text and only      *)
(* normalises it.                                                           *)
CancelledReturns ==
    (cancelled /\ stdin = "interruptible") ~> pc \in Final \cup {"normalize"}
=============================================================================
