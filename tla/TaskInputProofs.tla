-------------------------- MODULE TaskInputProofs --------------------------
(***************************************************************************)
(* What holds of a submission's text while it is read, whichever the        *)
(* source, the limit and the length of the text: the types, that a text cut *)
(* off by the limited reader is never submitted, that a refusal has its     *)
(* cause, that no reader of stdin is left behind, and, for every text, that *)
(* its instructions are what is wanted of it.                               *)
(***************************************************************************)
EXTENDS TaskInput, NaturalsInduction, WellFoundedInduction, TLAPS

(* The variables have their types, except for the instructions.             *)
Kinds ==
    /\ source \in Sources /\ stdin \in Stdins /\ file \in FileKinds
    /\ ended \in BOOLEAN /\ closed \in BOOLEAN /\ cancelled \in BOOLEAN
    /\ reader \in {"idle", "reading", "sent", "error"}
    /\ pc \in Final \cup {"start", "select", "drain", "stat", "open", "read", "normalize"}
    /\ reason \in {"none", "unreadable", "exceeds", "cancelled", "invalid"}

(* What has been read is the beginning of what there is.                    *)
Texts ==
    /\ content \in Seq(Characters) /\ raw \in Seq(Characters)
    /\ Len(raw) <= Len(content)
    /\ \A i \in 1..Len(raw) : raw[i] = content[i]

(* Who reads when: the goroutine while the command waits for it, the        *)
(* command itself a file.                                                   *)
Stages ==
    /\ pc = "start" => reader = "idle" /\ raw = <<>>
    /\ reader = "reading" => pc \in {"select", "drain"}
    /\ pc \in {"select", "drain"} => source = "stdin" /\ reader # "idle"
    /\ pc \in {"stat", "open", "read"} => source = "file" /\ reader = "idle"
    /\ reason # "none" => pc = "failed"
    /\ pc = "drain" => cancelled /\ closed

(* A text within the limit has been read to its end; only an inline one is  *)
(* longer than the limited reader allows.                                   *)
Limits ==
    /\ source # "inline" => Len(raw) <= Limit + 1
    /\ reader = "sent" => (ended <=> Len(raw) <= Limit)
    /\ pc \in {"normalize", "done"} => ended
    /\ pc = "done" => Len(raw) <= Limit

InputInv == Kinds /\ Texts /\ Stages /\ Limits /\ RefusedForCause

-----------------------------------------------------------------------------
(* NormalizeManualInput refuses a text as too long exactly when it is.      *)
LEMMA RefusalOf ==
    ASSUME NEW s \in Seq(Characters)
    PROVE  /\ Refusal(s) \in {"exceeds", "invalid", "none"}
           /\ Refusal(s) = "exceeds" <=> Len(s) > Limit
  BY DEF Refusal, Oversize

(* A read appends the next character of the content, and only below the     *)
(* limit of the limited reader.                                             *)
LEMMA ReadOn ==
    ASSUME Texts, ReadMore, UNCHANGED content
    PROVE  Texts' /\ Len(raw') <= Limit + 1
<1> DEFINE c == content[Len(raw) + 1]
<1>1. Limit \in Nat
  BY InputAssumption
<1>2. c \in Characters
  BY DEF Texts, ReadMore
<1>3. /\ raw' = Append(raw, c) /\ raw' \in Seq(Characters)
      /\ Len(raw') = Len(raw) + 1
      /\ \A i \in 1..Len(raw) : raw'[i] = raw[i]
      /\ raw'[Len(raw) + 1] = c
  BY <1>2 DEF Texts, ReadMore
<1>4. \A i \in 1..Len(raw') : raw'[i] = content'[i]
  BY <1>3 DEF Texts
<1> QED
  BY <1>1, <1>3, <1>4 DEF Texts, ReadMore, ReadLimit

(* The end is reported exactly for a text within the limit.                 *)
LEMMA ReadOver ==
    ASSUME Texts, ReadEnd
    PROVE  ended' \in BOOLEAN /\ (ended' <=> Len(raw) <= Limit) /\ raw' = raw
<1>1. Limit \in Nat /\ Len(raw) \in Nat
  BY InputAssumption DEF Texts
<1>2. Len(raw) < Limit + 1 <=> Len(raw) <= Limit
  BY <1>1
<1>3. ended' = (Len(raw) < Limit + 1) /\ raw' = raw
  BY DEF ReadEnd, ReadLimit
<1>4. ended' \in BOOLEAN
  <2>1. (Len(raw) < Limit + 1) \in BOOLEAN
    BY <1>1
  <2> QED
    BY <1>3, <2>1, Zenon
<1>5. ended' <=> Len(raw) <= Limit
  BY <1>2, <1>3, Zenon
<1> QED
  BY <1>3, <1>4, <1>5, Zenon

(* Others only append to the content, so what was its beginning stays it.   *)
LEMMA Grown ==
    ASSUME Texts, UNCHANGED raw, NEW c \in Characters, content' = Append(content, c)
    PROVE  Texts' /\ Len(content') > Len(content)
  BY DEF Texts

-----------------------------------------------------------------------------
LEMMA InputInit == Init => InputInv
<1> SUFFICES ASSUME Init PROVE InputInv
  OBVIOUS
<1>1. content \in Seq(Characters) /\ Limit \in Nat
  BY InputAssumption DEF Init
<1>2. Texts
  BY <1>1 DEF Init, Texts
<1>3. Kinds
  BY DEF Init, Kinds, FileKinds
<1>4. Stages /\ Limits /\ RefusedForCause
  BY <1>1 DEF Init, Stages, Limits, RefusedForCause, Final
<1> QED
  BY <1>2, <1>3, <1>4 DEF InputInv

(* A failure of the command, once its cause is there.                       *)
LEMMA FailStep ==
    ASSUME InputInv, NEW why, Fail(why),
           UNCHANGED <<outside, raw, reader, closed, cancelled>>,
           reader # "reading", pc \notin Final,
           ended' \in BOOLEAN, reader = "sent" => ended' = ended,
           why \in {"unreadable", "exceeds", "cancelled", "invalid"},
           why = "exceeds" => Len(content) > Limit,
           why = "invalid" => Len(raw) <= Limit /\ ended',
           why = "cancelled" => cancelled /\ closed
    PROVE  InputInv'
<1>1. Kinds'
  BY DEF InputInv, Kinds, Fail, outside, Final
<1>2. Texts'
  BY DEF InputInv, Texts, outside
<1>3. Stages'
  BY DEF InputInv, Stages, Fail, outside
<1>4. Limits'
  BY DEF InputInv, Limits, Fail, outside
<1>5. RefusedForCause'
  BY DEF RefusedForCause, Fail, outside
<1> QED
  BY <1>1, <1>2, <1>3, <1>4, <1>5 DEF InputInv

(* The command goes on to a stage in which nothing reads stdin.             *)
LEMMA GoStep ==
    ASSUME InputInv, NEW stage, pc' = stage, UNCHANGED reason,
           UNCHANGED <<outside, raw, reader, closed, cancelled>>,
           reader # "reading", pc \notin Final,
           ended' \in BOOLEAN, reader = "sent" => ended' = ended,
           stage \in {"stat", "open", "read", "normalize", "done"},
           stage \in {"stat", "open", "read"} => source = "file" /\ reader = "idle",
           stage \in {"normalize", "done"} => ended',
           stage = "done" => Len(raw) <= Limit
    PROVE  InputInv'
<1>1. Kinds'
  BY DEF InputInv, Kinds, outside, Final
<1>2. Texts'
  BY DEF InputInv, Texts, outside
<1>3. reason = "none"
  BY DEF InputInv, Stages, Final
<1>4. Stages'
  BY <1>3 DEF InputInv, Stages, outside
<1>5. Limits'
  BY DEF InputInv, Limits, outside
<1>6. RefusedForCause'
  BY <1>3 DEF RefusedForCause
<1> QED
  BY <1>1, <1>2, <1>4, <1>5, <1>6 DEF InputInv

LEMMA InputStep == InputInv /\ [Next]_vars => InputInv'
<1> SUFFICES ASSUME InputInv, [Next]_vars PROVE InputInv'
  OBVIOUS
<1>0. /\ Limit \in Nat /\ content \in Seq(Characters) /\ raw \in Seq(Characters)
      /\ ended \in BOOLEAN
      /\ Len(raw) \in Nat /\ Len(content) \in Nat /\ Len(raw) <= Len(content)
  BY InputAssumption DEF InputInv, Texts, Kinds
<1>1. CASE Start
  <2>1. reader = "idle" /\ raw = <<>> /\ reason = "none"
    BY <1>1 DEF Start, InputInv, Stages
  <2>2. CASE source = "inline"
    <3>1. raw' = content /\ ended' = TRUE /\ pc' = "normalize" /\ UNCHANGED reader
      BY <1>1, <2>2 DEF Start
    <3>2. UNCHANGED <<outside, closed, cancelled, reason>>
      BY <1>1 DEF Start
    <3>3. Kinds'
      BY <3>1, <3>2 DEF InputInv, Kinds, outside
    <3>4. Texts'
      BY <1>0, <3>1, <3>2 DEF Texts, outside
    <3>5. Stages' /\ Limits'
      BY <2>1, <2>2, <3>1, <3>2 DEF Stages, Limits, outside
    <3>6. RefusedForCause'
      BY <2>1, <3>2 DEF RefusedForCause
    <3> QED
      BY <3>3, <3>4, <3>5, <3>6 DEF InputInv
  <2>3. CASE source = "stdin"
    <3>1. reader' = "reading" /\ pc' = "select" /\ UNCHANGED <<raw, ended>>
      BY <1>1, <2>3 DEF Start
    <3>2. UNCHANGED <<outside, closed, cancelled, reason>>
      BY <1>1 DEF Start
    <3>3. Kinds'
      BY <3>1, <3>2 DEF InputInv, Kinds, outside
    <3>4. Texts'
      BY <3>1, <3>2 DEF InputInv, Texts, outside
    <3>5. Stages' /\ Limits'
      BY <2>1, <2>3, <3>1, <3>2 DEF InputInv, Stages, Limits, outside
    <3>6. RefusedForCause'
      BY <2>1, <3>2 DEF RefusedForCause
    <3> QED
      BY <3>3, <3>4, <3>5, <3>6 DEF InputInv
  <2>4. CASE source = "file"
    <3>1. pc = "start" /\ pc' = "stat" /\ UNCHANGED <<raw, ended, reader>>
      BY <1>1, <2>4 DEF Start
    <3>2. UNCHANGED <<outside, closed, cancelled, reason>>
      BY <1>1 DEF Start
    <3> QED
      BY <1>0, <2>1, <2>4, <3>1, <3>2, GoStep DEF Final
  <2> QED
    BY <2>2, <2>3, <2>4, InputAssumption DEF InputInv, Kinds
<1>2. CASE StdinData
  <2>1. /\ ReadMore /\ reader = "reading"
        /\ UNCHANGED <<outside, reader, closed, cancelled, pc, reason, ended>>
    BY <1>2 DEF StdinData, ReadMore
  <2>2. Texts' /\ Len(raw') <= Limit + 1
    BY <2>1, ReadOn DEF InputInv, outside
  <2>3. pc \in {"select", "drain"} /\ reason = "none"
    BY <2>1 DEF InputInv, Stages
  <2>4. Kinds'
    BY <2>1 DEF InputInv, Kinds, outside
  <2>5. Stages' /\ Limits'
    BY <2>1, <2>2, <2>3 DEF InputInv, Stages, Limits, outside
  <2>6. RefusedForCause'
    BY <2>1, <2>3 DEF RefusedForCause
  <2> QED
    BY <2>2, <2>4, <2>5, <2>6 DEF InputInv
<1>3. CASE StdinEnd
  <2>1. /\ ReadEnd /\ reader = "reading" /\ reader' = "sent"
        /\ UNCHANGED <<outside, closed, cancelled, pc, reason>>
    BY <1>3 DEF StdinEnd
  <2>2. ended' \in BOOLEAN /\ (ended' <=> Len(raw) <= Limit) /\ raw' = raw
    BY <2>1, ReadOver DEF InputInv
  <2>3. pc \in {"select", "drain"} /\ reason = "none"
    BY <2>1 DEF InputInv, Stages
  <2>4. Kinds'
    BY <2>1, <2>2 DEF InputInv, Kinds, outside
  <2>5. Texts'
    BY <2>1, <2>2 DEF InputInv, Texts, outside
  <2>6. Stages' /\ Limits'
    BY <2>1, <2>2, <2>3 DEF InputInv, Stages, Limits, outside
  <2>7. RefusedForCause'
    BY <2>1, <2>3 DEF RefusedForCause
  <2> QED
    BY <2>4, <2>5, <2>6, <2>7 DEF InputInv
<1>4. CASE StdinFails
  <2>1. /\ reader = "reading" /\ reader' = "error"
        /\ UNCHANGED <<outside, raw, ended, closed, cancelled, pc, reason>>
    BY <1>4 DEF StdinFails
  <2>2. Kinds'
    BY <2>1 DEF InputInv, Kinds, outside
  <2>3. Texts'
    BY <2>1 DEF InputInv, Texts, outside
  <2>4. Stages' /\ Limits'
    BY <2>1 DEF InputInv, Stages, Limits, outside
  <2>5. RefusedForCause'
    BY <2>1 DEF InputInv, RefusedForCause, outside
  <2> QED
    BY <2>2, <2>3, <2>4, <2>5 DEF InputInv
<1>5. CASE Received
  <2>1. /\ pc = "select" /\ reader \in {"sent", "error"}
        /\ UNCHANGED <<outside, raw, ended, reader, closed, cancelled>>
    BY <1>5 DEF Received
  <2>2. CASE reader = "error"
    <3>1. Fail("unreadable")
      BY <1>5, <2>2 DEF Received
    <3> QED
      BY <1>0, <2>1, <2>2, <3>1, FailStep DEF Final
  <2>3. CASE reader = "sent" /\ Oversize(raw)
    <3>1. Fail("exceeds") /\ Len(content) > Limit
      BY <1>0, <1>5, <2>3 DEF Received, Oversize
    <3> QED
      BY <1>0, <2>1, <2>3, <3>1, FailStep DEF Final
  <2>4. CASE reader = "sent" /\ ~Oversize(raw)
    <3>1. pc' = "normalize" /\ UNCHANGED reason
      BY <1>5, <2>4 DEF Received
    <3>2. ended
      BY <1>0, <2>4 DEF InputInv, Limits, Oversize
    <3> QED
      BY <1>0, <2>1, <2>4, <3>1, <3>2, GoStep DEF Final
  <2> QED
    BY <2>1, <2>2, <2>3, <2>4
<1>6. CASE Interrupted
  <2>1. /\ pc = "select" /\ cancelled /\ closed' = TRUE /\ pc' = "drain"
        /\ UNCHANGED <<outside, raw, ended, reader, cancelled, reason>>
    BY <1>6 DEF Interrupted
  <2>2. Kinds'
    BY <2>1 DEF InputInv, Kinds, outside
  <2>3. Texts'
    BY <2>1 DEF InputInv, Texts, outside
  <2>4. Stages' /\ Limits'
    BY <2>1 DEF InputInv, Stages, Limits, outside
  <2>5. RefusedForCause'
    BY <2>1 DEF InputInv, RefusedForCause, outside
  <2> QED
    BY <2>2, <2>3, <2>4, <2>5 DEF InputInv
<1>7. CASE Drained
  <2>1. /\ pc = "drain" /\ reader \in {"sent", "error"} /\ Fail("cancelled")
        /\ UNCHANGED <<outside, raw, ended, reader, closed, cancelled>>
    BY <1>7 DEF Drained
  <2>2. cancelled /\ closed
    BY <2>1 DEF InputInv, Stages
  <2> QED
    BY <1>0, <2>1, <2>2, FailStep DEF Final
<1>8. CASE Stat
  <2>1. /\ pc = "stat"
        /\ UNCHANGED <<outside, raw, ended, reader, closed, cancelled>>
    BY <1>8 DEF Stat
  <2>2. source = "file" /\ reader = "idle"
    BY <2>1 DEF InputInv, Stages
  <2>3. CASE Fail("unreadable")
    BY <1>0, <2>1, <2>2, <2>3, FailStep DEF Final
  <2>4. CASE Oversize(content) /\ Fail("exceeds")
    <3>1. Len(content) > Limit
      BY <2>4 DEF Oversize
    <3> QED
      BY <1>0, <2>1, <2>2, <2>4, <3>1, FailStep DEF Final
  <2>5. CASE pc' = "open" /\ UNCHANGED reason
    BY <1>0, <2>1, <2>2, <2>5, GoStep DEF Final
  <2> QED
    BY <1>8, <2>3, <2>4, <2>5 DEF Stat
<1>9. CASE Open
  <2>1. /\ pc = "open"
        /\ UNCHANGED <<outside, raw, ended, reader, closed, cancelled>>
    BY <1>9 DEF Open
  <2>2. source = "file" /\ reader = "idle"
    BY <2>1 DEF InputInv, Stages
  <2>3. CASE Fail("unreadable")
    BY <1>0, <2>1, <2>2, <2>3, FailStep DEF Final
  <2>4. CASE pc' = "read" /\ UNCHANGED reason
    BY <1>0, <2>1, <2>2, <2>4, GoStep DEF Final
  <2> QED
    BY <1>9, <2>3, <2>4 DEF Open
<1>10. CASE FileData
  <2>1. /\ ReadMore /\ pc = "read"
        /\ UNCHANGED <<outside, reader, closed, cancelled, pc, reason, ended>>
    BY <1>10 DEF FileData, ReadMore
  <2>2. Texts' /\ Len(raw') <= Limit + 1
    BY <2>1, ReadOn DEF InputInv, outside
  <2>3. reader = "idle" /\ reason = "none"
    BY <2>1 DEF InputInv, Stages
  <2>4. Kinds'
    BY <2>1 DEF InputInv, Kinds, outside
  <2>5. Stages' /\ Limits'
    BY <2>1, <2>2, <2>3 DEF InputInv, Stages, Limits, outside
  <2>6. RefusedForCause'
    BY <2>1, <2>3 DEF RefusedForCause
  <2> QED
    BY <2>2, <2>4, <2>5, <2>6 DEF InputInv
<1>11. CASE FileEnd
  <2>1. /\ pc = "read" /\ ReadEnd
        /\ UNCHANGED <<outside, reader, closed, cancelled>>
    BY <1>11 DEF FileEnd
  <2>2. source = "file" /\ reader = "idle"
    BY <2>1 DEF InputInv, Stages
  <2>3. ended' \in BOOLEAN /\ (ended' <=> Len(raw) <= Limit) /\ raw' = raw
    BY <2>1, ReadOver DEF InputInv
  <2>4. CASE Oversize(raw)
    <3>1. Fail("exceeds") /\ Len(content) > Limit
      BY <1>0, <1>11, <2>4 DEF FileEnd, Oversize
    <3> QED
      BY <2>1, <2>2, <2>3, <3>1, FailStep DEF Final
  <2>5. CASE ~Oversize(raw)
    <3>1. pc' = "normalize" /\ UNCHANGED reason /\ ended'
      BY <1>0, <1>11, <2>3, <2>5 DEF FileEnd, Oversize
    <3> QED
      BY <2>1, <2>2, <2>3, <3>1, GoStep DEF Final
  <2> QED
    BY <2>4, <2>5
<1>12. CASE FileFails
  <2>1. /\ pc \in {"open", "read"} /\ Fail("unreadable")
        /\ UNCHANGED <<outside, raw, ended, reader, closed, cancelled>>
    BY <1>12 DEF FileFails
  <2>2. reader = "idle"
    BY <2>1 DEF InputInv, Stages
  <2> QED
    BY <1>0, <2>1, <2>2, FailStep DEF Final
<1>13. CASE Normalize
  <2>1. /\ pc = "normalize"
        /\ UNCHANGED <<outside, raw, ended, reader, closed, cancelled>>
    BY <1>13 DEF Normalize
  <2>2. reader # "reading" /\ ended
    BY <2>1 DEF InputInv, Stages, Limits
  <2>3. CASE Refusal(raw) = "none"
    <3>1. pc' = "done" /\ UNCHANGED reason /\ Len(raw) <= Limit
      BY <1>0, <1>13, <2>3, RefusalOf DEF Normalize
    <3> QED
      BY <2>1, <2>2, <3>1, GoStep DEF Final
  <2>4. CASE Refusal(raw) # "none"
    <3> DEFINE why == Refusal(raw)
    <3>1. Fail(why)
      BY <1>13, <2>4 DEF Normalize
    <3>2. /\ why \in {"exceeds", "invalid"}
          /\ why = "exceeds" => Len(content) > Limit
          /\ why = "invalid" => Len(raw) <= Limit
      BY <1>0, <2>4, RefusalOf
    <3> HIDE DEF why
    <3> QED
      BY <1>0, <2>1, <2>2, <3>1, <3>2, FailStep DEF Final
  <2> QED
    BY <2>3, <2>4
<1>14. CASE Cancel
  <2>1. /\ cancelled' = TRUE
        /\ UNCHANGED <<outside, raw, ended, reader, closed, pc, reason>>
    BY <1>14 DEF Cancel
  <2>2. Kinds'
    BY <2>1 DEF InputInv, Kinds, outside
  <2>3. Texts'
    BY <2>1 DEF InputInv, Texts, outside
  <2>4. Stages' /\ Limits'
    BY <2>1 DEF InputInv, Stages, Limits, outside
  <2>5. RefusedForCause'
    BY <2>1 DEF InputInv, RefusedForCause, outside
  <2> QED
    BY <2>2, <2>3, <2>4, <2>5 DEF InputInv
<1>15. CASE FileGrows
  <2>1. PICK c \in Appended : content' = Append(content, c)
    BY <1>15 DEF FileGrows
  <2>2. UNCHANGED <<source, stdin, file, raw, ended, reader, closed, cancelled, pc, reason>>
    BY <1>15 DEF FileGrows
  <2>3. Texts' /\ Len(content') > Len(content)
    BY <2>1, <2>2, Grown, InputAssumption DEF InputInv
  <2>4. Kinds'
    BY <2>2 DEF InputInv, Kinds
  <2>5. Stages' /\ Limits'
    BY <2>2 DEF InputInv, Stages, Limits
  <2>6. RefusedForCause'
    BY <1>0, <2>2, <2>3 DEF InputInv, RefusedForCause, Texts
  <2> QED
    BY <2>3, <2>4, <2>5, <2>6 DEF InputInv
<1>16. CASE FileRemoved
  <2>1. /\ file' = "missing"
        /\ UNCHANGED <<source, stdin, content, raw, ended, reader, closed, cancelled,
                       pc, reason>>
    BY <1>16 DEF FileRemoved
  <2>2. Kinds'
    BY <2>1 DEF InputInv, Kinds, FileKinds
  <2>3. Texts' /\ Stages' /\ Limits' /\ RefusedForCause'
    BY <2>1 DEF InputInv, Texts, Stages, Limits, RefusedForCause
  <2> QED
    BY <2>2, <2>3 DEF InputInv
<1>17. CASE UNCHANGED vars
  <2>1. UNCHANGED <<source, stdin, content, file, raw, ended, reader, closed, cancelled,
                   pc, reason>>
    BY <1>17 DEF vars
  <2>2. Kinds' /\ Texts' /\ Stages' /\ Limits' /\ RefusedForCause'
    BY <2>1 DEF InputInv, Kinds, Texts, Stages, Limits, RefusedForCause
  <2> QED
    BY <2>2 DEF InputInv
<1> QED
  BY <1>1, <1>2, <1>3, <1>4, <1>5, <1>6, <1>7, <1>8, <1>9, <1>10, <1>11, <1>12,
     <1>13, <1>14, <1>15, <1>16, <1>17 DEF Next, Main, Goroutine, Terminated

(* The strengthening is an invariant.                                       *)
THEOREM InputInvariant == Spec => []InputInv
  BY InputInit, InputStep, PTL DEF Spec

-----------------------------------------------------------------------------
(* Types; the limited reader never holds more than one character above the  *)
(* limit; and there are no instructions before they are returned.           *)
THEOREM TypeCorrect == Spec => []TypeOK
<1> DEFINE Returned == pc # "done" => input = <<>>
<1>1. Init => Returned
  BY DEF Init
<1>2. Returned /\ [Next]_vars => Returned'
  <2> SUFFICES ASSUME Returned, [Next]_vars PROVE Returned'
    OBVIOUS
  <2>1. CASE Goroutine \/ Cancel \/ FileGrows \/ FileRemoved
    BY <2>1 DEF Goroutine, StdinData, StdinEnd, StdinFails, Cancel, FileGrows,
                FileRemoved
  <2>2. CASE Main
    BY <2>2 DEF Main, Start, Received, Interrupted, Drained, Stat, Open, FileData,
                FileEnd, FileFails, Normalize, Fail
  <2>3. CASE UNCHANGED vars
    BY <2>3 DEF vars
  <2> QED
    BY <2>1, <2>2, <2>3 DEF Next, Terminated
<1>3. InputInv /\ Returned => TypeOK
  BY DEF InputInv, Kinds, Texts, Limits, TypeOK
<1> QED
  BY InputInvariant, <1>1, <1>2, <1>3, PTL DEF Spec

(* readTaskInput never returns a text that the limited reader has cut off,  *)
(* and what it returns is the beginning of what is there, also if the file  *)
(* has grown since its Stat.                                                *)
THEOREM NothingCutOff == Spec => []NeverTruncated
<1>1. InputInv => NeverTruncated
  <2> SUFFICES ASSUME InputInv, pc = "done" PROVE NeverTruncated
    BY DEF NeverTruncated
  <2>1. ended /\ Len(raw) <= Limit
    BY DEF InputInv, Limits
  <2>2. IsPrefix(raw, content)
    <3>1. /\ content \in Seq(Characters) /\ raw \in Seq(Characters)
          /\ Len(raw) <= Len(content) /\ Len(raw) \in Nat
          /\ \A i \in 1..Len(raw) : raw[i] = content[i]
      BY DEF InputInv, Texts
    <3>2. SubSeq(raw, 1, Len(raw)) = SubSeq(content, 1, Len(raw))
      BY <3>1
    <3> QED
      BY <3>1, <3>2 DEF IsPrefix
  <2> QED
    BY <2>1, <2>2 DEF NeverTruncated
<1> QED
  BY InputInvariant, <1>1, PTL

(* Every refusal has the cause it names, whenever the command is cancelled  *)
(* and whatever happens to the file: only a text above the limit exceeds    *)
(* it, only a whole one is invalid, and only a cancelled command that has   *)
(* closed stdin reports a cancellation.                                     *)
THEOREM RefusalHasCause == Spec => []RefusedForCause
  BY InputInvariant, PTL DEF InputInv

(* The goroutine that reads stdin has handed over its result when           *)
(* readTaskInput returns, whichever way it returns.                         *)
THEOREM ReaderIsJoined == Spec => []NoReaderLeft
<1>1. InputInv => NoReaderLeft
  BY DEF InputInv, Stages, NoReaderLeft, Final
<1> QED
  BY InputInvariant, <1>1, PTL

-----------------------------------------------------------------------------
(* Induction and recursion up to a number.  What is defined by recursion is *)
(* reached through sets: the least counterexample of a property is none.    *)

(* Induction up to n, for a set: the least number outside it is a successor *)
(* of one inside.                                                           *)
LEMMA Induction ==
    ASSUME NEW n \in Nat, NEW S, 0 \in S,
           \A k \in 0..n : k < n /\ k \in S => k + 1 \in S
    PROVE  \A k \in 0..n : k \in S
<1> DEFINE T == {k \in 0..n : k \notin S}
<1> SUFFICES ASSUME T # {} PROVE FALSE
  OBVIOUS
<1>1. T \subseteq Nat
  OBVIOUS
<1>2. IsWellFoundedOn(OpToRel(<, Nat), Nat)
  BY NatLessThanWellFounded
<1>3. PICK i \in T : \A j \in T : ~(<<j, i>> \in OpToRel(<, Nat))
  BY <1>1, <1>2, WFMin
<1>4. \A j \in T : ~(j < i)
  BY <1>1, <1>3 DEF OpToRel
<1>5. i \in 1..n
  OBVIOUS
<1>6. i - 1 \in S
  BY <1>4, <1>5
<1> QED
  BY <1>5, <1>6

(* next takes a value of V to a value of V at each of n steps; Run(f, ...)  *)
(* holds of the values it goes through from base.                           *)
Steps(n, V, next) == \A k \in 1..n : \A x \in V : next[<<k, x>>] \in V

Run(f, n, V, base, next) ==
    /\ f \in [0..n -> V]
    /\ f[0] = base
    /\ \A k \in 1..n : f[k] = next[<<k, f[k - 1]>>]

(* A step function has a run, so that a recursive definition that follows   *)
(* it denotes something.                                                    *)
LEMMA Recursion ==
    ASSUME NEW n, n \in Nat, NEW V, NEW base, base \in V, NEW next, Steps(n, V, next)
    PROVE  \E f : Run(f, n, V, base, next)
<1> DEFINE Runs(f, m) == f[0] = base /\ \A k \in 1..m : f[k] = next[<<k, f[k - 1]>>]
           S == {m \in 0..n : \E f \in [0..m -> V] : Runs(f, m)}
<1>1. 0 \in S
  <2> DEFINE f == [k \in 0..0 |-> base]
  <2>1. f \in [0..0 -> V] /\ f[0] = base
    OBVIOUS
  <2>2. \A k \in 1..0 : f[k] = next[<<k, f[k - 1]>>]
    OBVIOUS
  <2> HIDE DEF f
  <2> QED
    BY <2>1, <2>2
<1>2. ASSUME NEW m \in 0..n, m < n, m \in S PROVE m + 1 \in S
  <2>1. PICK f \in [0..m -> V] : Runs(f, m)
    BY <1>2
  <2>2. m + 1 \in 1..n /\ f[m] \in V
    BY <1>2
  <2>3. next[<<m + 1, f[m]>>] \in V
    BY <2>2 DEF Steps
  <2> DEFINE g == [k \in 0..m + 1 |-> IF k <= m THEN f[k] ELSE next[<<m + 1, f[m]>>]]
  <2>4. g \in [0..m + 1 -> V]
    BY <2>3
  <2>5. g[0] = base
    BY <2>1
  <2>6. ASSUME NEW k \in 1..m + 1 PROVE g[k] = next[<<k, g[k - 1]>>]
    <3>1. CASE k <= m
      <4>1. g[k] = f[k] /\ g[k - 1] = f[k - 1] /\ k \in 1..m
        BY <3>1
      <4> QED
        BY <2>1, <4>1
    <3>2. CASE k = m + 1
      <4>1. g[k] = next[<<m + 1, f[m]>>] /\ g[k - 1] = f[m]
        BY <3>2
      <4> QED
        BY <3>2, <4>1
    <3> QED
      BY <3>1, <3>2
  <2> HIDE DEF g
  <2>7. Runs(g, m + 1)
    BY <2>5, <2>6
  <2> QED
    BY <2>2, <2>4, <2>7
<1> HIDE DEF S
<1>3. \A k \in 0..n : k \in S
  BY <1>1, <1>2, Induction
<1>4. n \in S
  BY <1>3
<1> QED
  BY <1>4 DEF S, Run

(* The first n + 1 values of g are in V.                                    *)
Typed(n, V, g) == \A k \in 0..n : g[k] \in V

(* ... which holds if the first is and each step stays in V.                *)
LEMMA Typing ==
    ASSUME NEW n, n \in Nat, NEW V, NEW g, g[0] \in V,
           \A k \in 1..n : g[k - 1] \in V => g[k] \in V
    PROVE  Typed(n, V, g)
<1> DEFINE S == {k \in 0..n : g[k] \in V}
<1>1. 0 \in S
  OBVIOUS
<1>2. ASSUME NEW k \in 0..n, k < n, k \in S PROVE k + 1 \in S
  <2>1. k + 1 \in 1..n /\ (k + 1) - 1 = k /\ g[k] \in V
    BY <1>2
  <2> QED
    BY <2>1
<1> HIDE DEF S
<1>3. \A k \in 0..n : k \in S
  BY <1>1, <1>2, Induction
<1> QED
  BY <1>3 DEF S, Typed

-----------------------------------------------------------------------------
(* The scans: At, Split and Join.                                           *)

(* f[k] is what At keeps of the first k characters of s.                    *)
KeptScan(f, s, P) ==
    /\ f \in [0..Len(s) -> Seq(Characters)]
    /\ f[0] = <<>>
    /\ \A k \in 1..Len(s) :
         f[k] = IF k \in P THEN Append(f[k - 1], s[k]) ELSE f[k - 1]

(* At is the end of its scan.                                               *)
LEMMA AtIs ==
    ASSUME NEW s \in Seq(Characters), NEW P
    PROVE  \E f : KeptScan(f, s, P) /\ At(s, P) = f[Len(s)]
<1> DEFINE n == Len(s)
           V == Seq(Characters)
           next == [x \in (1..n) \X V |->
                      IF x[1] \in P THEN Append(x[2], s[x[1]]) ELSE x[2]]
           Scan(f) == f = [k \in 0..Len(s) |->
                        IF k = 0 THEN <<>>
                        ELSE IF k \in P THEN Append(f[k - 1], s[k])
                        ELSE f[k - 1]]
           kept == CHOOSE f : Scan(f)
<1>1. Steps(n, V, next)
  BY DEF Steps
<1>2. n \in Nat /\ n = Len(s)
  OBVIOUS
<1>a. <<>> \in V
  OBVIOUS
<1>b. ASSUME NEW k \in 1..n, NEW x \in V
      PROVE  next[<<k, x>>] = IF k \in P THEN Append(x, s[k]) ELSE x
  OBVIOUS
<1> HIDE DEF V, n, next
<1>3. PICK f \in [0..n -> V] :
        f[0] = <<>> /\ \A k \in 1..n : f[k] = next[<<k, f[k - 1]>>]
  <2> DEFINE base == <<>>
  <2>1. base \in V /\ n \in Nat
    BY <1>a, <1>2
  <2> HIDE DEF base
  <2>2. \E f : Run(f, n, V, base, next)
    BY <1>1, <2>1, Recursion, Zenon
  <2> QED
    BY <2>2 DEF base, Run
<1>4. \A k \in 1..n : f[k - 1] \in V
  BY <1>2, <1>3
<1>5. \A k \in 1..n : f[k] = IF k \in P THEN Append(f[k - 1], s[k]) ELSE f[k - 1]
  BY <1>3, <1>4, <1>b
<1>6. Scan(f)
  <2> DEFINE e(k) == IF k = 0 THEN <<>>
                        ELSE IF k \in P THEN Append(f[k - 1], s[k])
                        ELSE f[k - 1]
  <2>3. \A k \in 1..n : f[k] = e(k)
    BY <1>5
  <2>4. f[0] = e(0)
    BY <1>3
  <2> HIDE DEF e
  <2>1. \A k \in 0..n : f[k] = e(k)
    BY <1>2, <2>3, <2>4
  <2>2. f = [k \in 0..n |-> e(k)]
    BY <2>1, <1>3
  <2> QED
    BY <2>2, <1>2 DEF e
<1>7. Scan(kept)
  BY <1>6
<1>8. At(s, P) = kept[n]
  BY DEF At, n
<1> DEFINE step(g, k) == IF k \in P THEN Append(g[k - 1], s[k]) ELSE g[k - 1]
<1>9. kept[0] = <<>> /\ \A k \in 1..n : kept[k] = step(kept, k)
  <2> DEFINE e(k) == IF k = 0 THEN <<>> ELSE step(kept, k)
  <2> HIDE DEF kept
  <2>1. kept = [k \in 0..n |-> e(k)]
    BY <1>7, <1>2
  <2> HIDE DEF e
  <2>2. \A k \in 0..n : kept[k] = e(k)
    BY <2>1
  <2>3. e(0) = <<>> /\ \A k \in 1..n : e(k) = step(kept, k)
    BY <1>2 DEF e
  <2> HIDE DEF step
  <2>4. \A k \in 1..n : k \in 0..n
    OBVIOUS
  <2>5. 0 \in 0..n
    BY <1>2
  <2> QED
    BY <2>2, <2>3, <2>4, <2>5, Zenon
<1>10. kept = [k \in 0..n |-> kept[k]]
  <2> DEFINE e(k) == IF k = 0 THEN <<>> ELSE step(kept, k)
  <2> HIDE DEF kept
  <2>1. kept = [k \in 0..n |-> e(k)]
    BY <1>7, <1>2
  <2> HIDE DEF e
  <2> QED
    BY <2>1
<1> HIDE DEF kept
<1>12. ASSUME NEW k \in 1..n, kept[k - 1] \in V PROVE kept[k] \in V
  <2>1. kept[k] = IF k \in P THEN Append(kept[k - 1], s[k]) ELSE kept[k - 1]
    BY <1>9
  <2>2. Append(kept[k - 1], s[k]) \in V
    BY <1>12, <1>2 DEF V
  <2> QED
    BY <1>12, <2>1, <2>2
<1>13. Typed(n, V, kept)
  BY <1>2, <1>9, <1>a, <1>12, Typing
<1>14. kept \in [0..n -> V]
  BY <1>10, <1>13 DEF Typed
<1> QED
  BY <1>2, <1>8, <1>9, <1>14 DEF V, KeptScan

(* f[k] is what Split makes of the first k characters of s.                 *)
LinesScan(f, s) ==
    /\ f \in [0..Len(s) -> Seq(Seq(Characters)) \ {<<>>}]
    /\ f[0] = << <<>> >>
    /\ \A k \in 1..Len(s) :
         f[k] = IF s[k] = "lf" THEN Append(f[k - 1], <<>>)
                ELSE [f[k - 1] EXCEPT ![Len(f[k - 1])] = Append(@, s[k])]

(* A function on 1..n is a sequence of length n.                            *)
LEMMA IsSequence ==
    ASSUME NEW n, n \in Nat, NEW T, NEW y, y \in [1..n -> T]
    PROVE  y \in Seq(T) /\ Len(y) = n
  OBVIOUS

(* A step of Split keeps a nonempty sequence of lines one.                  *)
LEMMA Lengthened ==
    ASSUME NEW x \in Seq(Seq(Characters)) \ {<<>>}, NEW c \in Characters
    PROVE  /\ Append(x, <<>>) \in Seq(Seq(Characters)) \ {<<>>}
           /\ [x EXCEPT ![Len(x)] = Append(@, c)] \in Seq(Seq(Characters)) \ {<<>>}
<1> DEFINE T == Seq(Characters)
<1>1. <<>> \in T
  OBVIOUS
<1>2. Len(x) \in 1..Len(x) /\ x \in [1..Len(x) -> T]
  OBVIOUS
<1>3. Append(x[Len(x)], c) \in T
  BY <1>2
<1> DEFINE y == [x EXCEPT ![Len(x)] = Append(@, c)]
<1> HIDE DEF T
<1>4. Append(x, <<>>) \in Seq(T) /\ Append(x, <<>>) # <<>>
  <2> DEFINE e == <<>>
  <2>1. x \in Seq(T) /\ e \in T
    BY <1>1 DEF T
  <2> HIDE DEF e
  <2>2. Append(x, e) \in Seq(T)
    BY <2>1
  <2>3. Len(Append(x, e)) = Len(x) + 1 /\ Len(x) \in Nat
    BY <2>1
  <2>4. Append(x, e) # <<>>
    BY <2>3
  <2> QED
    BY <2>2, <2>4 DEF e
<1>5. y \in [1..Len(x) -> T]
  BY <1>2, <1>3
<1> HIDE DEF y
<1>6. Len(x) \in Nat /\ Len(x) # 0
  OBVIOUS
<1>7. y \in Seq(T) /\ Len(y) = Len(x)
  BY <1>5, <1>6, IsSequence
<1>8. y # <<>>
  BY <1>6, <1>7
<1> QED
  BY <1>4, <1>7, <1>8 DEF T, y

(* Split is the end of its scan.                                            *)
LEMMA SplitIs ==
    ASSUME NEW s \in Seq(Characters)
    PROVE  \E f : LinesScan(f, s) /\ Split(s) = f[Len(s)]
<1> DEFINE n == Len(s)
           V == Seq(Seq(Characters)) \ {<<>>}
           turn(x, k) == IF s[k] = "lf" THEN Append(x, <<>>)
                         ELSE [x EXCEPT ![Len(x)] = Append(@, s[k])]
           next == [z \in (1..n) \X V |-> turn(z[2], z[1])]
           Scan(f) == f = [k \in 0..Len(s) |->
                        IF k = 0 THEN << <<>> >>
                        ELSE LET before == f[k - 1]
                             IN  IF s[k] = "lf" THEN Append(before, <<>>)
                                 ELSE [before EXCEPT ![Len(before)] = Append(@, s[k])]]
           lines == CHOOSE f : Scan(f)
           base == << <<>> >>
<1>1. base \in V
  OBVIOUS
<1>2. n \in Nat /\ n = Len(s) /\ \A k \in 1..n : s[k] \in Characters
  OBVIOUS
<1>3. ASSUME NEW k \in 1..n, NEW x \in V PROVE turn(x, k) \in V
  BY <1>2, <1>3, Lengthened, Zenon
<1>4. Split(s) = lines[n]
  BY DEF Split, n
<1>5. ASSUME NEW f
      PROVE  Scan(f) <=> f = [k \in 0..n |-> IF k = 0 THEN base ELSE turn(f[k - 1], k)]
  OBVIOUS
<1> HIDE DEF V, turn, base, Scan, n
<1>6. ASSUME NEW k \in 1..n, NEW x \in V PROVE next[<<k, x>>] = turn(x, k)
  OBVIOUS
<1> HIDE DEF next
<1>7. Steps(n, V, next)
  BY <1>3, <1>6 DEF Steps
<1>8. PICK f : Run(f, n, V, base, next)
  BY <1>1, <1>2, <1>7, Recursion, Zenon
<1>9. Scan(f)
  <2>1. ASSUME NEW k \in 1..n PROVE f[k] = turn(f[k - 1], k)
    <3>1. f[k - 1] \in V
      BY <1>2, <1>8 DEF Run
    <3> QED
      BY <1>6, <1>8, <3>1 DEF Run
  <2> DEFINE e(k) == IF k = 0 THEN base ELSE turn(f[k - 1], k)
  <2>2. \A k \in 0..n : f[k] = e(k)
    BY <1>2, <1>8, <2>1 DEF Run
  <2> HIDE DEF e
  <2>3. f = [k \in 0..n |-> e(k)]
    BY <1>8, <2>2 DEF Run
  <2> QED
    BY <1>5, <2>3 DEF e
<1>10. Scan(lines)
  BY <1>9
<1> HIDE DEF lines
<1>11. lines = [k \in 0..n |-> IF k = 0 THEN base ELSE turn(lines[k - 1], k)]
  BY <1>5, <1>10
<1>12. lines[0] = base /\ (\A k \in 1..n : lines[k] = turn(lines[k - 1], k))
       /\ lines = [k \in 0..n |-> lines[k]]
  BY <1>2, <1>11
<1>13. Typed(n, V, lines)
  BY <1>1, <1>2, <1>3, <1>12, Typing
<1>14. lines \in [0..n -> V]
  BY <1>12, <1>13 DEF Typed
<1> QED
  BY <1>2, <1>4, <1>12, <1>14 DEF LinesScan, V, base, turn

(* f[k] is the text of the first k lines.                                   *)
JoinScan(f, lines) ==
    /\ f \in [0..Len(lines) -> Seq(Characters)]
    /\ f[0] = <<>>
    /\ \A k \in 1..Len(lines) :
         f[k] = IF k = 1 THEN lines[1] ELSE f[k - 1] \o <<"lf">> \o lines[k]

(* Join is the end of its scan.                                             *)
LEMMA JoinIs ==
    ASSUME NEW lines \in Seq(Seq(Characters))
    PROVE  \E f : JoinScan(f, lines) /\ Join(lines) = f[Len(lines)]
<1> DEFINE n == Len(lines)
           V == Seq(Characters)
           turn(x, k) == IF k = 1 THEN lines[1] ELSE x \o <<"lf">> \o lines[k]
           next == [z \in (1..n) \X V |-> turn(z[2], z[1])]
           Scan(f) == f = [k \in 0..Len(lines) |->
                        IF k = 0 THEN <<>>
                        ELSE IF k = 1 THEN lines[1]
                        ELSE f[k - 1] \o <<"lf">> \o lines[k]]
           text == CHOOSE f : Scan(f)
           base == <<>>
<1>1. base \in V
  OBVIOUS
<1>2. n \in Nat /\ n = Len(lines) /\ \A k \in 1..n : lines[k] \in V
  OBVIOUS
<1>3. ASSUME NEW k \in 1..n, NEW x \in V PROVE turn(x, k) \in V
  <2>1. lines[1] \in V /\ lines[k] \in V
    BY <1>2
  <2>2. <<"lf">> \in V
    BY DEF Characters
  <2> HIDE DEF V
  <2>3. \A y, z \in V : y \o z \in V
    BY DEF V
  <2>4. x \o <<"lf">> \o lines[k] \in V
    BY <2>1, <2>2, <2>3, Zenon
  <2> QED
    BY <2>1, <2>4, Zenon
<1>4. Join(lines) = text[n]
  BY DEF Join, n
<1>5. ASSUME NEW f
      PROVE  Scan(f) <=> f = [k \in 0..n |-> IF k = 0 THEN base ELSE turn(f[k - 1], k)]
  OBVIOUS
<1> HIDE DEF V, turn, base, Scan, n
<1>6. ASSUME NEW k \in 1..n, NEW x \in V PROVE next[<<k, x>>] = turn(x, k)
  OBVIOUS
<1> HIDE DEF next
<1>7. Steps(n, V, next)
  BY <1>3, <1>6 DEF Steps
<1>8. PICK f : Run(f, n, V, base, next)
  BY <1>1, <1>2, <1>7, Recursion, Zenon
<1>9. Scan(f)
  <2>1. ASSUME NEW k \in 1..n PROVE f[k] = turn(f[k - 1], k)
    <3>1. f[k - 1] \in V
      BY <1>2, <1>8 DEF Run
    <3> QED
      BY <1>6, <1>8, <3>1 DEF Run
  <2> DEFINE e(k) == IF k = 0 THEN base ELSE turn(f[k - 1], k)
  <2>2. \A k \in 0..n : f[k] = e(k)
    BY <1>2, <1>8, <2>1 DEF Run
  <2> HIDE DEF e
  <2>3. f = [k \in 0..n |-> e(k)]
    BY <1>8, <2>2 DEF Run
  <2> QED
    BY <1>5, <2>3 DEF e
<1>10. Scan(text)
  BY <1>9
<1> HIDE DEF text
<1>11. text = [k \in 0..n |-> IF k = 0 THEN base ELSE turn(text[k - 1], k)]
  BY <1>5, <1>10
<1>12. text[0] = base /\ (\A k \in 1..n : text[k] = turn(text[k - 1], k))
       /\ text = [k \in 0..n |-> text[k]]
  BY <1>2, <1>11
<1>13. Typed(n, V, text)
  BY <1>1, <1>2, <1>3, <1>12, Typing
<1>14. text \in [0..n -> V]
  BY <1>12, <1>13 DEF Typed
<1> QED
  BY <1>2, <1>4, <1>12, <1>14 DEF JoinScan, V, base, turn

-----------------------------------------------------------------------------
(* Line ends.                                                               *)

(* A text with every CR replaced by an LF, and the same for a character.    *)
Lf(x) == ReplaceAll(x, "cr", "lf")
Char(c) == IF c = "cr" THEN "lf" ELSE c

(* The replacement goes character by character,                             *)
LEMMA LfIs ==
    ASSUME NEW x \in Seq(Characters)
    PROVE  /\ Lf(x) \in Seq(Characters)
           /\ Len(Lf(x)) = Len(x)
           /\ \A i \in 1..Len(x) : Lf(x)[i] = Char(x[i])
<1>1. \A i \in 1..Len(x) : Char(x[i]) \in Characters
  BY DEF Char, Characters
<1>2. Lf(x) = [i \in 1..Len(x) |-> Char(x[i])]
  BY DEF Lf, ReplaceAll, Char
<1>3. Lf(x) \in [1..Len(x) -> Characters] /\ Len(x) \in Nat
  BY <1>1, <1>2
<1> QED
  BY <1>2, <1>3, IsSequence

(* ... also when a text grows.                                              *)
LEMMA LfAppend ==
    ASSUME NEW x \in Seq(Characters), NEW c \in Characters
    PROVE  Lf(Append(x, c)) = Append(Lf(x), Char(c))
<1> DEFINE y == Append(x, c)
           z == Append(Lf(x), Char(c))
<1>1. y \in Seq(Characters) /\ Len(y) = Len(x) + 1 /\ Len(x) \in Nat
  OBVIOUS
<1>2. Lf(y) \in Seq(Characters) /\ Len(Lf(y)) = Len(x) + 1
  BY <1>1, LfIs
<1>3. Lf(x) \in Seq(Characters) /\ Len(Lf(x)) = Len(x)
  BY LfIs
<1>4. Char(c) \in Characters
  BY DEF Char, Characters
<1>5. z \in Seq(Characters) /\ Len(z) = Len(x) + 1
  BY <1>3, <1>4
<1>6. ASSUME NEW i \in 1..Len(x) + 1 PROVE Lf(y)[i] = z[i]
  <2>1. Lf(y)[i] = Char(y[i])
    BY <1>1, LfIs
  <2>2. CASE i = Len(x) + 1
    <3>1. y[i] = c
      BY <2>2
    <3>2. z[i] = Char(c)
      BY <2>2, <1>3, <1>4
    <3> QED
      BY <2>1, <3>1, <3>2
  <2>3. CASE i # Len(x) + 1
    <3>1. i \in 1..Len(x)
      BY <2>3, <1>1
    <3>2. y[i] = x[i]
      BY <3>1
    <3>3. z[i] = Lf(x)[i]
      BY <3>1, <1>3, <1>4
    <3>4. Lf(x)[i] = Char(x[i])
      BY <3>1, LfIs
    <3> QED
      BY <2>1, <3>2, <3>3, <3>4
  <2> QED
    BY <2>2, <2>3
<1> HIDE DEF y, z
<1> QED
  BY <1>2, <1>5, <1>6 DEF y, z

(* What NormalizeManualInput keeps (a CR before an LF goes), and what       *)
(* OneLineEnd keeps (an LF after a CR goes).                                *)
BeforeLineFeeds(s) == {i \in DOMAIN s : ~(s[i] = "cr" /\ i < Len(s) /\ s[i + 1] = "lf")}
AfterReturns(s) == {i \in DOMAIN s : ~(s[i] = "lf" /\ i > 1 /\ s[i - 1] = "cr")}

(* strings.ReplaceAll of CRLF and then of CR leaves one LF for each line    *)
(* end, whatever the text: at a CRLF the one scan has what the other is     *)
(* about to have, everywhere else they agree.                               *)
LEMMA SameLineEnds ==
    ASSUME NEW s \in Seq(Characters)
    PROVE  UnixLines(s) = OneLineEnd(s)
<1> DEFINE n == Len(s)
           C == Seq(Characters)
           Paired(k) == k \in 1..n /\ k < n /\ s[k] = "cr" /\ s[k + 1] = "lf"
<1>1. PICK f : KeptScan(f, s, BeforeLineFeeds(s)) /\ At(s, BeforeLineFeeds(s)) = f[n]
  BY AtIs
<1>2. PICK g : KeptScan(g, s, AfterReturns(s)) /\ At(s, AfterReturns(s)) = g[n]
  BY AtIs
<1>3. UnixLines(s) = Lf(f[n]) /\ OneLineEnd(s) = Lf(g[n])
  BY <1>1, <1>2
     DEF UnixLines, WithoutCRLF, OneLineEnd, BeforeLineFeeds, AfterReturns, Lf
<1>4. n \in Nat /\ \A k \in 0..n : f[k] \in C /\ g[k] \in C
  BY <1>1, <1>2 DEF KeptScan
<1>a. \A k \in 1..n : s[k] \in Characters
  OBVIOUS
<1>5. \A k \in 1..n :
         f[k] = IF k \in BeforeLineFeeds(s) THEN Append(f[k - 1], s[k]) ELSE f[k - 1]
  BY <1>1, Zenon DEF KeptScan
<1>6. \A k \in 1..n :
         g[k] = IF k \in AfterReturns(s) THEN Append(g[k - 1], s[k]) ELSE g[k - 1]
  BY <1>2, Zenon DEF KeptScan
<1>7. \A k \in 1..n : k \in BeforeLineFeeds(s) <=> ~Paired(k)
  BY DEF BeforeLineFeeds
<1>8. \A k \in 0..n : k < n => (k + 1 \in AfterReturns(s) <=> ~Paired(k))
  BY DEF AfterReturns
<1>9. \A k \in 0..n : Paired(k) => s[k] = "cr" /\ s[k + 1] = "lf" /\ ~Paired(k + 1)
  OBVIOUS
<1>10. ~Paired(n) /\ ~Paired(0)
  BY <1>4
<1>11. f[0] = <<>> /\ g[0] = <<>>
  BY <1>1, <1>2 DEF KeptScan
<1> DEFINE S == {k \in 0..n :
                   Lf(g[k]) = IF Paired(k) THEN Append(Lf(f[k]), "lf") ELSE Lf(f[k])}
<1> HIDE DEF Paired, C, n
<1>12. 0 \in S
  BY <1>4, <1>10, <1>11
<1>13. ASSUME NEW k \in 0..n, k < n, k \in S PROVE k + 1 \in S
  <2>1. k + 1 \in 1..n /\ (k + 1) - 1 = k /\ k + 1 \in 0..n
    BY <1>4, <1>13
  <2> DEFINE c == s[k + 1]
  <2>2. c \in Characters
    BY <2>1, <1>a
  <2>3. f[k] \in C /\ g[k] \in C
    BY <1>4
  <2>4. /\ Lf(Append(f[k], c)) = Append(Lf(f[k]), Char(c))
        /\ Lf(Append(g[k], c)) = Append(Lf(g[k]), Char(c))
    BY <2>2, <2>3, LfAppend DEF C
  <2>5. f[k + 1] = IF Paired(k + 1) THEN f[k] ELSE Append(f[k], c)
    BY <2>1, <1>5, <1>7
  <2>6. g[k + 1] = IF Paired(k) THEN g[k] ELSE Append(g[k], c)
    BY <2>1, <1>6, <1>8, <1>13
  <2>7. Lf(g[k]) = IF Paired(k) THEN Append(Lf(f[k]), "lf") ELSE Lf(f[k])
    BY <1>13
  <2>8. CASE Paired(k)
    <3>1. c = "lf" /\ ~Paired(k + 1)
      BY <2>8, <1>9
    <3>2. Char(c) = "lf"
      BY <3>1 DEF Char
    <3> HIDE DEF c
    <3>3. Lf(g[k + 1]) = Append(Lf(f[k]), "lf")
      BY <2>6, <2>7, <2>8, Zenon
    <3>4. Lf(f[k + 1]) = Append(Lf(f[k]), "lf")
      BY <2>4, <2>5, <3>1, <3>2, Zenon
    <3> QED
      BY <2>1, <3>1, <3>3, <3>4
  <2>9. CASE ~Paired(k) /\ Paired(k + 1)
    <3>1. c = "cr"
      BY <2>1, <2>9, <1>9
    <3>2. Char(c) = "lf"
      BY <3>1 DEF Char
    <3> HIDE DEF c
    <3>3. Lf(g[k + 1]) = Append(Lf(f[k]), "lf")
      BY <2>4, <2>6, <2>7, <2>9, <3>2, Zenon
    <3>4. Lf(f[k + 1]) = Lf(f[k])
      BY <2>5, <2>9, Zenon
    <3> QED
      BY <2>1, <2>9, <3>3, <3>4
  <2>10. CASE ~Paired(k) /\ ~Paired(k + 1)
    <3> HIDE DEF c
    <3>1. Lf(g[k + 1]) = Lf(f[k + 1])
      BY <2>4, <2>5, <2>6, <2>7, <2>10, Zenon
    <3> QED
      BY <2>1, <2>10, <3>1
  <2> QED
    BY <2>8, <2>9, <2>10
<1>14. n \in S
  <2> HIDE DEF S
  <2>1. \A k \in 0..n : k \in S
    BY <1>4, <1>12, <1>13, Induction
  <2> QED
    BY <2>1, <1>4
<1>15. Lf(g[n]) = Lf(f[n])
  BY <1>10, <1>14
<1> QED
  BY <1>3, <1>15

(* c occurs in s.                                                           *)
Has(s, c) == \E i \in 1..Len(s) : s[i] = c

(* What the rest of NormalizeManualInput may rely on about the line ends.   *)
Unixed(u, s) ==
    /\ u \in Seq(Characters)
    /\ Len(u) <= Len(s)
    /\ ~Has(u, "cr")
    /\ ~Has(s, "bad") => ~Has(u, "bad")
    /\ Has(s, "x") <=> Has(u, "x")
    /\ ~Has(s, "cr") => u = s

(* A part of a text is the one a character shorter and that character.      *)
LEMMA OneMore ==
    ASSUME NEW s \in Seq(Characters), NEW a \in 1..Len(s) + 1,
           NEW k \in a..Len(s)
    PROVE  SubSeq(s, a, k) = Append(SubSeq(s, a, k - 1), s[k])
<1> DEFINE y == SubSeq(s, a, k - 1)
           z == SubSeq(s, a, k)
           m == k - a
           c == s[k]
           w == Append(y, c)
<1>1. m \in Nat /\ c \in Characters /\ s[a + (m + 1) - 1] = c
  OBVIOUS
<1>2. y \in Seq(Characters) /\ Len(y) = m /\ \A i \in 1..m : y[i] = s[a + i - 1]
  OBVIOUS
<1>3. z \in Seq(Characters) /\ Len(z) = m + 1 /\ \A i \in 1..m + 1 : z[i] = s[a + i - 1]
  OBVIOUS
<1> HIDE DEF y, z, m, c
<1>4. w \in Seq(Characters) /\ Len(w) = m + 1 /\ w[m + 1] = c /\ \A i \in 1..m : w[i] = y[i]
  BY <1>1, <1>2
<1> HIDE DEF w
<1>5. ASSUME NEW i \in 1..m + 1 PROVE w[i] = s[a + i - 1]
  <2>1. CASE i = m + 1
    <3>1. s[a + i - 1] = c
      BY <1>1, <2>1, Zenon
    <3> QED
      BY <2>1, <3>1, <1>4
  <2>2. CASE i # m + 1
    <3>1. i \in 1..m
      BY <2>2, <1>1
    <3> QED
      BY <1>2, <1>4, <3>1
  <2> QED
    BY <2>1, <2>2
<1>6. z = w
  BY <1>3, <1>4, <1>5
<1> QED
  BY <1>6 DEF y, z, w, c

(* A scan that drops only CRs loses no text and adds none.                  *)
LEMMA KeptAre ==
    ASSUME NEW s \in Seq(Characters), NEW P, NEW f, KeptScan(f, s, P),
           \A k \in 1..Len(s) : k \notin P => s[k] = "cr"
    PROVE  /\ f[Len(s)] \in Seq(Characters) /\ Len(f[Len(s)]) <= Len(s)
           /\ ~Has(s, "bad") => ~Has(f[Len(s)], "bad")
           /\ Has(s, "x") <=> Has(f[Len(s)], "x")
           /\ ~Has(s, "cr") => f[Len(s)] = s
<1> DEFINE n == Len(s)
           Good(t, k) == /\ Len(t) <= k
                         /\ \A i \in 1..Len(t) : \E j \in 1..k : t[i] = s[j]
                         /\ (\E j \in 1..k : s[j] = "x") => \E i \in 1..Len(t) : t[i] = "x"
                         /\ (\A j \in 1..n : s[j] # "cr") => t = SubSeq(s, 1, k)
           S == {k \in 0..n : Good(f[k], k)}
<1>1. n \in Nat /\ (\A k \in 1..n : s[k] \in Characters) /\ n = Len(s)
  OBVIOUS
<1>2. (\A k \in 0..n : f[k] \in Seq(Characters)) /\ f[0] = <<>>
  BY DEF KeptScan
<1>3. \A k \in 1..n : f[k] = IF k \in P THEN Append(f[k - 1], s[k]) ELSE f[k - 1]
  BY Zenon DEF KeptScan
<1>4. \A k \in 1..n : k \notin P => s[k] = "cr"
  OBVIOUS
<1>5. 0 \in S
  <2>1. SubSeq(s, 1, 0) = <<>>
    OBVIOUS
  <2> QED
    BY <2>1, <1>1, <1>2
<1>6. \A k \in 0..n : k < n => SubSeq(s, 1, k + 1) = Append(SubSeq(s, 1, k), s[k + 1])
  <2> SUFFICES ASSUME NEW k \in 0..n, k < n
               PROVE  SubSeq(s, 1, k + 1) = Append(SubSeq(s, 1, k), s[k + 1])
    OBVIOUS
  <2>1. k + 1 \in 1..Len(s) /\ 1 \in 1..Len(s) + 1 /\ (k + 1) - 1 = k
    OBVIOUS
  <2>2. \A m \in 1..Len(s) : SubSeq(s, 1, m) = Append(SubSeq(s, 1, m - 1), s[m])
    BY <2>1, OneMore
  <2> QED
    BY <2>1, <2>2
<1> HIDE DEF n
<1>7. ASSUME NEW k \in 0..n, k < n, k \in S PROVE k + 1 \in S
  <2>1. k + 1 \in 1..n /\ (k + 1) - 1 = k /\ k + 1 \in 0..n /\ k \in Nat
    <3>1. k < n
      BY <1>7
    <3> QED
      BY <1>1, <3>1
  <2> DEFINE c == s[k + 1]
             t == f[k]
             v == f[k + 1]
  <2>2. c \in Characters /\ t \in Seq(Characters) /\ Good(t, k)
    BY <1>1, <1>2, <1>7, <2>1
  <2>3. v = IF k + 1 \in P THEN Append(t, c) ELSE t
    BY <1>3, <2>1
  <2>4. k + 1 \notin P => c = "cr"
    BY <1>4, <2>1
  <2>5. SubSeq(s, 1, k + 1) = Append(SubSeq(s, 1, k), c)
    BY <1>6, <2>1, <1>7
  <2>6. c = s[k + 1]
    OBVIOUS
  <2> HIDE DEF c, t
  <2>7. CASE k + 1 \in P
    <3> DEFINE w == Append(t, c)
    <3>1. v = w
      BY <2>3, <2>7
    <3>2. Len(w) = Len(t) + 1 /\ w[Len(t) + 1] = c /\ Len(t) \in Nat
          /\ \A i \in 1..Len(t) : w[i] = t[i]
      BY <2>2
    <3>3. Len(w) <= k + 1
      BY <2>1, <2>2, <3>2
    <3>4. \A i \in 1..Len(w) : \E j \in 1..k + 1 : w[i] = s[j]
      <4> SUFFICES ASSUME NEW i \in 1..Len(w) PROVE \E j \in 1..k + 1 : w[i] = s[j]
        OBVIOUS
      <4> HIDE DEF w
      <4>1. CASE i = Len(t) + 1
        BY <4>1, <3>2, <2>1, <2>6
      <4>2. CASE i # Len(t) + 1
        <5>1. i \in 1..Len(t)
          BY <4>2, <3>2
        <5>2. PICK j \in 1..k : t[i] = s[j]
          BY <5>1, <2>2
        <5> QED
          BY <5>1, <5>2, <3>2, <2>1
      <4> QED
        BY <4>1, <4>2
    <3>5. (\E j \in 1..k + 1 : s[j] = "x") => \E i \in 1..Len(w) : w[i] = "x"
      <4> SUFFICES ASSUME NEW j \in 1..k + 1, s[j] = "x"
                   PROVE  \E i \in 1..Len(w) : w[i] = "x"
        OBVIOUS
      <4> HIDE DEF w
      <4>1. CASE j = k + 1
        BY <4>1, <3>2, <2>6
      <4>2. CASE j # k + 1
        <5>1. j \in 1..k
          BY <4>2, <2>1
        <5>2. PICK i \in 1..Len(t) : t[i] = "x"
          BY <5>1, <2>2
        <5> QED
          BY <5>2, <3>2
      <4> QED
        BY <4>1, <4>2
    <3>6. (\A j \in 1..n : s[j] # "cr") => w = SubSeq(s, 1, k + 1)
      BY <2>2, <2>5
    <3> HIDE DEF w, v
    <3>7. Good(v, k + 1)
      BY <3>1, <3>3, <3>4, <3>5, <3>6
    <3> QED
      BY <2>1, <3>7 DEF v
  <2>8. CASE k + 1 \notin P
    <3>1. v = t /\ c = "cr"
      BY <2>3, <2>4, <2>8
    <3>2. Len(t) <= k + 1
      BY <2>1, <2>2
    <3>3. \A i \in 1..Len(t) : \E j \in 1..k + 1 : t[i] = s[j]
      BY <2>1, <2>2
    <3>4. (\E j \in 1..k + 1 : s[j] = "x") => \E i \in 1..Len(t) : t[i] = "x"
      <4> SUFFICES ASSUME NEW j \in 1..k + 1, s[j] = "x"
                   PROVE  \E i \in 1..Len(t) : t[i] = "x"
        OBVIOUS
      <4>1. j # k + 1
        BY <3>1, <2>6
      <4>2. j \in 1..k
        BY <4>1, <2>1
      <4> QED
        BY <4>2, <2>2
    <3>5. ~ \A j \in 1..n : s[j] # "cr"
      BY <2>1, <2>6, <3>1
    <3> HIDE DEF v
    <3>6. Good(v, k + 1)
      BY <3>1, <3>2, <3>3, <3>4, <3>5
    <3> QED
      BY <2>1, <3>6 DEF v
  <2> QED
    BY <2>7, <2>8
<1>8. n \in S
  <2> HIDE DEF S
  <2>1. \A k \in 0..n : k \in S
    BY <1>1, <1>5, <1>7, Induction
  <2> QED
    BY <2>1, <1>1
<1>9. SubSeq(s, 1, n) = s
  BY DEF n
<1> DEFINE t == f[n]
<1>10. Good(t, n) /\ t \in Seq(Characters)
  BY <1>1, <1>2, <1>8
<1> HIDE DEF t
<1>11. ~Has(s, "bad") => ~Has(t, "bad")
  BY <1>1, <1>10 DEF Has
<1>12. Has(s, "x") <=> Has(t, "x")
  BY <1>1, <1>10 DEF Has
<1>13. ~Has(s, "cr") => t = s
  BY <1>1, <1>9, <1>10 DEF Has
<1> QED
  BY <1>1, <1>10, <1>11, <1>12, <1>13 DEF t

(* UnixLines is such a text.                                                *)
LEMMA UnixIs ==
    ASSUME NEW s \in Seq(Characters)
    PROVE  Unixed(UnixLines(s), s)
<1> DEFINE P == BeforeLineFeeds(s)
<1>1. PICK f : KeptScan(f, s, P) /\ At(s, P) = f[Len(s)]
  BY AtIs
<1>2. \A k \in 1..Len(s) : k \notin P => s[k] = "cr"
  BY DEF BeforeLineFeeds
<1> DEFINE t == f[Len(s)]
           u == Lf(t)
<1>3. UnixLines(s) = u
  BY <1>1 DEF UnixLines, WithoutCRLF, BeforeLineFeeds, Lf
<1> HIDE DEF P
<1>4. /\ t \in Seq(Characters) /\ Len(t) <= Len(s)
      /\ ~Has(s, "bad") => ~Has(t, "bad")
      /\ Has(s, "x") <=> Has(t, "x")
      /\ ~Has(s, "cr") => t = s
  BY <1>1, <1>2, KeptAre
<1> HIDE DEF t
<1>5. u \in Seq(Characters) /\ Len(u) = Len(t) /\ \A i \in 1..Len(t) : u[i] = Char(t[i])
  BY <1>4, LfIs
<1> HIDE DEF u
<1>6. ~Has(u, "cr")
  BY <1>5 DEF Has, Char
<1>7. ~Has(s, "bad") => ~Has(u, "bad")
  BY <1>4, <1>5 DEF Has, Char
<1>8. Has(s, "x") <=> Has(u, "x")
  BY <1>4, <1>5 DEF Has, Char
<1>9. ~Has(s, "cr") => u = s
  <2> SUFFICES ASSUME ~Has(s, "cr") PROVE u = s
    OBVIOUS
  <2>1. t = s
    BY <1>4
  <2>2. \A i \in 1..Len(s) : u[i] = s[i]
    BY <1>5, <2>1 DEF Has, Char
  <2> QED
    BY <1>5, <2>1, <2>2
<1> QED
  BY <1>3, <1>4, <1>5, <1>6, <1>7, <1>8, <1>9 DEF Unixed

-----------------------------------------------------------------------------
(* Lines.                                                                   *)

(* L are the lines of the first k characters of s, and c the places of the  *)
(* line feeds around them: line j lies strictly between c[j] and c[j + 1].  *)
Cuts(c, L, s, k) ==
    /\ L \in Seq(Seq(Characters)) /\ Len(L) >= 1
    /\ c \in [1..Len(L) + 1 -> 0..k + 1]
    /\ c[1] = 0 /\ c[Len(L) + 1] = k + 1
    /\ \A j \in 1..Len(L) : c[j] < c[j + 1] /\ L[j] = SubSeq(s, c[j] + 1, c[j + 1] - 1)
    /\ \A j \in 1..Len(L) : \A i \in c[j] + 1..c[j + 1] - 1 : s[i] # "lf"
    /\ \A j \in 2..Len(L) : s[c[j]] = "lf"

(* A line feed ends a line and begins an empty one.                         *)
LEMMA CutHere ==
    ASSUME NEW s \in Seq(Characters), NEW k \in 0..Len(s), k < Len(s), s[k + 1] = "lf",
           NEW L, NEW c, Cuts(c, L, s, k)
    PROVE  \E d : Cuts(d, Append(L, <<>>), s, k + 1)
<1> DEFINE m == Len(L)
           M == Append(L, <<>>)
           d == [j \in 1..m + 2 |-> IF j = m + 2 THEN k + 2 ELSE c[j]]
           T == Seq(Characters)
<1>1. m \in Nat /\ m >= 1 /\ L \in Seq(T) /\ <<>> \in T /\ k \in Nat
  BY DEF Cuts
<1>2. c \in [1..m + 1 -> 0..k + 1] /\ c[1] = 0 /\ c[m + 1] = k + 1
  BY DEF Cuts
<1>3. \A j \in 1..m : c[j] < c[j + 1] /\ L[j] = SubSeq(s, c[j] + 1, c[j + 1] - 1)
  BY DEF Cuts
<1>4. \A j \in 1..m : \A i \in c[j] + 1..c[j + 1] - 1 : s[i] # "lf"
  BY DEF Cuts
<1>5. \A j \in 2..m : s[c[j]] = "lf"
  BY DEF Cuts
<1> HIDE DEF T
<1>6. /\ M \in Seq(T) /\ Len(M) = m + 1 /\ M[m + 1] = <<>>
      /\ \A j \in 1..m : M[j] = L[j]
  BY <1>1
<1>7. SubSeq(s, k + 2, k + 1) = <<>>
  OBVIOUS
<1> HIDE DEF m, M
<1>8. d \in [1..m + 2 -> 0..k + 2]
  BY <1>1, <1>2
<1>9. d[m + 2] = k + 2 /\ (\A j \in 1..m + 1 : d[j] = c[j]) /\ d[m + 1] = k + 1 /\ d[1] = 0
  BY <1>1, <1>2
<1> HIDE DEF d
<1>10. ASSUME NEW j \in 1..m + 1
       PROVE  /\ d[j] < d[j + 1] /\ M[j] = SubSeq(s, d[j] + 1, d[j + 1] - 1)
              /\ \A i \in d[j] + 1..d[j + 1] - 1 : s[i] # "lf"
  <2>1. CASE j = m + 1
    <3>1. d[j] = k + 1 /\ d[j + 1] = k + 2 /\ M[j] = <<>>
      <4>1. (m + 1) + 1 = m + 2
        BY <1>1
      <4> QED
        BY <2>1, <1>6, <1>9, <4>1
    <3>2. d[j] + 1 = k + 2 /\ d[j + 1] - 1 = k + 1 /\ d[j] < d[j + 1]
      BY <3>1, <1>1
    <3>3. M[j] = SubSeq(s, d[j] + 1, d[j + 1] - 1)
      BY <3>1, <3>2, <1>7, Zenon
    <3> QED
      BY <3>2, <3>3, <1>1
  <2>2. CASE j # m + 1
    <3>1. j \in 1..m /\ j \in 1..m + 1 /\ j + 1 \in 1..m + 1
      BY <2>2, <1>1
    <3>2. d[j] = c[j] /\ d[j + 1] = c[j + 1] /\ M[j] = L[j]
      BY <3>1, <1>6, <1>9
    <3> QED
      BY <3>1, <3>2, <1>3, <1>4
  <2> QED
    BY <2>1, <2>2
<1>11. ASSUME NEW j \in 2..m + 1 PROVE s[d[j]] = "lf"
  <2>1. CASE j = m + 1
    BY <2>1, <1>9
  <2>2. CASE j # m + 1
    <3>1. j \in 2..m /\ j \in 1..m + 1
      BY <2>2, <1>1
    <3> QED
      BY <3>1, <1>5, <1>9
  <2> QED
    BY <2>1, <2>2
<1>12. (m + 1) + 1 = m + 2 /\ (k + 1) + 1 = k + 2 /\ m + 1 >= 1
  BY <1>1
<1> SUFFICES Cuts(d, M, s, k + 1)
  BY DEF M
<1>13. \A j \in 1..m + 1 : d[j] < d[j + 1] /\ M[j] = SubSeq(s, d[j] + 1, d[j + 1] - 1)
  BY <1>10, Zenon
<1>14. \A j \in 1..m + 1 : \A i \in d[j] + 1..d[j + 1] - 1 : s[i] # "lf"
  BY <1>10, Zenon
<1> QED
  BY <1>6, <1>8, <1>9, <1>11, <1>12, <1>13, <1>14, Zenon DEF Cuts, T

(* Another character lengthens the last line.                               *)
LEMMA CutLater ==
    ASSUME NEW s \in Seq(Characters), NEW k \in 0..Len(s), k < Len(s), s[k + 1] # "lf",
           NEW L, NEW c, Cuts(c, L, s, k)
    PROVE  \E d : Cuts(d, [L EXCEPT ![Len(L)] = Append(@, s[k + 1])], s, k + 1)
<1> DEFINE m == Len(L)
           M == [L EXCEPT ![Len(L)] = Append(@, s[k + 1])]
           d == [j \in 1..m + 1 |-> IF j = m + 1 THEN k + 2 ELSE c[j]]
           T == Seq(Characters)
<1>1. m \in Nat /\ m >= 1 /\ L \in Seq(T) /\ k \in Nat /\ m \in 1..m
  BY DEF Cuts
<1>2. c \in [1..m + 1 -> 0..k + 1] /\ c[1] = 0 /\ c[m + 1] = k + 1
  BY DEF Cuts
<1>3. \A j \in 1..m : c[j] < c[j + 1] /\ L[j] = SubSeq(s, c[j] + 1, c[j + 1] - 1)
  BY DEF Cuts
<1>4. \A j \in 1..m : \A i \in c[j] + 1..c[j + 1] - 1 : s[i] # "lf"
  BY DEF Cuts
<1>5. \A j \in 2..m : s[c[j]] = "lf"
  BY DEF Cuts
<1>a. s[k + 1] \in Characters /\ s[k + 1] # "lf"
  OBVIOUS
<1>b. Append(L[m], s[k + 1]) \in T
  <2>1. L[m] \in T
    BY <1>1
  <2> QED
    BY <2>1, <1>a
<1>c. L \in [1..m -> T]
  BY <1>1
<1>6. /\ M[m] = Append(L[m], s[k + 1])
      /\ \A j \in 1..m : j # m => M[j] = L[j]
  BY <1>1, <1>c
<1>d. M \in Seq(T) /\ Len(M) = m
  <2> HIDE DEF T
  <2>1. M \in [1..m -> T]
    BY <1>b, <1>c, <1>1
  <2> HIDE DEF M, m
  <2> QED
    BY <2>1, <1>1, IsSequence
<1>e. c[m] \in 0..k + 1 /\ c[m] < k + 1
  <2>1. c[m] < c[m + 1]
    BY <1>1, <1>3, Zenon
  <2>2. m \in 1..m + 1
    BY <1>1
  <2> QED
    BY <1>2, <2>1, <2>2
<1>7. M[m] = SubSeq(s, c[m] + 1, k + 1)
  <2>1. L[m] = SubSeq(s, c[m] + 1, k)
    <3>1. L[m] = SubSeq(s, c[m] + 1, c[m + 1] - 1)
      BY <1>1, <1>3
    <3>2. c[m + 1] - 1 = k
      BY <1>1, <1>2
    <3> QED
      BY <3>1, <3>2, Zenon
  <2>2. c[m] + 1 \in 1..Len(s) + 1 /\ k + 1 \in c[m] + 1..Len(s) /\ (k + 1) - 1 = k
    BY <1>1, <1>e
  <2>3. SubSeq(s, c[m] + 1, k + 1) = Append(SubSeq(s, c[m] + 1, (k + 1) - 1), s[k + 1])
    BY <2>2, OneMore, Zenon
  <2> QED
    BY <2>1, <2>2, <2>3, <1>6, Zenon
<1> HIDE DEF m, M
<1>8. d \in [1..m + 1 -> 0..k + 2]
  BY <1>1, <1>2
<1>9. d[m + 1] = k + 2 /\ (\A j \in 1..m : d[j] = c[j]) /\ d[1] = 0
  BY <1>1, <1>2
<1> HIDE DEF d
<1>10. ASSUME NEW j \in 1..m
       PROVE  /\ d[j] < d[j + 1] /\ M[j] = SubSeq(s, d[j] + 1, d[j + 1] - 1)
              /\ \A i \in d[j] + 1..d[j + 1] - 1 : s[i] # "lf"
  <2>1. CASE j = m
    <3>1. d[j] = c[m] /\ d[j + 1] = k + 2
      BY <2>1, <1>9, <1>1
    <3>2. d[j + 1] - 1 = k + 1 /\ d[j] < d[j + 1] /\ d[j] + 1 = c[m] + 1
      BY <3>1, <1>1, <1>e
    <3>3. M[j] = SubSeq(s, d[j] + 1, d[j + 1] - 1)
      BY <2>1, <3>2, <1>7, Zenon
    <3>4. ASSUME NEW i \in d[j] + 1..d[j + 1] - 1 PROVE s[i] # "lf"
      <4>1. i \in c[m] + 1..k + 1
        BY <3>2, <3>4
      <4>2. i = k + 1 \/ i \in c[m] + 1..c[m + 1] - 1
        BY <4>1, <1>1, <1>2, <1>e
      <4> QED
        BY <4>2, <1>a, <1>1, <1>4
    <3> QED
      BY <3>2, <3>3, <3>4
  <2>2. CASE j # m
    <3>1. j + 1 \in 1..m
      BY <2>2, <1>1
    <3>2. d[j] = c[j] /\ d[j + 1] = c[j + 1] /\ M[j] = L[j]
      BY <2>2, <3>1, <1>6, <1>9
    <3> QED
      BY <3>1, <3>2, <1>3, <1>4
  <2> QED
    BY <2>1, <2>2
<1>11. ASSUME NEW j \in 2..m PROVE s[d[j]] = "lf"
  <2>1. j \in 1..m
    BY <1>1
  <2> QED
    BY <2>1, <1>5, <1>9
<1>12. (k + 1) + 1 = k + 2
  BY <1>1
<1> SUFFICES Cuts(d, M, s, k + 1)
  BY DEF M
<1>13. \A j \in 1..m : d[j] < d[j + 1] /\ M[j] = SubSeq(s, d[j] + 1, d[j + 1] - 1)
  BY <1>10, Zenon
<1>14. \A j \in 1..m : \A i \in d[j] + 1..d[j + 1] - 1 : s[i] # "lf"
  BY <1>10, Zenon
<1> QED
  BY <1>1, <1>d, <1>8, <1>9, <1>11, <1>12, <1>13, <1>14, Zenon DEF Cuts, T

(* strings.Split cuts a text at its line feeds.                             *)
LEMMA SplitCuts ==
    ASSUME NEW s \in Seq(Characters)
    PROVE  \E c : Cuts(c, Split(s), s, Len(s))
<1> DEFINE n == Len(s)
<1>1. PICK f : LinesScan(f, s) /\ Split(s) = f[n]
  BY SplitIs
<1> DEFINE S == {k \in 0..n : \E c : Cuts(c, f[k], s, k)}
<1>2. n \in Nat /\ n = Len(s)
  OBVIOUS
<1>3. 0 \in S
  <2> DEFINE L == << <<>> >>
             c == [j \in 1..2 |-> IF j = 1 THEN 0 ELSE 1]
  <2>1. L \in Seq(Seq(Characters)) /\ Len(L) = 1 /\ L[1] = <<>>
    OBVIOUS
  <2>2. SubSeq(s, 1, 0) = <<>>
    OBVIOUS
  <2>3. c \in [1..2 -> 0..1] /\ c[1] = 0 /\ c[2] = 1
    OBVIOUS
  <2> HIDE DEF c
  <2>4. f[0] = L
    BY <1>1 DEF LinesScan
  <2> HIDE DEF L
  <2>5. Cuts(c, L, s, 0)
    BY <2>1, <2>2, <2>3 DEF Cuts
  <2> QED
    BY <1>2, <2>4, <2>5
<1>4. \A k \in 1..n : f[k] = IF s[k] = "lf" THEN Append(f[k - 1], <<>>)
                ELSE [f[k - 1] EXCEPT ![Len(f[k - 1])] = Append(@, s[k])]
  BY <1>1, Zenon DEF LinesScan
<1>5. ASSUME NEW k \in 0..n, k < n, k \in S PROVE k + 1 \in S
  <2>1. k + 1 \in 1..n /\ (k + 1) - 1 = k /\ k + 1 \in 0..n
    <3>1. k < n
      BY <1>5
    <3> QED
      BY <1>2, <3>1
  <2>2. PICK c : Cuts(c, f[k], s, k)
    BY <1>5
  <2>3. f[k + 1] = IF s[k + 1] = "lf" THEN Append(f[k], <<>>)
                   ELSE [f[k] EXCEPT ![Len(f[k])] = Append(@, s[k + 1])]
    <3>1. f[k + 1] = IF s[k + 1] = "lf" THEN Append(f[(k + 1) - 1], <<>>)
                   ELSE [f[(k + 1) - 1] EXCEPT ![Len(f[(k + 1) - 1])] = Append(@, s[k + 1])]
      BY <1>4, <2>1, Zenon
    <3> QED
      BY <3>1, <2>1, Zenon
  <2>4. k \in 0..Len(s) /\ k < Len(s)
    BY <1>2, <1>5, Zenon
  <2> HIDE DEF n
  <2>5. CASE s[k + 1] = "lf"
    <3>1. \E d : Cuts(d, Append(f[k], <<>>), s, k + 1)
      BY <2>2, <2>4, <2>5, CutHere, Zenon
    <3>2. f[k + 1] = Append(f[k], <<>>)
      BY <2>3, <2>5, Zenon
    <3>3. \E d : Cuts(d, f[k + 1], s, k + 1)
      BY <3>1, <3>2, Zenon
    <3> QED
      BY <2>1, <3>3
  <2>6. CASE s[k + 1] # "lf"
    <3>1. \E d : Cuts(d, [f[k] EXCEPT ![Len(f[k])] = Append(@, s[k + 1])], s, k + 1)
      BY <2>2, <2>4, <2>6, CutLater, Zenon
    <3>2. f[k + 1] = [f[k] EXCEPT ![Len(f[k])] = Append(@, s[k + 1])]
      BY <2>3, <2>6, Zenon
    <3>3. \E d : Cuts(d, f[k + 1], s, k + 1)
      BY <3>1, <3>2, Zenon
    <3> QED
      BY <2>1, <3>3
  <2> QED
    BY <2>5, <2>6
<1>6. n \in S
  <2> HIDE DEF S, n
  <2>1. \A k \in 0..n : k \in S
    BY <1>2, <1>3, <1>5, Induction
  <2> QED
    BY <2>1, <1>2
<1> QED
  BY <1>1, <1>6

(* The places ascend.                                                       *)
LEMMA CutsAscend ==
    ASSUME NEW s, NEW k \in Nat, NEW L, NEW c, Cuts(c, L, s, k)
    PROVE  \A a, b \in 1..Len(L) + 1 : a < b => c[a] < c[b]
<1> DEFINE m == Len(L)
           S == {i \in 0..m : \A a \in 1..i : c[a] < c[i + 1]}
<1>1. m \in Nat
  BY DEF Cuts
<1>2. \A j \in 1..m : c[j] < c[j + 1]
  BY Zenon DEF Cuts
<1>a. \A j \in 1..m + 1 : c[j] \in Nat
  <2>1. c \in [1..m + 1 -> 0..k + 1]
    BY Zenon DEF Cuts
  <2> HIDE DEF m
  <2> QED
    BY <2>1
<1> HIDE DEF m
<1>3. 0 \in S
  BY <1>1
<1>4. ASSUME NEW i \in 0..m, i < m, i \in S PROVE i + 1 \in S
  <2>1. i + 1 \in 1..m /\ i + 1 \in 0..m /\ i + 1 \in 1..m + 1 /\ (i + 1) + 1 \in 1..m + 1
    BY <1>1, <1>4
  <2>2. c[i + 1] < c[(i + 1) + 1]
    BY <1>2, <2>1
  <2>3. ASSUME NEW a \in 1..i + 1 PROVE c[a] < c[(i + 1) + 1]
    <3>1. CASE a = i + 1
      BY <2>2, <3>1
    <3>2. CASE a # i + 1
      <4>1. a \in 1..i /\ a \in 1..m + 1
        BY <3>2, <1>1
      <4>2. c[a] < c[i + 1]
        BY <4>1, <1>4
      <4>3. c[a] \in Nat /\ c[i + 1] \in Nat /\ c[(i + 1) + 1] \in Nat
        BY <4>1, <2>1, <1>a
      <4> HIDE DEF S
      <4> QED
        BY <4>2, <4>3, <2>2
    <3> QED
      BY <3>1, <3>2
  <2> QED
    BY <2>1, <2>3
<1>5. \A i \in 0..m : i \in S
  <2> HIDE DEF S
  <2> QED
    BY <1>1, <1>3, <1>4, Induction
<1>6. ASSUME NEW a \in 1..m + 1, NEW b \in 1..m + 1, a < b PROVE c[a] < c[b]
  <2>1. b - 1 \in 0..m /\ a \in 1..b - 1 /\ (b - 1) + 1 = b
    BY <1>1, <1>6
  <2>2. b - 1 \in S
    BY <1>5, <2>1
  <2> QED
    BY <2>1, <2>2
<1> QED
  BY <1>6 DEF m

(* Two parts of a text around a line feed, joined by one, are the part they *)
(* lie in.                                                                  *)
LEMMA Glue ==
    ASSUME NEW s \in Seq(Characters), NEW j \in 1..Len(s), NEW i \in 1..j,
           NEW q \in j..Len(s), s[j] = "lf"
    PROVE  SubSeq(s, i, j - 1) \o <<"lf">> \o SubSeq(s, j + 1, q) = SubSeq(s, i, q)
<1> DEFINE y == SubSeq(s, i, j - 1)
           z == SubSeq(s, j + 1, q)
           w == SubSeq(s, i, q)
           e == s[j]
           m == j - i
           p == q - j
           x == Append(y, e)
           v == x \o z
<1>1. m \in Nat /\ p \in Nat /\ e \in Characters /\ i + (m + 1) - 1 = j
  OBVIOUS
<1>2. y \in Seq(Characters) /\ Len(y) = m /\ \A r \in 1..m : y[r] = s[i + r - 1]
  OBVIOUS
<1>3. z \in Seq(Characters) /\ Len(z) = p /\ \A r \in 1..p : z[r] = s[j + r]
  OBVIOUS
<1>4. /\ w \in Seq(Characters) /\ Len(w) = m + 1 + p
      /\ \A r \in 1..m + 1 + p : w[r] = s[i + r - 1]
  OBVIOUS
<1>5. \A r \in 1..p : i + (m + 1 + r) - 1 = j + r
  OBVIOUS
<1>6. e = s[j]
  OBVIOUS
<1> HIDE DEF y, z, w, e, m, p
<1>7. y \o <<e>> = x
  BY <1>1, <1>2
<1>8. x \in Seq(Characters) /\ Len(x) = m + 1 /\ x[m + 1] = e /\ \A r \in 1..m : x[r] = y[r]
  BY <1>1, <1>2
<1> HIDE DEF x
<1>9. v \in Seq(Characters) /\ Len(v) = m + 1 + p
      /\ (\A r \in 1..m + 1 : v[r] = x[r]) /\ \A r \in 1..p : v[m + 1 + r] = z[r]
  <2>1. x \in Seq(Characters) /\ z \in Seq(Characters)
    BY <1>3, <1>8
  <2>2. v \in Seq(Characters) /\ Len(v) = Len(x) + Len(z)
    BY <2>1
  <2>3. \A r \in 1..Len(x) : v[r] = x[r]
    BY <2>1
  <2>4. \A r \in 1..Len(z) : v[Len(x) + r] = z[r]
    BY <2>1
  <2> HIDE DEF v
  <2> QED
    BY <2>2, <2>3, <2>4, <1>3, <1>8, Zenon
<1> HIDE DEF v
<1>10. ASSUME NEW r \in 1..m + 1 + p PROVE v[r] = w[r]
  <2>1. CASE r \in 1..m
    <3>1. r \in 1..m + 1
      BY <2>1, <1>1
    <3> QED
      BY <2>1, <3>1, <1>2, <1>4, <1>8, <1>9
  <2>2. CASE r = m + 1
    <3>1. r \in 1..m + 1
      BY <2>2, <1>1
    <3>2. w[r] = s[j]
      <4>1. w[r] = s[i + r - 1]
        BY <1>4, Zenon
      <4> QED
        BY <4>1, <2>2, <1>1, Zenon
    <3> QED
      BY <2>2, <3>1, <3>2, <1>6, <1>8, <1>9
  <2>3. CASE ~(r \in 1..m + 1)
    <3> DEFINE g == r - (m + 1)
    <3>1. g \in 1..p /\ r = m + 1 + g
      BY <2>3, <1>1
    <3> HIDE DEF g
    <3>2. v[r] = s[j + g]
      BY <3>1, <1>3, <1>9
    <3>3. w[r] = s[i + (m + 1 + g) - 1]
      BY <3>1, <1>4
    <3> QED
      BY <3>1, <3>2, <3>3, <1>5, Zenon
  <2>4. r \in 1..m \/ r = m + 1 \/ ~(r \in 1..m + 1)
    BY <1>1
  <2> QED
    BY <2>1, <2>2, <2>3, <2>4
<1>11. v = w
  BY <1>4, <1>9, <1>10
<1>12. (y \o <<e>>) \o z = w
  BY <1>7, <1>11 DEF v
<1> QED
  BY <1>12 DEF y, z, w, e

(* strings.Join of neighbouring lines is the part of the text from the      *)
(* first to the last of them.                                               *)
LEMMA JoinCuts ==
    ASSUME NEW s \in Seq(Characters), NEW L, NEW c, Cuts(c, L, s, Len(s)),
           NEW a \in 1..Len(L), NEW b \in a..Len(L)
    PROVE  Join(SubSeq(L, a, b)) = SubSeq(s, c[a] + 1, c[b + 1] - 1)
<1> DEFINE m == Len(L)
           J == SubSeq(L, a, b)
           n == (b - a) + 1
           part(k) == SubSeq(s, c[a] + 1, c[a + k] - 1)
<1>1. m \in Nat /\ L \in Seq(Seq(Characters)) /\ Len(s) \in Nat
  BY DEF Cuts
<1>2. /\ n \in Nat /\ n >= 1 /\ a + n = b + 1
      /\ \A k \in 1..n : a + k - 1 \in 1..m /\ a + k \in 1..m + 1
  BY <1>1
<1>3. J \in Seq(Seq(Characters)) /\ Len(J) = n /\ \A k \in 1..n : J[k] = L[a + k - 1]
  BY <1>1
<1>4. c[m + 1] = Len(s) + 1 /\ (\A j \in 1..m + 1 : c[j] \in 0..Len(s) + 1)
      /\ (\A j \in 1..m : L[j] = SubSeq(s, c[j] + 1, c[j + 1] - 1))
      /\ (\A j \in 2..m : s[c[j]] = "lf")
  <2>1. c \in [1..m + 1 -> 0..Len(s) + 1]
    BY Zenon DEF Cuts
  <2>2. \A j \in 1..m + 1 : c[j] \in 0..Len(s) + 1
    <3> HIDE DEF m
    <3> QED
      BY <2>1
  <2> QED
    BY <2>2, Zenon DEF Cuts
<1>5. \A i, j \in 1..m + 1 : i < j => c[i] < c[j]
  BY <1>1, CutsAscend, Zenon
<1>6. PICK f : JoinScan(f, J) /\ Join(J) = f[n]
  <2>1. \E f : JoinScan(f, J) /\ Join(J) = f[Len(J)]
    <3> HIDE DEF J
    <3> QED
      BY <1>3, JoinIs, Zenon
  <2> QED
    BY <2>1, <1>3, Zenon
<1> DEFINE G == {k \in 0..n : k >= 1 => f[k] = part(k)}
<1>7. \A k \in 1..n : f[k] = IF k = 1 THEN J[1] ELSE f[k - 1] \o <<"lf">> \o J[k]
  <2>1. \A k \in 1..Len(J) : f[k] = IF k = 1 THEN J[1] ELSE f[k - 1] \o <<"lf">> \o J[k]
    BY <1>6, Zenon DEF JoinScan
  <2> QED
    BY <2>1, <1>3, Zenon
<1>8. a \in 1..m /\ a \in 1..m + 1
  OBVIOUS
<1> HIDE DEF m, n, J
<1>9. 0 \in G
  BY <1>2
<1>10. ASSUME NEW k \in 0..n, k < n, k \in G PROVE k + 1 \in G
  <2>0. k < n
    BY <1>10, Zenon
  <2>1. k + 1 \in 1..n /\ (k + 1) - 1 = k /\ k + 1 \in 0..n /\ k \in Nat
    BY <1>2, <2>0
  <2>2. J[k + 1] = SubSeq(s, c[a + k] + 1, c[a + (k + 1)] - 1)
    <3>1. J[k + 1] = L[a + (k + 1) - 1] /\ a + (k + 1) - 1 \in 1..m
      BY <2>1, <1>2, <1>3, Zenon
    <3>2. a + (k + 1) - 1 = a + k /\ (a + k) + 1 = a + (k + 1)
      BY <1>8, <2>1
    <3>3. L[a + k] = SubSeq(s, c[a + k] + 1, c[(a + k) + 1] - 1)
      BY <3>1, <3>2, <1>4, Zenon
    <3> QED
      BY <3>1, <3>2, <3>3, Zenon
  <2>3. CASE k = 0
    <3>1. f[k + 1] = J[k + 1]
      BY <2>1, <2>3, <1>7
    <3>2. a + k = a
      BY <2>3, <1>8
    <3>3. f[k + 1] = part(k + 1)
      BY <3>1, <3>2, <2>2, Zenon
    <3> QED
      BY <2>1, <3>3
  <2>4. CASE k >= 1
    <3>1. f[k] = part(k)
      BY <1>10, <2>4
    <3>2. f[k + 1] = f[k] \o <<"lf">> \o J[k + 1]
      <4>1. k + 1 # 1
        BY <2>1, <2>4
      <4>2. f[k + 1] = f[(k + 1) - 1] \o <<"lf">> \o J[k + 1]
        BY <4>1, <2>1, <1>7, Zenon
      <4> QED
        BY <4>2, <2>1, Zenon
    <3> DEFINE j == c[a + k]
               i == c[a] + 1
               q == c[a + (k + 1)] - 1
    <3>3. a + k \in 2..m /\ a + k \in 1..m + 1 /\ a + (k + 1) \in 1..m + 1
          /\ a < a + k /\ a + k < a + (k + 1)
      <4>1. a + (k + 1) \in 1..m + 1
        BY <2>1, <1>2, Zenon
      <4> QED
        BY <4>1, <2>1, <2>4, <1>1, <1>8
    <3>4. c[a] < j /\ j < c[a + (k + 1)] /\ s[j] = "lf"
      BY <3>3, <1>4, <1>5, <1>8, Zenon
    <3>5. c[a] \in 0..Len(s) + 1 /\ j \in 0..Len(s) + 1 /\ c[a + (k + 1)] \in 0..Len(s) + 1
      BY <3>3, <1>4, <1>8, Zenon
    <3>6. j \in 1..Len(s) /\ i \in 1..j /\ q \in j..Len(s)
      <4> DEFINE y == c[a]
                 z == c[a + (k + 1)]
                 l == Len(s)
      <4>1. /\ y < j /\ j < z /\ l \in Nat
            /\ y \in 0..l + 1 /\ j \in 0..l + 1 /\ z \in 0..l + 1
        BY <3>4, <3>5, <1>1, Zenon
      <4> HIDE DEF y, j, z, l
      <4>2. j \in 1..l /\ y + 1 \in 1..j /\ z - 1 \in j..l
        BY <4>1
      <4> QED
        BY <4>2 DEF y, z, l
    <3>7. SubSeq(s, i, j - 1) \o <<"lf">> \o SubSeq(s, j + 1, q) = SubSeq(s, i, q)
      <4> HIDE DEF i, j, q
      <4> QED
        BY <3>4, <3>6, Glue, Zenon
    <3>8. f[k + 1] = part(k + 1)
      BY <3>1, <3>2, <3>7, <2>2, Zenon
    <3> QED
      BY <2>1, <3>8
  <2>5. k = 0 \/ k >= 1
    BY <2>1
  <2> QED
    BY <2>3, <2>4, <2>5
<1>11. n \in G
  <2> HIDE DEF G
  <2>1. \A k \in 0..n : k \in G
    BY <1>2, <1>9, <1>10, Induction
  <2> QED
    BY <2>1, <1>2
<1>12. f[n] = part(n)
  BY <1>2, <1>11
<1>13. f[n] = SubSeq(s, c[a] + 1, c[b + 1] - 1)
  BY <1>2, <1>12, Zenon
<1> QED
  BY <1>6, <1>13, Zenon DEF J

-----------------------------------------------------------------------------
(* The first and the last line.                                             *)

(* A nonempty set of numbers has a least one, Min.                          *)
LEMMA Least ==
    ASSUME NEW S, S \subseteq Nat, S # {}
    PROVE  Min(S) \in S /\ \A y \in S : Min(S) <= y
<1>1. IsWellFoundedOn(OpToRel(<, Nat), Nat)
  BY NatLessThanWellFounded
<1>2. PICK i \in S : \A j \in S : ~(<<j, i>> \in OpToRel(<, Nat))
  BY <1>1, WFMin
<1>3. \A j \in S : ~(j < i)
  BY <1>2 DEF OpToRel
<1>4. \A j \in S : i <= j
  BY <1>3
<1> QED
  BY <1>4 DEF Min

(* A nonempty bounded set of numbers has a greatest one, Max.               *)
LEMMA Greatest ==
    ASSUME NEW n \in Nat, NEW S, S \subseteq 0..n, S # {}
    PROVE  Max(S) \in S /\ \A y \in S : Max(S) >= y
<1> DEFINE R == {n - i : i \in S}
           m == Min(R)
<1>1. R \subseteq Nat /\ R # {}
  <2>1. PICK i : i \in S
    OBVIOUS
  <2>2. n - i \in R
    BY <2>1
  <2>3. \A j \in S : n - j \in Nat
    OBVIOUS
  <2>4. R \subseteq Nat
    BY <2>3, Zenon
  <2> HIDE DEF R
  <2> QED
    BY <2>2, <2>4
<1>2. m \in R /\ \A y \in R : m <= y
  <2> HIDE DEF R
  <2> QED
    BY <1>1, Least
<1>3. PICK i \in S : m = n - i
  BY <1>2
<1> HIDE DEF m
<1>4. \A j \in S : n - i <= n - j
  BY <1>2, <1>3
<1>5. \A j \in S : i >= j
  BY <1>4
<1> QED
  BY <1>5 DEF Max

(* A least member is Min,                                                   *)
LEMMA LeastIs ==
    ASSUME NEW S, S \subseteq Nat, NEW m \in S, \A y \in S : m <= y
    PROVE  Min(S) = m
<1>1. \A x \in S : (\A y \in S : x <= y) => x = m
  OBVIOUS
<1> QED
  BY <1>1 DEF Min

(* ... and a greatest one is Max.                                           *)
LEMMA GreatestIs ==
    ASSUME NEW S, S \subseteq Nat, NEW m \in S, \A y \in S : m >= y
    PROVE  Max(S) = m
<1>1. \A x \in S : (\A y \in S : x >= y) => x = m
  OBVIOUS
<1> QED
  BY <1>1 DEF Max

(* The names that Wanted gives to places of a text.                         *)
Ends(t) == {i \in DOMAIN t : t[i] = "lf"}
Seen(t) == {i \in DOMAIN t : t[i] = "x"}
StartOf(t) == Max({0} \cup {i \in Ends(t) : i < Min(Seen(t))})
EndOf(t) == Min({Len(t) + 1} \cup {i \in Ends(t) : i > Max(Seen(t))})

(* p and q are the first and the last place where t is visible, and no line *)
(* feed lies between f and p or between q and l.                            *)
Middle(t, p, q, f, l) ==
    /\ p \in 1..Len(t) /\ q \in p..Len(t) /\ f \in 0..p - 1 /\ l \in q + 1..Len(t) + 1
    /\ t[p] = "x" /\ t[q] = "x"
    /\ \A i \in 1..Len(t) : t[i] = "x" => p <= i /\ i <= q
    /\ \A i \in 1..Len(t) : (f < i /\ i < p) \/ (q < i /\ i < l) => t[i] # "lf"

(* Everything visible lies between the least and the greatest such place.   *)
LEMMA SeenBetween ==
    ASSUME NEW t \in Seq(Characters), Has(t, "x")
    PROVE  /\ Min(Seen(t)) \in Seen(t) /\ Max(Seen(t)) \in Seen(t)
           /\ \A i \in Seen(t) : Min(Seen(t)) <= i /\ i <= Max(Seen(t))
<1> DEFINE n == Len(t)
           S == Seen(t)
<1>1. n \in Nat /\ S \subseteq Nat /\ S \subseteq 0..n /\ S # {}
  BY DEF Seen, Has
<1> HIDE DEF n, S
<1>2. Min(S) \in S /\ \A i \in S : Min(S) <= i
  BY <1>1, Least, Zenon
<1>3. Max(S) \in S /\ \A i \in S : Max(S) >= i
  BY <1>1, Greatest, Zenon
<1>4. \A i \in S : i <= Max(S)
  BY <1>1, <1>3
<1> QED
  BY <1>2, <1>3, <1>4 DEF S

(* StartOf and EndOf enclose the lines from the first visible one to the    *)
(* last.                                                                    *)
LEMMA MiddleOf ==
    ASSUME NEW t \in Seq(Characters), Has(t, "x")
    PROVE  Middle(t, Min(Seen(t)), Max(Seen(t)), StartOf(t), EndOf(t))
<1> DEFINE n == Len(t)
           p == Min(Seen(t))
           q == Max(Seen(t))
           A == {0} \cup {i \in Ends(t) : i < p}
           B == {n + 1} \cup {i \in Ends(t) : i > q}
           f == StartOf(t)
           l == EndOf(t)
<1>1. p \in Seen(t) /\ q \in Seen(t) /\ \A i \in Seen(t) : p <= i /\ i <= q
  BY SeenBetween
<1> HIDE DEF p, q
<1>2. n \in Nat /\ p \in 1..n /\ q \in p..n /\ t[p] = "x" /\ t[q] = "x"
      /\ \A i \in 1..n : t[i] = "x" => p <= i /\ i <= q
  <2>1. Seen(t) = {i \in 1..n : t[i] = "x"}
    BY DEF Seen
  <2> QED
    BY <1>1, <2>1
<1>3. Ends(t) = {i \in 1..n : t[i] = "lf"}
  BY DEF Ends
<1>4. f = Max(A) /\ l = Min(B)
  BY Zenon DEF StartOf, EndOf, p, q
<1>5. A \subseteq 0..n /\ A # {} /\ B \subseteq Nat /\ B # {}
  BY <1>2, <1>3
<1>6. f \in A /\ \A i \in A : f >= i
  <2> HIDE DEF A, f, n
  <2> QED
    BY <1>2, <1>4, <1>5, Greatest
<1>7. l \in B /\ \A i \in B : l <= i
  <2> HIDE DEF B, l, n
  <2> QED
    BY <1>4, <1>5, Least
<1> HIDE DEF f, l, n
<1>8. f \in 0..p - 1
  BY <1>2, <1>3, <1>6
<1>9. l \in q + 1..n + 1
  BY <1>2, <1>3, <1>7
<1>10. ASSUME NEW i \in 1..n, f < i /\ i < p PROVE t[i] # "lf"
  BY <1>2, <1>3, <1>6, <1>8, <1>10
<1>11. ASSUME NEW i \in 1..n, q < i /\ i < l PROVE t[i] # "lf"
  BY <1>2, <1>3, <1>7, <1>9, <1>11
<1> HIDE DEF A, B
<1>12. \A i \in 1..n : (f < i /\ i < p) \/ (q < i /\ i < l) => t[i] # "lf"
  BY <1>10, <1>11, Zenon
<1> QED
  BY <1>2, <1>8, <1>9, <1>12, Zenon DEF Middle, n, p, q, f, l

(* ... and nothing else does that and stops at line feeds or at the ends of *)
(* t.                                                                       *)
LEMMA MiddleIs ==
    ASSUME NEW t \in Seq(Characters), NEW p, NEW q, NEW f, NEW l, Middle(t, p, q, f, l),
           f # 0 => t[f] = "lf", l # Len(t) + 1 => t[l] = "lf"
    PROVE  StartOf(t) = f /\ EndOf(t) = l
<1> DEFINE n == Len(t)
           A == {0} \cup {i \in Ends(t) : i < p}
           B == {n + 1} \cup {i \in Ends(t) : i > q}
           S == Seen(t)
<1>1. n \in Nat /\ S = {i \in 1..n : t[i] = "x"} /\ Ends(t) = {i \in 1..n : t[i] = "lf"}
  BY DEF Seen, Ends
<1>2. p \in 1..n /\ q \in p..n /\ f \in 0..p - 1 /\ l \in q + 1..n + 1
      /\ t[p] = "x" /\ t[q] = "x"
  BY Zenon DEF Middle
<1>3. \A i \in 1..n : t[i] = "x" => p <= i /\ i <= q
  BY Zenon DEF Middle
<1>4. \A i \in 1..n : (f < i /\ i < p) \/ (q < i /\ i < l) => t[i] # "lf"
  BY Zenon DEF Middle
<1>5. (f # 0 => t[f] = "lf") /\ (l # n + 1 => t[l] = "lf")
  OBVIOUS
<1> HIDE DEF n, S
<1>6. Min(S) = p
  <2>1. S \subseteq Nat /\ p \in S /\ \A i \in S : p <= i
    BY <1>1, <1>2, <1>3
  <2> QED
    BY <2>1, LeastIs
<1>7. Max(S) = q
  <2>1. S \subseteq Nat /\ q \in S /\ \A i \in S : q >= i
    BY <1>1, <1>2, <1>3
  <2> QED
    BY <2>1, GreatestIs
<1>8. Max(A) = f
  <2>1. A \subseteq Nat
    BY <1>1, <1>2
  <2>2. f \in A
    BY <1>1, <1>2, <1>5
  <2>3. \A i \in A : f >= i
    BY <1>1, <1>2, <1>4
  <2> HIDE DEF A
  <2> QED
    BY <2>1, <2>2, <2>3, GreatestIs
<1>9. Min(B) = l
  <2>1. B \subseteq Nat
    BY <1>1, <1>2
  <2>2. l \in B
    BY <1>1, <1>2, <1>5
  <2>3. \A i \in B : l <= i
    BY <1>1, <1>2, <1>4
  <2> HIDE DEF B
  <2> QED
    BY <2>1, <2>2, <2>3, LeastIs
<1> QED
  BY <1>6, <1>7, <1>8, <1>9 DEF StartOf, EndOf, S, n

(* A text without NUL, invalid UTF-8 and CR.                                *)
Plain(s) == s \in Seq(Characters) /\ ~Has(s, "cr") /\ ~Has(s, "bad")

(* Place i lies in line j.                                                  *)
InLine(c, j, i) == c[j] < i /\ i < c[j + 1]

(* What Cuts says of the places.                                            *)
Places(c, L, s) ==
    /\ Len(L) \in Nat /\ Len(L) >= 1 /\ Len(s) \in Nat
    /\ c[1] = 0 /\ c[Len(L) + 1] = Len(s) + 1
    /\ \A j \in 1..Len(L) + 1 : c[j] \in 0..Len(s) + 1
    /\ \A j \in 1..Len(L) : c[j] < c[j + 1]
    /\ \A j \in 1..Len(L), i \in 1..Len(s) : InLine(c, j, i) => s[i] # "lf"
    /\ \A j \in 2..Len(L) : s[c[j]] = "lf"

(* Cuts says so.                                                            *)
LEMMA CutPlaces ==
    ASSUME NEW s \in Seq(Characters), NEW L, NEW c, Cuts(c, L, s, Len(s))
    PROVE  Places(c, L, s)
<1> DEFINE m == Len(L)
           n == Len(s)
<1>1. m \in Nat /\ n \in Nat
  BY DEF Cuts
<1>2. c \in [1..m + 1 -> 0..n + 1]
  BY Zenon DEF Cuts
<1>3. \A j \in 1..m + 1 : c[j] \in 0..n + 1
  <2> HIDE DEF m, n
  <2> QED
    BY <1>2
<1>4. \A j \in 1..m : \A i \in c[j] + 1..c[j + 1] - 1 : s[i] # "lf"
  BY Zenon DEF Cuts
<1> HIDE DEF m, n
<1>5. ASSUME NEW j \in 1..m, NEW i \in 1..n, InLine(c, j, i) PROVE s[i] # "lf"
  <2>1. c[j] \in 0..n + 1 /\ c[j + 1] \in 0..n + 1
    <3>1. j \in 1..m + 1 /\ j + 1 \in 1..m + 1
      BY <1>1
    <3> QED
      BY <3>1, <1>3
  <2>2. i \in c[j] + 1..c[j + 1] - 1
    BY <2>1, <1>5, <1>1 DEF InLine
  <2> QED
    BY <2>2, <1>4
<1> QED
  BY <1>1, <1>3, <1>5, Zenon DEF Cuts, Places, m, n

(* A line is visible exactly when there is text in it: strings.TrimSpace    *)
(* leaves something.                                                        *)
LEMMA VisibleLine ==
    ASSUME NEW s, Plain(s), NEW L, NEW c, Cuts(c, L, s, Len(s)), NEW j \in 1..Len(L)
    PROVE  Visible(L[j]) <=> \E i \in 1..Len(s) : InLine(c, j, i) /\ s[i] = "x"
<1> DEFINE m == Len(L)
           n == Len(s)
           y == c[j]
           z == c[j + 1]
           e == L[j]
<1>0. /\ s \in Seq(Characters)
      /\ \A i \in 1..n : s[i] \in Characters /\ s[i] # "cr" /\ s[i] # "bad"
  <2>1. s \in Seq(Characters)
    BY DEF Plain
  <2> QED
    BY <2>1 DEF Plain, Has
<1>1. m \in Nat /\ n \in Nat /\ (\A i \in 1..m + 1 : c[i] \in 0..n + 1)
      /\ (\A i \in 1..m : c[i] < c[i + 1])
      /\ \A k \in 1..m, i \in 1..n : InLine(c, k, i) => s[i] # "lf"
  <2>1. Places(c, L, s)
    BY <1>0, CutPlaces, Zenon
  <2> QED
    BY <2>1, Zenon DEF Places
<1>2. j \in 1..m + 1 /\ j + 1 \in 1..m + 1
  BY <1>1
<1>3. y \in 0..n + 1 /\ z \in 0..n + 1 /\ y < z
  BY <1>1, <1>2, Zenon
<1>4. e = SubSeq(s, y + 1, z - 1)
  BY Zenon DEF Cuts
<1>5. \A i \in 1..n : y < i /\ i < z => s[i] # "lf"
  BY <1>1, Zenon DEF InLine
<1>6. \A i \in 1..n : InLine(c, j, i) <=> y < i /\ i < z
  BY Zenon DEF InLine
<1> HIDE DEF y, z, e
<1>7. DOMAIN e = 1..(z - 1 - y) /\ \A i \in 1..(z - 1 - y) : e[i] = s[y + i]
  BY <1>0, <1>3, <1>4
<1> HIDE DEF n, m
<1>8. ASSUME NEW i \in DOMAIN e, e[i] # "sp"
      PROVE  \E k \in 1..n : y < k /\ k < z /\ s[k] = "x"
  <2> DEFINE k == y + i
  <2>1. k \in 1..n /\ y < k /\ k < z
    BY <1>1, <1>3, <1>7
  <2>2. e[i] = s[k]
    BY <1>7
  <2> HIDE DEF k
  <2>3. s[k] = "x"
    BY <2>1, <2>2, <1>0, <1>5, <1>8 DEF Characters
  <2> QED
    BY <2>1, <2>3
<1>9. ASSUME NEW k \in 1..n, y < k, k < z, s[k] = "x"
      PROVE  \E i \in DOMAIN e : e[i] # "sp"
  <2> DEFINE i == k - y
  <2>1. i \in DOMAIN e /\ y + i = k
    BY <1>1, <1>3, <1>7, <1>9
  <2> HIDE DEF i
  <2>2. e[i] = "x"
    BY <2>1, <1>7, <1>9
  <2> QED
    BY <2>1, <2>2
<1>10. Visible(e) <=> \E k \in 1..n : y < k /\ k < z /\ s[k] = "x"
  BY <1>8, <1>9 DEF Visible
<1>11. (\E k \in 1..n : y < k /\ k < z /\ s[k] = "x")
        <=> \E i \in 1..n : InLine(c, j, i) /\ s[i] = "x"
  BY <1>6
<1> QED
  BY <1>10, <1>11 DEF e, n

(* Every character but a line feed lies in a line: the last one that begins *)
(* before it.                                                               *)
LEMMA LineOf ==
    ASSUME NEW s \in Seq(Characters), NEW L, NEW c, Cuts(c, L, s, Len(s)),
           NEW i \in 1..Len(s), s[i] # "lf"
    PROVE  \E j \in 1..Len(L) : InLine(c, j, i)
<1> DEFINE m == Len(L)
           n == Len(s)
           S == {j \in 1..m : c[j] < i}
           g == Max(S)
<1>1. m \in Nat /\ m >= 1 /\ n \in Nat /\ c[1] = 0 /\ c[m + 1] = n + 1
      /\ (\A j \in 1..m + 1 : c[j] \in 0..n + 1) /\ \A j \in 2..m : s[c[j]] = "lf"
  <2>1. Places(c, L, s)
    BY CutPlaces, Zenon
  <2> QED
    BY <2>1, Zenon DEF Places
<1>2. S \subseteq 0..m /\ 1 \in S
  BY <1>1
<1>3. g \in S /\ \A j \in S : g >= j
  <2> HIDE DEF S, m
  <2>1. S # {}
    BY <1>2
  <2> QED
    BY <1>1, <1>2, <2>1, Greatest
<1> HIDE DEF g, m, n
<1>4. i < c[g + 1]
  <2>1. CASE g = m
    BY <2>1, <1>1 DEF n
  <2>2. CASE g # m
    <3>1. g + 1 \in 1..m /\ g + 1 \in 2..m /\ g + 1 \in 1..m + 1 /\ ~(g >= g + 1)
      BY <2>2, <1>1, <1>3
    <3>2. ~(c[g + 1] < i)
      BY <3>1, <1>3
    <3>3. c[g + 1] # i
      BY <3>1, <1>1
    <3>4. c[g + 1] \in 0..n + 1 /\ i \in Nat
      BY <3>1, <1>1
    <3> HIDE DEF S
    <3> QED
      BY <3>2, <3>3, <3>4, <1>1
  <2> QED
    BY <2>1, <2>2
<1> QED
  BY <1>3, <1>4 DEF InLine, m

(* The loops over start and end keep the lines from the one of the first    *)
(* visible character to the one of the last.                                *)
LEMMA Trimmed ==
    ASSUME NEW s, Plain(s), Has(s, "x")
    PROVE  Join(WithoutOuterBlanks(Split(s))) = SubSeq(s, StartOf(s) + 1, EndOf(s) - 1)
<1> DEFINE L == Split(s)
           m == Len(L)
           n == Len(s)
           K == {k \in DOMAIN L : Visible(L[k])}
           a == Min(K)
           b == Max(K)
           p == Min(Seen(s))
           q == Max(Seen(s))
<1>0. s \in Seq(Characters)
  BY DEF Plain
<1>1. PICK c : Cuts(c, L, s, n)
  BY <1>0, SplitCuts
<1>a. L \in Seq(Seq(Characters))
  BY <1>1 DEF Cuts
<1>b. DOMAIN L = 1..m
  BY <1>a
<1> HIDE DEF L
<1>2. m \in Nat /\ m >= 1 /\ n \in Nat /\ c[1] = 0 /\ c[m + 1] = n + 1
      /\ (\A j \in 1..m + 1 : c[j] \in 0..n + 1)
      /\ (\A j \in 1..m, i \in 1..n : InLine(c, j, i) => s[i] # "lf")
      /\ (\A j \in 2..m : s[c[j]] = "lf")
  <2>1. Places(c, L, s)
    BY <1>0, <1>1, CutPlaces, Zenon
  <2> QED
    BY <2>1, Zenon DEF Places
<1>3. \A i, j \in 1..m + 1 : i < j => c[i] < c[j]
  BY <1>1, <1>2, CutsAscend, Zenon
<1>4. \A j \in 1..m : Visible(L[j]) <=> \E i \in 1..n : InLine(c, j, i) /\ s[i] = "x"
  BY <1>1, VisibleLine, Zenon
<1>5. K = {j \in 1..m : \E i \in 1..n : InLine(c, j, i) /\ s[i] = "x"}
  BY <1>b, <1>4
<1>6. p \in Seen(s) /\ q \in Seen(s) /\ \A i \in Seen(s) : p <= i /\ i <= q
  BY <1>0, SeenBetween, Zenon
<1>7. Seen(s) = {i \in 1..n : s[i] = "x"}
  BY <1>0 DEF Seen
<1>8. p \in 1..n /\ q \in 1..n /\ s[p] = "x" /\ s[q] = "x"
      /\ \A i \in 1..n : s[i] = "x" => p <= i /\ i <= q
  <2> HIDE DEF p, q, n
  <2> QED
    BY <1>6, <1>7
<1>9. PICK j \in 1..m : InLine(c, j, p)
  <2>1. s[p] # "lf"
    BY <1>8
  <2> QED
    BY <2>1, <1>0, <1>1, <1>8, LineOf, Zenon
<1>10. PICK k \in 1..m : InLine(c, k, q)
  <2>1. s[q] # "lf"
    BY <1>8
  <2> QED
    BY <2>1, <1>0, <1>1, <1>8, LineOf, Zenon
<1>11. K \subseteq 0..m /\ K \subseteq Nat /\ K # {} /\ j \in K /\ k \in K
  <2> HIDE DEF K, m, n, p, q
  <2>1. j \in K /\ k \in K
    BY <1>5, <1>8, <1>9, <1>10
  <2>2. K \subseteq 0..m /\ K \subseteq Nat
    BY <1>5
  <2> QED
    BY <2>1, <2>2
<1>12. a \in K /\ b \in K /\ (\A i \in K : a <= i) /\ (\A i \in K : b >= i)
  <2> HIDE DEF K, m
  <2> QED
    BY <1>2, <1>11, Least, Greatest, Zenon
<1> HIDE DEF K, a, b, p, q, m, n
<1>13. a \in 1..m /\ b \in a..m /\ a <= j /\ k <= b
  <2>1. a \in 1..m /\ b \in 1..m
    BY <1>5, <1>12
  <2>2. a <= b /\ a <= j /\ b >= k
    BY <1>11, <1>12
  <2> QED
    BY <2>1, <2>2
<1>14. a + 1 \in 1..m + 1 /\ b + 1 \in 1..m + 1 /\ a \in 1..m + 1 /\ b \in 1..m + 1
       /\ j \in 1..m + 1 /\ k \in 1..m + 1 /\ j + 1 \in 1..m + 1
       /\ k + 1 \in 1..m + 1 /\ b \in 1..m
  BY <1>2, <1>13
<1>c. /\ c[a] \in Nat /\ c[a + 1] \in Nat /\ c[b] \in Nat /\ c[b + 1] \in Nat
      /\ c[j] \in Nat
      /\ c[j + 1] \in Nat /\ c[k] \in Nat /\ c[k + 1] \in Nat
  <2>1. \A i \in 1..m + 1 : c[i] \in Nat
    BY <1>2
  <2> QED
    BY <2>1, <1>14, Zenon
<1>15. InLine(c, a, p)
  <2>1. PICK i \in 1..n : InLine(c, a, i) /\ s[i] = "x"
    BY <1>5, <1>12
  <2>2. p <= i /\ i < c[a + 1]
    BY <2>1, <1>8 DEF InLine
  <2>3. CASE a = j
    BY <2>3, <1>9
  <2>4. CASE a # j
    <3>1. a + 1 = j \/ a + 1 < j
      BY <2>4, <1>13
    <3>2. c[a + 1] <= c[j]
      <4>1. CASE a + 1 = j
        BY <4>1, <1>c
      <4>2. CASE a + 1 < j
        <5>1. c[a + 1] < c[j]
          BY <4>2, <1>3, <1>14, Zenon
        <5> QED
          BY <5>1, <1>c
      <4> QED
        BY <3>1, <4>1, <4>2
    <3>3. c[j] < p
      BY <1>9, Zenon DEF InLine
    <3>4. p \in Nat /\ i \in Nat
      BY <1>8
    <3> QED
      BY <3>2, <3>3, <3>4, <2>2, <1>c
  <2> QED
    BY <2>3, <2>4
<1>16. InLine(c, b, q)
  <2>1. PICK i \in 1..n : InLine(c, b, i) /\ s[i] = "x"
    BY <1>5, <1>12
  <2>2. i <= q /\ c[b] < i
    BY <2>1, <1>8 DEF InLine
  <2>3. CASE b = k
    BY <2>3, <1>10
  <2>4. CASE b # k
    <3>1. k + 1 = b \/ k + 1 < b
      BY <2>4, <1>13
    <3>2. c[k + 1] <= c[b]
      <4>1. CASE k + 1 = b
        BY <4>1, <1>c
      <4>2. CASE k + 1 < b
        <5>1. c[k + 1] < c[b]
          BY <4>2, <1>3, <1>14, Zenon
        <5> QED
          BY <5>1, <1>c
      <4> QED
        BY <3>1, <4>1, <4>2
    <3>3. q < c[k + 1]
      BY <1>10, Zenon DEF InLine
    <3>4. q \in Nat /\ i \in Nat
      BY <1>8
    <3> QED
      BY <3>2, <3>3, <3>4, <2>2, <1>c
  <2> QED
    BY <2>3, <2>4
<1> DEFINE f == c[a]
           l == c[b + 1]
<1>17. f \in 0..p - 1 /\ p < c[a + 1] /\ l \in q + 1..n + 1 /\ c[b] < q
  <2>1. f < p /\ p < c[a + 1] /\ c[b] < q /\ q < l
    BY <1>15, <1>16, Zenon DEF InLine
  <2>2. f \in 0..n + 1 /\ l \in 0..n + 1
    BY <1>2, <1>14, Zenon
  <2>3. p \in Nat /\ q \in Nat /\ n \in Nat
    BY <1>2, <1>8
  <2> HIDE DEF f, l
  <2> QED
    BY <2>1, <2>2, <2>3
<1>18. f # 0 => s[f] = "lf"
  <2> SUFFICES ASSUME f # 0 PROVE s[f] = "lf"
    OBVIOUS
  <2>1. a # 1
    BY <1>2
  <2>2. a \in 2..m
    BY <2>1, <1>13
  <2> QED
    BY <2>2, <1>2, Zenon
<1>19. l # n + 1 => s[l] = "lf"
  <2> SUFFICES ASSUME l # n + 1 PROVE s[l] = "lf"
    OBVIOUS
  <2>1. b + 1 # m + 1
    BY <1>2
  <2>2. b + 1 \in 2..m
    BY <2>1, <1>2, <1>13
  <2> QED
    BY <2>2, <1>2, Zenon
<1>20. ASSUME NEW i \in 1..n, f < i /\ i < p PROVE s[i] # "lf"
  <2>1. i < c[a + 1]
    BY <1>8, <1>17, <1>20, <1>c
  <2>2. InLine(c, a, i)
    BY <2>1, <1>20, Zenon DEF InLine
  <2> QED
    BY <2>2, <1>2, <1>13, Zenon
<1>21. ASSUME NEW i \in 1..n, q < i /\ i < l PROVE s[i] # "lf"
  <2>1. c[b] < i
    BY <1>8, <1>17, <1>21, <1>c
  <2>2. InLine(c, b, i)
    BY <2>1, <1>21, Zenon DEF InLine
  <2> QED
    BY <2>2, <1>2, <1>14, Zenon
<1>22. Middle(s, p, q, f, l)
  <2>1. q \in p..n
    <3>1. p <= q
      BY <1>8
    <3> QED
      BY <3>1, <1>8
  <2>2. \A i \in 1..n : (f < i /\ i < p) \/ (q < i /\ i < l) => s[i] # "lf"
    BY <1>20, <1>21, Zenon
  <2> HIDE DEF f, l
  <2> QED
    BY <1>8, <1>17, <2>1, <2>2, Zenon DEF Middle, n
<1>23. StartOf(s) = f /\ EndOf(s) = l
  <2> HIDE DEF f, l
  <2> QED
    BY <1>0, <1>18, <1>19, <1>22, MiddleIs, Zenon DEF n
<1>24. Join(SubSeq(L, a, b)) = SubSeq(s, f + 1, l - 1)
  <2>1. Cuts(c, L, s, Len(s)) /\ a \in 1..Len(L) /\ b \in a..Len(L)
    BY <1>1, <1>13, Zenon DEF m, n
  <2>2. Join(SubSeq(L, a, b)) = SubSeq(s, c[a] + 1, c[b + 1] - 1)
    BY <1>0, <2>1, JoinCuts
  <2> QED
    BY <2>2
<1>25. WithoutOuterBlanks(L) = SubSeq(L, a, b)
  BY <1>11, Zenon DEF WithoutOuterBlanks, K, a, b
<1> QED
  BY <1>23, <1>24, <1>25, Zenon DEF L

-----------------------------------------------------------------------------
(* The instructions of a text.                                              *)

(* Wanted, in terms of the line ends NormalizeManualInput makes.            *)
LEMMA WantedIs ==
    ASSUME NEW s \in Seq(Characters)
    PROVE  Wanted(s) =
             SubSeq(UnixLines(s), StartOf(UnixLines(s)) + 1, EndOf(UnixLines(s)) - 1)
<1> DEFINE t == UnixLines(s)
<1>1. t = OneLineEnd(s)
  BY SameLineEnds
<1> HIDE DEF t
<1> QED
  BY <1>1, Zenon DEF Wanted, StartOf, EndOf, Ends, Seen, t

(* A part of a text.                                                        *)
LEMMA PartOf ==
    ASSUME NEW s \in Seq(Characters), NEW a \in 1..Len(s), NEW b \in a..Len(s)
    PROVE  /\ SubSeq(s, a, b) \in Seq(Characters)
           /\ Len(SubSeq(s, a, b)) = b - a + 1
           /\ \A i \in 1..b - a + 1 : SubSeq(s, a, b)[i] = s[a + i - 1]
  OBVIOUS

(* The part between StartOf and EndOf is all there is to keep of itself.    *)
LEMMA MiddlePart ==
    ASSUME NEW t, Plain(t), Has(t, "x"), NEW w, w = SubSeq(t, StartOf(t) + 1, EndOf(t) - 1)
    PROVE  /\ Plain(w) /\ Has(w, "x") /\ Len(w) <= Len(t)
           /\ StartOf(w) = 0 /\ EndOf(w) = Len(w) + 1
<1> DEFINE n == Len(t)
           p == Min(Seen(t))
           q == Max(Seen(t))
           f == StartOf(t)
           l == EndOf(t)
           k == Len(w)
<1>0. t \in Seq(Characters) /\ \A i \in 1..n : t[i] # "cr" /\ t[i] # "bad"
  <2>1. t \in Seq(Characters)
    BY DEF Plain
  <2> QED
    BY <2>1 DEF Plain, Has
<1>1. Middle(t, p, q, f, l)
  BY <1>0, MiddleOf
<1> HIDE DEF f, l, p, q
<1>2. n \in Nat /\ p \in 1..n /\ q \in p..n /\ f \in 0..p - 1 /\ l \in q + 1..n + 1
      /\ t[p] = "x" /\ t[q] = "x"
  BY <1>0, <1>1 DEF Middle
<1>3. \A i \in 1..n : t[i] = "x" => p <= i /\ i <= q
  BY <1>1, Zenon DEF Middle
<1>4. \A i \in 1..n : (f < i /\ i < p) \/ (q < i /\ i < l) => t[i] # "lf"
  BY <1>1, Zenon DEF Middle
<1>5. /\ f + 1 \in 1..n /\ l - 1 \in 1..n /\ f + 1 <= l - 1
      /\ (l - 1) - (f + 1) + 1 = l - 1 - f
  <2> HIDE DEF n
  <2> QED
    BY <1>2
<1>6. w = SubSeq(t, f + 1, l - 1)
  BY Zenon DEF f, l
<1>7. w \in Seq(Characters) /\ k = l - 1 - f /\ \A i \in 1..k : w[i] = t[f + i]
  <2> DEFINE a == f + 1
             b == l - 1
             h == b - a + 1
  <2>1. a \in 1..n /\ b \in a..n /\ h = l - 1 - f
    <3> HIDE DEF n
    <3> QED
      BY <1>2
  <2>2. \A i \in 1..h : a + i - 1 = f + i
    <3> HIDE DEF n
    <3> QED
      BY <1>2
  <2>3. w = SubSeq(t, a, b)
    BY <1>6
  <2> HIDE DEF a, b
  <2>4. w \in Seq(Characters) /\ k = h /\ \A i \in 1..h : w[i] = t[a + i - 1]
    BY <1>0, <2>1, <2>3, PartOf, Zenon
  <2> HIDE DEF h, k
  <2> QED
    BY <2>1, <2>2, <2>4, Zenon
<1> HIDE DEF n, k
<1>8. k \in Nat /\ k <= n /\ (\A i \in 1..k : f + i \in 1..n)
      /\ p - f \in 1..k /\ q - f \in p - f..k /\ f + (p - f) = p /\ f + (q - f) = q
  <2>1. k = l - 1 - f
    BY <1>7
  <2> QED
    BY <1>2, <2>1
<1>9. Plain(w)
  <2>1. \A i \in 1..k : w[i] # "cr" /\ w[i] # "bad"
    BY <1>0, <1>7, <1>8
  <2> QED
    BY <1>7, <2>1 DEF Plain, Has, k
<1>10. w[p - f] = "x" /\ w[q - f] = "x"
  <2>1. p - f \in 1..k /\ q - f \in 1..k
    BY <1>2, <1>8
  <2>2. w[p - f] = t[f + (p - f)] /\ w[q - f] = t[f + (q - f)]
    BY <1>7, <2>1, Zenon
  <2> QED
    BY <2>2, <1>2, <1>8, Zenon
<1>11. Has(w, "x")
  BY <1>8, <1>10 DEF Has, k
<1>12. \A i \in 1..k : w[i] = "x" => p - f <= i /\ i <= q - f
  <2> SUFFICES ASSUME NEW i \in 1..k, w[i] = "x" PROVE p - f <= i /\ i <= q - f
    OBVIOUS
  <2>1. t[f + i] = "x" /\ f + i \in 1..n
    BY <1>7, <1>8
  <2>2. p <= f + i /\ f + i <= q
    BY <2>1, <1>3
  <2>3. i \in Nat
    BY <1>8
  <2> QED
    BY <2>2, <2>3, <1>2
<1>13. \A i \in 1..k : (0 < i /\ i < p - f) \/ (q - f < i /\ i < k + 1) => w[i] # "lf"
  <2> SUFFICES ASSUME NEW i \in 1..k, (0 < i /\ i < p - f) \/ (q - f < i /\ i < k + 1)
               PROVE  w[i] # "lf"
    OBVIOUS
  <2>1. w[i] = t[f + i] /\ f + i \in 1..n
    BY <1>7, <1>8
  <2>2. (f < f + i /\ f + i < p) \/ (q < f + i /\ f + i < l)
    <3>1. k = l - 1 - f
      BY <1>7
    <3> QED
      BY <3>1, <1>2
  <2> QED
    BY <2>1, <2>2, <1>4
<1>14. Middle(w, p - f, q - f, 0, k + 1)
  <2>1. 0 \in 0..(p - f) - 1 /\ k + 1 \in (q - f) + 1..k + 1
    BY <1>2, <1>8
  <2> QED
    BY <1>8, <1>10, <1>12, <1>13, <2>1, Zenon DEF Middle, k
<1>15. StartOf(w) = 0 /\ EndOf(w) = k + 1
  <2> DEFINE z == 0
  <2>1. z # 0 => w[z] = "lf"
    OBVIOUS
  <2>2. k + 1 # Len(w) + 1 => w[k + 1] = "lf"
    BY DEF k
  <2>3. Middle(w, p - f, q - f, z, k + 1)
    BY <1>14
  <2> HIDE DEF z
  <2>4. StartOf(w) = z /\ EndOf(w) = k + 1
    BY <1>7, <2>1, <2>2, <2>3, MiddleIs, Zenon
  <2> QED
    BY <2>4 DEF z
<1> QED
  BY <1>8, <1>9, <1>11, <1>15 DEF k, n

(* The instructions of every text of valid characters with something        *)
(* visible in it, of any length: every line end is one line feed, and the   *)
(* text reaches from the first to the last line in which something is       *)
(* visible (domain.NormalizeManualInput).                                   *)
THEOREM NormalizedIsWanted ==
    ASSUME NEW s \in Seq(Characters), ~Has(s, "bad"), Has(s, "x")
    PROVE  Instructions(s) = Wanted(s)
<1> DEFINE t == UnixLines(s)
<1>1. Unixed(t, s)
  BY UnixIs
<1>2. Plain(t) /\ Has(t, "x")
  BY <1>1 DEF Unixed, Plain
<1> HIDE DEF t
<1>3. Join(WithoutOuterBlanks(Split(t))) = SubSeq(t, StartOf(t) + 1, EndOf(t) - 1)
  BY <1>2, Trimmed
<1> QED
  BY <1>3, WantedIs, Zenon DEF Instructions, t

(* NormalizeManualInput is idempotent, and what it returns is accepted by   *)
(* it: valid characters, something visible, and no longer than the text it  *)
(* comes from, so that the second size check never fires.                   *)
THEOREM NormalizedTwice ==
    ASSUME NEW s \in Seq(Characters), ~Has(s, "bad"), Has(s, "x"),
           NEW w, w = Instructions(s)
    PROVE  /\ w \in Seq(Characters) /\ ~Has(w, "bad") /\ Has(w, "x")
           /\ Len(w) <= Len(s) /\ Instructions(w) = w
<1> DEFINE t == UnixLines(s)
<1>1. Unixed(t, s)
  BY UnixIs
<1>2. Plain(t) /\ Has(t, "x") /\ Len(t) <= Len(s) /\ t \in Seq(Characters)
  BY <1>1 DEF Unixed, Plain
<1>3. w = SubSeq(t, StartOf(t) + 1, EndOf(t) - 1)
  BY NormalizedIsWanted, WantedIs, Zenon
<1> HIDE DEF t
<1>4. Plain(w) /\ Has(w, "x") /\ Len(w) <= Len(t) /\ StartOf(w) = 0 /\ EndOf(w) = Len(w) + 1
  BY <1>2, <1>3, MiddlePart, Zenon
<1>5. w \in Seq(Characters) /\ ~Has(w, "cr") /\ ~Has(w, "bad")
  BY <1>4 DEF Plain
<1>6. Unixed(UnixLines(w), w)
  BY <1>5, UnixIs, Zenon
<1>7. UnixLines(w) = w
  BY <1>5, <1>6 DEF Unixed
<1>8. Wanted(w) = SubSeq(w, StartOf(w) + 1, EndOf(w) - 1)
  BY <1>5, <1>7, WantedIs
<1>9. Wanted(w) = w
  <2> HIDE DEF t
  <2>1. SubSeq(w, 0 + 1, (Len(w) + 1) - 1) = w
    BY <1>5
  <2> QED
    BY <1>4, <1>8, <2>1, Zenon
<1>10. Instructions(w) = w
  BY <1>4, <1>5, <1>9, NormalizedIsWanted, Zenon
<1>11. Len(w) <= Len(s)
  <2>1. Len(w) \in Nat /\ Len(t) \in Nat /\ Len(s) \in Nat
    BY <1>2, <1>5
  <2> QED
    BY <2>1, <1>2, <1>4
<1> QED
  BY <1>4, <1>5, <1>10, <1>11

-----------------------------------------------------------------------------
(* The instructions of a submission.                                        *)

(* ToSet and Has.                                                           *)
LEMMA SetOf ==
    ASSUME NEW s \in Seq(Characters), NEW c
    PROVE  c \in ToSet(s) <=> Has(s, c)
  BY DEF ToSet, Has

(* What the command returns, and a refusal as invalid, are about the text   *)
(* it has read.                                                             *)
ReturnedText ==
    /\ pc = "done" => Refusal(raw) = "none" /\ input = Instructions(raw)
    /\ reason = "invalid" => Refusal(raw) = "invalid"

(* Nothing is read once the command has returned.                           *)
LEMMA ReturnedTextStep == InputInv /\ ReturnedText /\ [Next]_vars => ReturnedText'
<1> SUFFICES ASSUME InputInv, ReturnedText, [Next]_vars PROVE ReturnedText'
  OBVIOUS
<1>1. CASE raw' = raw /\ UNCHANGED <<pc, reason, input>>
  BY <1>1 DEF ReturnedText
<1>2. CASE pc' \notin Final /\ reason' = "none"
  BY <1>2 DEF ReturnedText, Final
<1>3. CASE pc' = "failed" /\ reason' # "invalid"
  BY <1>3 DEF ReturnedText
<1>a. reason # "none" => pc = "failed"
  BY DEF InputInv, Stages
<1>4. CASE StdinData \/ StdinEnd \/ StdinFails
  <2>1. reader = "reading" /\ UNCHANGED <<pc, reason, input>>
    BY <1>4 DEF StdinData, StdinEnd, StdinFails
  <2>2. pc \in {"select", "drain"} /\ reason = "none"
    BY <2>1 DEF InputInv, Stages
  <2> QED
    BY <1>2, <2>1, <2>2 DEF Final
<1>5. CASE Start
  <2>1. pc' \in {"normalize", "select", "stat"} /\ pc = "start" /\ UNCHANGED reason
    <3>1. source \in {"inline", "stdin", "file"}
      BY InputAssumption DEF InputInv, Kinds
    <3> QED
      BY <3>1, <1>5 DEF Start
  <2> QED
    BY <1>2, <1>a, <2>1 DEF Final
<1>6. CASE Received
  <2>1. pc = "select"
    BY <1>6 DEF Received
  <2>2. (pc' = "normalize" /\ UNCHANGED reason) \/ Fail("unreadable") \/ Fail("exceeds")
    BY <1>6, Zenon DEF Received
  <2> QED
    BY <1>2, <1>3, <1>a, <2>1, <2>2 DEF Fail, Final
<1>7. CASE Interrupted
  BY <1>2, <1>7, <1>a DEF Interrupted, Final
<1>8. CASE Drained
  BY <1>3, <1>8 DEF Drained, Fail
<1>9. CASE Stat \/ Open
  <2>1. pc \in {"stat", "open"}
    BY <1>9 DEF Stat, Open
  <2>2. \/ pc' \in {"open", "read"} /\ UNCHANGED reason
        \/ Fail("unreadable") \/ Fail("exceeds")
    BY <1>9 DEF Stat, Open
  <2> QED
    BY <1>2, <1>3, <1>a, <2>1, <2>2 DEF Fail, Final
<1>10. CASE FileData
  BY <1>2, <1>10, <1>a DEF FileData, Final
<1>11. CASE FileEnd
  <2>1. pc = "read"
    BY <1>11 DEF FileEnd
  <2>2. (pc' = "normalize" /\ UNCHANGED reason) \/ Fail("exceeds")
    BY <1>11, Zenon DEF FileEnd
  <2> QED
    BY <1>2, <1>3, <1>a, <2>1, <2>2 DEF Fail, Final
<1>12. CASE FileFails
  BY <1>3, <1>12 DEF FileFails, Fail
<1>13. CASE Normalize
  <2>1. pc = "normalize" /\ reason = "none" /\ raw' = raw
    BY <1>13, <1>a DEF Normalize
  <2>2. CASE Refusal(raw) = "none"
    <3>1. pc' = "done" /\ input' = Instructions(raw) /\ UNCHANGED reason
      BY <1>13, <2>2, Zenon DEF Normalize
    <3> QED
      BY <2>1, <2>2, <3>1 DEF ReturnedText
  <2>3. CASE Refusal(raw) # "none"
    <3>1. pc' = "failed" /\ reason' = Refusal(raw)
      BY <1>13, <2>3, Zenon DEF Normalize, Fail
    <3> QED
      BY <2>1, <3>1 DEF ReturnedText
  <2> QED
    BY <2>2, <2>3
<1>14. CASE Cancel \/ FileGrows \/ FileRemoved
  BY <1>1, <1>14 DEF Cancel, FileGrows, FileRemoved
<1>15. CASE UNCHANGED vars
  BY <1>1, <1>15 DEF vars
<1> QED
  BY <1>4, <1>5, <1>6, <1>7, <1>8, <1>9, <1>10, <1>11, <1>12, <1>13, <1>14, <1>15
  DEF Next, Main, Goroutine, Terminated

(* Of a text without anything visible nothing remains: the empty            *)
(* instructions that NormalizeManualInput refuses.                          *)
LEMMA NothingVisible ==
    ASSUME NEW s \in Seq(Characters), ~Has(s, "bad"), ~Has(s, "x")
    PROVE  Instructions(s) = <<>>
<1> DEFINE t == UnixLines(s)
           L == Split(t)
           K == {k \in DOMAIN L : Visible(L[k])}
<1>1. Unixed(t, s)
  BY UnixIs
<1>2. Plain(t) /\ ~Has(t, "x") /\ t \in Seq(Characters)
  BY <1>1 DEF Unixed, Plain
<1> HIDE DEF t
<1>3. PICK c : Cuts(c, L, t, Len(t))
  BY <1>2, SplitCuts
<1>4. DOMAIN L = 1..Len(L)
  BY <1>3 DEF Cuts
<1> HIDE DEF L
<1>5. \A k \in 1..Len(L) : ~Visible(L[k])
  <2> SUFFICES ASSUME NEW k \in 1..Len(L) PROVE ~Visible(L[k])
    OBVIOUS
  <2>1. Visible(L[k]) <=> \E i \in 1..Len(t) : InLine(c, k, i) /\ t[i] = "x"
    BY <1>2, <1>3, VisibleLine, Zenon
  <2> QED
    BY <2>1, <1>2, Zenon DEF Has
<1>6. K = {}
  BY <1>4, <1>5
<1>7. WithoutOuterBlanks(L) = <<>>
  BY <1>6, Zenon DEF WithoutOuterBlanks
<1>8. Join(<<>>) = <<>>
  <2>1. <<>> \in Seq(Seq(Characters)) /\ Len(<<>>) = 0
    OBVIOUS
  <2>2. PICK f : JoinScan(f, <<>>) /\ Join(<<>>) = f[Len(<<>>)]
    BY <2>1, JoinIs, Zenon
  <2>3. f[0] = <<>>
    BY <2>2, Zenon DEF JoinScan
  <2> QED
    BY <2>1, <2>2, <2>3, Zenon
<1> QED
  BY <1>7, <1>8, Zenon DEF Instructions, L, t

(* The instructions of a submission are what is wanted of the text,         *)
(* normalising the stored ones again would change nothing, and a text is    *)
(* invalid only for a character that is, or because nothing in it is        *)
(* visible.                                                                 *)
THEOREM NormalForm == Spec => []Stable
<1>1. Init => ReturnedText
  BY DEF Init, ReturnedText
<1>2. InputInv /\ ReturnedText => Stable
  <2> SUFFICES ASSUME InputInv, ReturnedText PROVE Stable
    OBVIOUS
  <2>1. raw \in Seq(Characters)
    BY DEF InputInv, Texts
  <2>2. Refusal(raw) \in {"none", "invalid"}
        => Len(raw) <= Limit
    BY <2>1, InputAssumption DEF Refusal, Oversize
  <2>3. Refusal(raw) = "none" => ~Has(raw, "bad") /\ Instructions(raw) # <<>>
    BY <2>1, SetOf DEF Refusal
  <2>4. Refusal(raw) = "invalid" => Has(raw, "bad") \/ Instructions(raw) = <<>>
    BY <2>1, SetOf DEF Refusal
  <2> DEFINE w == Instructions(raw)
  <2>5. Has(raw, "x") /\ ~Has(raw, "bad")
        => /\ w \in Seq(Characters) /\ ~Has(w, "bad") /\ Has(w, "x")
           /\ Len(w) <= Len(raw) /\ Instructions(w) = w /\ w = Wanted(raw)
    BY <2>1, NormalizedTwice, NormalizedIsWanted, Zenon
  <2>6. Has(w, "x") /\ w \in Seq(Characters) => w # <<>>
    <3> HIDE DEF w
    <3> QED
      BY DEF Has
  <2>7. ~Has(raw, "x") /\ ~Has(raw, "bad") => w = <<>>
    BY <2>1, NothingVisible
  <2>8. ASSUME pc = "done"
        PROVE  /\ input \in Seq(Characters) /\ input = Wanted(raw)
               /\ Refusal(input) = "none" /\ Instructions(input) = input
    <3>1. Refusal(raw) = "none" /\ input = w
      BY <2>8 DEF ReturnedText
    <3> HIDE DEF w
    <3>2. ~Has(raw, "bad") /\ w # <<>>
      BY <2>3, <3>1 DEF w
    <3>3. Has(raw, "x")
      BY <2>7, <3>2
    <3>4. /\ w \in Seq(Characters) /\ ~Has(w, "bad") /\ Has(w, "x")
          /\ Len(w) <= Len(raw) /\ Instructions(w) = w /\ w = Wanted(raw)
      BY <2>5, <3>2, <3>3, Zenon
    <3>5. ~Oversize(w)
      <4>1. /\ Len(w) \in Nat /\ Len(raw) \in Nat /\ Limit \in Nat
            /\ Len(raw) <= Limit /\ Len(w) <= Len(raw)
        BY <2>1, <2>2, <3>1, <3>4, InputAssumption
      <4> QED
        BY <4>1 DEF Oversize
    <3>6. Refusal(w) = "none"
      BY <3>2, <3>4, <3>5, SetOf, Zenon DEF Refusal
    <3> QED
      BY <3>1, <3>4, <3>6, Zenon
  <2>9. reason = "invalid" => "bad" \in ToSet(raw) \/ "x" \notin ToSet(raw)
    <3> SUFFICES ASSUME reason = "invalid" PROVE Has(raw, "bad") \/ ~Has(raw, "x")
      BY <2>1, SetOf, Zenon
    <3>1. Refusal(raw) = "invalid"
      BY DEF ReturnedText
    <3> QED
      BY <2>4, <2>5, <2>6, <3>1, Zenon
  <2> QED
    BY <2>8, <2>9, Zenon DEF Stable
<1> QED
  BY InputInvariant, ReturnedTextStep, <1>1, <1>2, PTL DEF Spec
=============================================================================
