------------------------------ MODULE OpenFiles ------------------------------
(***************************************************************************)
(* What the file calls promise the title: a handle names one file for      *)
(* good, an open one has a position, and each call is one step, whoever    *)
(* else is inside the kernel.                                              *)
(***************************************************************************)
EXTENDS Integers

CONSTANTS Threads, Handles,
          Files, Length,  \* how many bytes can be read from a file,
          Size,           \* the size it is said to have,
          Offsets, Counts \* the offsets and counts of a read

VARIABLES open,     \* handle -> [file, pos], for the open handles
          used,     \* the handles handed out so far
          answer    \* what the call that returned last did, and to whom

vars == <<open, used, answer>>

Nothing == [did |-> [status |-> "none"]]
Lesser(a, b) == IF a < b THEN a ELSE b
Left(file, pos) == IF pos < Length[file] THEN Length[file] - pos ELSE 0

\* The position after a seek: one to a negative offset fails.
At(pos, offset) == IF offset < 0 THEN pos ELSE offset

ReadAnswer(file, offset, from, count, n) ==
  [status |-> IF n = 0 /\ count # 0 THEN "end of file" ELSE "success",
   offset |-> offset, count |-> count, file |-> file, from |-> from, n |-> n]
QueryAnswer(file, pos) ==
  [status |-> "success", pos |-> pos, size |-> Size[file]]
OpenAnswer(h) == [status |-> "success", handle |-> h]
Failure(status) == [status |-> status]

Returns(t, what) == answer' = [to |-> t, did |-> what]

Init == /\ open = [h \in {} |-> 0]
        /\ used = {}
        /\ answer = Nothing

Open(t) ==
  \E h \in Handles \ used, file \in Files :
    /\ open' = [g \in DOMAIN open \union {h} |->
                 IF g = h THEN [file |-> file, pos |-> 0] ELSE open[g]]
    /\ used' = used \union {h}
    /\ Returns(t, OpenAnswer(h))

Miss(t) == Returns(t, Failure("not found")) /\ UNCHANGED <<open, used>>

\* A read at the position, or at an offset of its own.
Read(t) ==
  \E h \in DOMAIN open, offset \in Offsets, count \in Counts :
    LET from == At(open[h].pos, offset)
        n    == Lesser(count, Left(open[h].file, from))
    IN /\ open' = [open EXCEPT ![h].pos = from + n]
       /\ Returns(t, ReadAnswer(open[h].file, offset, from, count, n))
       /\ UNCHANGED used

Query(t) ==
  \E h \in DOMAIN open :
    /\ Returns(t, QueryAnswer(open[h].file, open[h].pos))
    /\ UNCHANGED <<open, used>>

Seek(t) ==
  \E h \in DOMAIN open, offset \in Offsets :
    /\ open' = [open EXCEPT ![h].pos = At(@, offset)]
    /\ Returns(t, [status |-> "success", offset |-> offset])
    /\ UNCHANGED used

Close(t) ==
  \E h \in DOMAIN open :
    /\ open' = [g \in DOMAIN open \ {h} |-> open[g]]
    /\ Returns(t, Failure("success"))
    /\ UNCHANGED used

\* A call on a handle that is not open changes nothing; a seek and a close
\* report success all the same.
Refuse(t) ==
  /\ \E h \in Handles : h \notin DOMAIN open
  /\ \E status \in {"invalid handle", "success"} : Returns(t, Failure(status))
  /\ UNCHANGED <<open, used>>

Next == \E t \in Threads :
          \/ Open(t) \/ Miss(t) \/ Read(t) \/ Query(t) \/ Seek(t) \/ Close(t)
          \/ Refuse(t)

Spec == Init /\ [][Next]_vars
==============================================================================
