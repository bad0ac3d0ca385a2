----------------------------- MODULE FileHandles -----------------------------
(***************************************************************************)
(* The read-only file system of kernel.cpp: guest names resolved without   *)
(* regard to case below the game directory, and g_files, the table from    *)
(* guest handles to the C library's streams.  The table has a mutex; a     *)
(* stream is used after it was given back, one library call at a time.     *)
(*                                                                         *)
(* A path is a sequence of components.  The device ("game:", "d:") and the *)
(* direction of the slashes are gone from a name; an empty component comes *)
(* from a doubled slash or a bare device, and only the empty name has no   *)
(* component.  Data are not modelled: what was read is where it came from. *)
(***************************************************************************)
EXTENDS Integers, Sequences

CONSTANTS Threads,
          Preemptive,   \* REX_NOTOKEN: no run token keeps the calls apart
          Shared,       \* the title lets two threads into one handle at once
          Names,        \* the names the title opens
          Tree,         \* the paths that exist below the game directory
          LowerCase,    \* component -> its lower case, as strcasecmp sees it
          Length, Size, \* path -> bytes to read, size reported
          Offsets,      \* offsets of a seek or read; a negative one fails
          Counts,       \* bytes asked for
          MaxOpens      \* model bound on the opens that succeed

Current == -1  \* no offset: the read goes on where the file is
Empty == <<>>  \* the empty name

Streams == 1 .. MaxOpens
Handles == 1 .. MaxOpens
Places == Tree \union {<<>>}

ASSUME DiskAssumption ==
  /\ Length \in [Places -> Nat] /\ Size \in [Places -> Nat]
  /\ Names \subseteq Seq(DOMAIN LowerCase) /\ Tree \subseteq Seq(DOMAIN LowerCase)
  /\ \A p \in Tree : p # <<>> => SubSeq(p, 1, Len(p) - 1) \in Places
ASSUME CallsAssumption ==
  /\ Offsets \subseteq Int /\ Counts \subseteq Nat /\ MaxOpens \in Nat
  /\ Preemptive \in BOOLEAN /\ Shared \in BOOLEAN

VARIABLES
  files,      \* g_files: handle -> stream
  nextHandle, \* g_nextFileHandle
  opens,      \* streams opened so far
  stream,     \* stream -> [state, name, path, pos], the library's FILE
  mid,        \* thread -> where it is inside a call
  answer      \* what the call that returned last did, and to whom

vars == <<files, nextHandle, opens, stream, mid, answer>>

\* A call on a stream; was and size are what it has measured so far.
Call(op, h, s, offset, count) ==
  [op |-> op, handle |-> h, stream |-> s, offset |-> offset, count |-> count,
   was |-> 0, size |-> 0]
Idle == Call("idle", 0, 0, Current, 0)
Unopened == [state |-> "unopened", name |-> Empty, path |-> <<>>, pos |-> 0]

Init ==
  /\ files = [h \in {} |-> 0]
  /\ nextHandle = 1
  /\ opens = 0
  /\ stream = [s \in Streams |-> Unopened]
  /\ mid = [t \in Threads |-> Idle]
  /\ answer = [did |-> [status |-> "none"]]

Returns(t, what) == /\ answer' = [to |-> t, did |-> what]
                    /\ mid' = [mid EXCEPT ![t] = Idle]

\* The run token, or the title's own discipline, keeps calls apart; an open
\* (handle 0) shares nothing with another.
Enters(t, h) ==
  /\ mid[t] = Idle
  /\ Preemptive \/ \A u \in Threads : mid[u] = Idle
  /\ \/ Shared \/ h = 0
     \/ \A u \in Threads : mid[u].op = "idle" \/ mid[u].handle # h

-----------------------------------------------------------------------------
Like(a, b) == LowerCase[a] = LowerCase[b]
Entries(folder) ==
  {p \in Tree : p # <<>> /\ SubSeq(p, 1, Len(p) - 1) = folder}

\* Mutation: the directory is not searched.
Below_Exact(folder, part) == {Append(folder, part)}

(* Where a component leads: to the entry spelled like it, else to the first *)
(* that readdir finds to match, else to a path that does not exist.         *)
Below(folder, part) ==
  LET matches == {p \in Entries(folder) : Like(p[Len(p)], part)}
  IN IF Append(folder, part) \in Tree THEN {Append(folder, part)}
     ELSE IF matches # {} THEN matches
     ELSE {Append(folder, part)}

Resolve(name) ==
  LET after[i \in 0 .. Len(name)] ==
        IF i = 0 THEN {<<>>}
        ELSE IF name[i] \in {"", "."} THEN after[i - 1]
        ELSE UNION {Below(folder, name[i]) : folder \in after[i - 1]}
  IN after[Len(name)]

\* TranslatePath: the empty name is the game directory itself.
TranslatePath(name) == Resolve(name)

-----------------------------------------------------------------------------
\* NtCreateFile or NtOpenFile opens a file, MODEL BOUND: MaxOpens.  Only
\* NtCreateFile refuses the empty name.
Opens(t) ==
  /\ Enters(t, 0) /\ opens < MaxOpens
  /\ \E name \in Names, creates \in BOOLEAN :
     \E path \in TranslatePath(name) \intersect Places :
       /\ ~(creates /\ name = Empty)
       /\ stream' = [stream EXCEPT ![opens + 1] =
            [state |-> "open", name |-> name, path |-> path, pos |-> 0]]
       /\ opens' = opens + 1
       /\ mid' = [mid EXCEPT ![t] = Call("insert", 0, opens + 1, Current, 0)]
  /\ UNCHANGED <<files, nextHandle, answer>>

Misses(t) ==
  /\ Enters(t, 0)
  /\ \E name \in Names, creates \in BOOLEAN :
       /\ \/ creates /\ name = Empty
          \/ TranslatePath(name) \ Places # {}
       /\ Returns(t, [status |-> "not found", name |-> name])
  /\ UNCHANGED <<files, nextHandle, opens, stream>>

\* Mutation: the counter stays where it was.
Insert_Same(t) ==
  /\ mid[t].op = "insert"
  /\ files' = [h \in DOMAIN files \union {nextHandle} |->
                IF h = nextHandle THEN mid[t].stream ELSE files[h]]
  /\ Returns(t, [status |-> "success", handle |-> nextHandle])
  /\ UNCHANGED <<nextHandle, opens, stream>>

\* The rest of the open, under the mutex of the table.
Insert(t) ==
  /\ mid[t].op = "insert"
  /\ files' = [h \in DOMAIN files \union {nextHandle} |->
                IF h = nextHandle THEN mid[t].stream ELSE files[h]]
  /\ nextHandle' = nextHandle + 1
  /\ Returns(t, [status |-> "success", handle |-> nextHandle])
  /\ UNCHANGED <<opens, stream>>

-----------------------------------------------------------------------------
(* FileForHandle, the first step of each other call: an unknown handle      *)
(* makes it fail, a known one gives a stream that is used afterwards.       *)
Finds(t, h, op, offset, count) ==
  /\ Enters(t, h) /\ h \in DOMAIN files
  /\ mid' = [mid EXCEPT ![t] = Call(op, h, files[h], offset, count)]
  /\ UNCHANGED <<files, nextHandle, opens, stream, answer>>

NtReadFile(t, h) ==
  \E offset \in Offsets \union {Current}, count \in Counts :
    Finds(t, h, "read at", offset, count)
NtQueryInformationFile(t, h) == Finds(t, h, "query", Current, 0)
NtSetInformationFile(t, h) ==
  \E offset \in Offsets : Finds(t, h, "seek", offset, 0)

\* NtSetInformationFile does not look whether there is a file.
Refuses(t, h) ==
  /\ Enters(t, h) /\ h \notin DOMAIN files
  /\ \E status \in {"invalid handle", "success"} :
       Returns(t, [status |-> status])
  /\ UNCHANGED <<files, nextHandle, opens, stream>>

-----------------------------------------------------------------------------
Within(t, op) == mid[t].op = op
Pos(t) == stream[mid[t].stream].pos
File(t) == stream[mid[t].stream].path
MovesTo(t, pos) == stream' = [stream EXCEPT ![mid[t].stream].pos = pos]

Lesser(a, b) == IF a < b THEN a ELSE b
Left(path, pos) == IF pos < Length[path] THEN Length[path] - pos ELSE 0

\* fseek(f, offset, SEEK_SET) fails when the offset is negative.
Sought(t) == IF mid[t].offset < 0 THEN Pos(t) ELSE mid[t].offset

\* Mutation: the offset of the call is not looked at.
SeekFirst_Not(t) ==
  /\ Within(t, "read at")
  /\ mid' = [mid EXCEPT ![t].op = "read", ![t].was = Pos(t)]
  /\ UNCHANGED <<files, nextHandle, opens, stream, answer>>

\* NtReadFile, fseek: was remembers the position before.
SeekFirst(t) ==
  /\ Within(t, "read at")
  /\ MovesTo(t, Sought(t))
  /\ mid' = [mid EXCEPT ![t].op = "read", ![t].was = Pos(t)]
  /\ UNCHANGED <<files, nextHandle, opens, answer>>

\* NtReadFile, fread; with a count of 0 it succeeds.
Reads(t) ==
  LET n == Lesser(mid[t].count, Left(File(t), Pos(t))) IN
  /\ Within(t, "read")
  /\ MovesTo(t, Pos(t) + n)
  /\ Returns(t, [status |-> IF n = 0 /\ mid[t].count # 0
                            THEN "end of file" ELSE "success",
                 offset |-> mid[t].offset, count |-> mid[t].count,
                 file |-> File(t), from |-> Pos(t), n |-> n])
  /\ UNCHANGED <<files, nextHandle, opens>>

\* NtQueryInformationFile measures the file by moving to its end ...
TellAndSeekEnd(t) ==
  \/ /\ Within(t, "query")
     /\ mid' = [mid EXCEPT ![t].op = "to end", ![t].was = Pos(t)]
     /\ UNCHANGED <<files, nextHandle, opens, stream, answer>>
  \/ /\ Within(t, "to end")
     /\ MovesTo(t, Size[File(t)])
     /\ mid' = [mid EXCEPT ![t].op = "tell"]
     /\ UNCHANGED <<files, nextHandle, opens, answer>>
  \/ /\ Within(t, "tell")
     /\ mid' = [mid EXCEPT ![t].op = "back", ![t].size = Pos(t)]
     /\ UNCHANGED <<files, nextHandle, opens, stream, answer>>

\* ... and back to where it was.
SeekBack(t) ==
  /\ Within(t, "back")
  /\ MovesTo(t, mid[t].was)
  /\ Returns(t, [status |-> "success", pos |-> mid[t].was,
                 size |-> mid[t].size])
  /\ UNCHANGED <<files, nextHandle, opens>>

\* NtSetInformationFile, fseek.
Seeks(t) ==
  /\ Within(t, "seek")
  /\ MovesTo(t, Sought(t))
  /\ Returns(t, [status |-> "success", offset |-> mid[t].offset])
  /\ UNCHANGED <<files, nextHandle, opens>>

\* NtClose, all of it under the mutex.
NtClose(t, h) ==
  /\ Enters(t, h) /\ h \in DOMAIN files
  /\ stream' = [stream EXCEPT ![files[h]].state = "closed"]
  /\ files' = [g \in DOMAIN files \ {h} |-> files[g]]
  /\ Returns(t, [status |-> "success"])
  /\ UNCHANGED <<nextHandle, opens>>

Next ==
  \E t \in Threads :
    \/ Opens(t) \/ Misses(t) \/ Insert(t)
    \/ \E h \in Handles :
         \/ NtReadFile(t, h) \/ NtQueryInformationFile(t, h)
         \/ NtSetInformationFile(t, h) \/ NtClose(t, h) \/ Refuses(t, h)
    \/ SeekFirst(t) \/ Reads(t)
    \/ TellAndSeekEnd(t) \/ SeekBack(t) \/ Seeks(t)

Spec == Init /\ [][Next]_vars

-----------------------------------------------------------------------------
StreamRecords == [state: {"unopened", "open", "closed"}, pos: Nat,
                  name: Names \union {Empty}, path: Places]
Ops == {"idle", "insert", "read at", "read", "query", "to end", "tell",
        "back", "seek"}

(* Type invariant: the table maps handles given out to opened streams.      *)
TypeOK ==
  /\ nextHandle \in Nat \ {0} /\ opens \in 0 .. MaxOpens
  /\ DOMAIN files \subseteq 1 .. nextHandle - 1
  /\ \A h \in DOMAIN files : files[h] \in 1 .. opens
  /\ stream \in [Streams -> StreamRecords]
  /\ mid \in [Threads ->
       [op: Ops, handle: Handles \union {0}, stream: 0 .. opens,
        offset: Offsets \union {Current}, count: Counts \union {0},
        was: Nat, size: Nat]]

(* A stream that was opened is named by one handle of the table, or is on   *)
(* its way into it in one call, until it is closed, once: an open that      *)
(* fails, and any order of opens and closes, leaks no stream and lets no    *)
(* handle name a stream of another (NtCreateFile, NtClose, g_files).        *)
StreamsAccounted ==
  \A s \in Streams :
    LET named  == {h \in DOMAIN files : files[h] = s}
        coming == {t \in Threads : mid[t].op = "insert" /\ mid[t].stream = s}
    IN /\ stream[s].state # "open" => named = {} /\ coming = {}
       /\ stream[s].state = "open" =>
            \/ coming = {} /\ \E h \in named : named = {h}
            \/ named = {} /\ \E t \in coming : coming = {t}

(* A call never uses a stream that was closed after FileForHandle returned  *)
(* it, as long as nobody closes a handle another thread is using.           *)
NoUseAfterClose ==
  \A t \in Threads : mid[t].op # "idle" => stream[mid[t].stream].state = "open"

\* The components of a name that say something.
Parts(name) ==
  LET before[i \in 0 .. Len(name)] ==
        IF i = 0 THEN <<>>
        ELSE IF name[i] \in {"", "."} THEN before[i - 1]
        ELSE Append(before[i - 1], name[i])
  IN before[Len(name)]
Spells(name, path) ==
  /\ Len(path) = Len(Parts(name))
  /\ \A i \in 1 .. Len(path) : Like(path[i], Parts(name)[i])

\* No directory on the way has two entries that differ only by case.
Unambiguous(name) ==
  \A i \in 0 .. Len(name), p, q \in Places :
    Spells(SubSeq(name, 1, i), p) /\ Spells(SubSeq(name, 1, i), q) => p = q

(* A name opens the file spelled exactly like it; if there is none, one     *)
(* spelled like it but for case; and it is not found only if nothing is     *)
(* (ResolveCaseInsensitive), unless entries of one directory differ only    *)
(* by case, where a match may hide the directory that has the file.         *)
NamesResolve ==
  /\ \A s \in Streams : stream[s].state = "open" =>
       /\ Spells(stream[s].name, stream[s].path)
       /\ Parts(stream[s].name) \in Places =>
            stream[s].path = Parts(stream[s].name)
  /\ answer.did.status = "not found" =>
       LET name == answer.did.name
       IN \/ name = Empty
          \/ /\ Parts(name) \notin Places
             /\ Unambiguous(name) => \A p \in Places : ~Spells(name, p)

(* The position of a handle as the title sees it: what a call does to it    *)
(* on the way does not count.                                               *)
SettledPos(h) ==
  IF \E t \in Threads : mid[t].handle = h
                        /\ mid[t].op \in {"read", "to end", "tell", "back"}
  THEN mid[CHOOSE t \in Threads : mid[t].handle = h /\
             mid[t].op \in {"read", "to end", "tell", "back"}].was
  ELSE stream[files[h]].pos

Promise == INSTANCE OpenFiles WITH
  Files <- Places,
  Offsets <- Offsets \union {Current},
  open <- [h \in DOMAIN files |->
            [file |-> stream[files[h]].path, pos |-> SettledPos(h)]],
  used <- 1 .. nextHandle - 1,
  answer <- IF answer.did.status = "not found"
            THEN [to |-> answer.to, did |-> [status |-> "not found"]] ELSE answer

(* Each call is one step on the handle it was given: a read returns the     *)
(* bytes at its offset, or where the last call on that handle left off, a   *)
(* query moves nothing and reports position and size of one file, handles   *)
(* are not given twice, whatever the other threads do on theirs.            *)
ImplementsOpenFiles == Promise!Spec
==============================================================================
