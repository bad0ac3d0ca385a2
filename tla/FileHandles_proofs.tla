------------------------- MODULE FileHandles_proofs -------------------------
(***************************************************************************)
(* Every stream has one handle and no call uses a closed one, for any      *)
(* threads, any folder tree and any number of files.  The first needs that *)
(* streams are opened in order and that an open on its way into the table  *)
(* holds the only reference; the second that the title does not close a    *)
(* handle another thread is using.  Under the same discipline the file     *)
(* calls implement OpenFiles.  That a name opens the file it spells is     *)
(* about the two recursive functions Parts and Below: the least index at   *)
(* which a statement about them fails takes the place of an induction.     *)
(***************************************************************************)
EXTENDS FileHandles, FiniteSetTheorems, WellFoundedInduction, TLAPS

LEMMA LeftType ==
  ASSUME NEW p \in Places, NEW n \in Nat
  PROVE  Left(p, n) \in Nat
<1>1. Length[p] \in Nat  BY DiskAssumption
<1> QED  BY <1>1 DEF Left

\* Whoever is inside a call has a stream.
HasStream == \A t \in Threads : mid[t].op # "idle" => mid[t].stream \in 1 .. opens

TypeInv == TypeOK /\ HasStream

LEMMA TypeInit == Init => TypeInv
<1> SUFFICES ASSUME Init PROVE TypeInv
  OBVIOUS
<1>1. opens \in 0 .. MaxOpens /\ nextHandle \in Nat \ {0}
  BY CallsAssumption DEF Init
<1>2. DOMAIN files = {}  BY DEF Init
<1>3. stream \in [Streams -> StreamRecords]
  BY DEF Init, Unopened, StreamRecords, Empty, Places
<1>4. mid \in [Threads ->
        [op: Ops, handle: Handles \union {0}, stream: 0 .. opens,
         offset: Offsets \union {Current}, count: Counts \union {0},
         was: Nat, size: Nat]]
  BY DEF Init, Idle, Call, Ops
<1>5. \A t \in Threads : mid[t].op = "idle"  BY DEF Init, Idle, Call
<1> QED  BY <1>1, <1>2, <1>3, <1>4, <1>5 DEF TypeInv, TypeOK, HasStream
Calls(n) == [op: Ops, handle: Handles \union {0}, stream: 0 .. n,
             offset: Offsets \union {Current}, count: Counts \union {0},
             was: Nat, size: Nat]

LEMMA CountsAndOffsets == Counts \subseteq Nat /\ Offsets \subseteq Int
BY CallsAssumption, Zenon

LEMMA CallReturns ==
  ASSUME TypeInv, NEW t \in Threads, NEW what, Returns(t, what), opens' = opens
  PROVE  /\ mid' \in [Threads -> Calls(opens)]
         /\ \A u \in Threads : mid'[u] = IF u = t THEN Idle ELSE mid[u]
         /\ HasStream'
<1>1. mid' = [mid EXCEPT ![t] = Idle]  BY DEF Returns
<1>2. Idle \in Calls(opens) /\ Idle.op = "idle"
  <2>1. opens \in Nat  BY CallsAssumption DEF TypeInv, TypeOK
  <2> QED  BY <2>1 DEF Idle, Call, Calls, Ops
<1>3. mid \in [Threads -> Calls(opens)]  BY DEF TypeInv, TypeOK, Calls
<1>4. \A u \in Threads : mid'[u] = IF u = t THEN Idle ELSE mid[u]
  BY <1>1, <1>3
<1>5. HasStream'
  <2> SUFFICES ASSUME NEW u \in Threads, mid'[u].op # "idle"
               PROVE  mid'[u].stream \in 1 .. opens'
    BY DEF HasStream
  <2>1. u # t  BY <1>2, <1>4
  <2> QED  BY <1>4, <2>1 DEF TypeInv, HasStream
<1> QED  BY <1>1, <1>2, <1>3, <1>4, <1>5

\* A step inside a call: op changes and was or size with it.
LEMMA CallGoesOn ==
  ASSUME TypeInv, NEW t \in Threads, NEW m \in Calls(opens'),
         mid' = [mid EXCEPT ![t] = m], opens' \in Nat, opens <= opens',
         m.stream # 0
  PROVE  /\ mid' \in [Threads -> Calls(opens')]
         /\ \A u \in Threads : mid'[u] = IF u = t THEN m ELSE mid[u]
         /\ HasStream'
<1>1. mid \in [Threads -> Calls(opens)] /\ opens \in Nat
  BY CallsAssumption DEF TypeInv, TypeOK, Calls
<1>2. \A c \in Calls(opens) : c \in Calls(opens')  BY <1>1 DEF Calls
<1>3. \A u \in Threads : mid'[u] = IF u = t THEN m ELSE mid[u]  BY <1>1
<1>4. mid' \in [Threads -> Calls(opens')]  BY <1>1, <1>2
<1>5. HasStream'
  <2> SUFFICES ASSUME NEW u \in Threads, mid'[u].op # "idle"
               PROVE  mid'[u].stream \in 1 .. opens'
    BY DEF HasStream
  <2>1. CASE u = t
    <3>1. m.stream \in 0 .. opens'  BY DEF Calls
    <3> QED  BY <1>3, <2>1, <3>1
  <2>2. CASE u # t
    <3>1. mid[u].stream \in 1 .. opens  BY <1>3, <2>2 DEF TypeInv, HasStream
    <3> QED  BY <1>1, <1>3, <2>2, <3>1
  <2> QED  BY <2>1, <2>2
<1> QED  BY <1>3, <1>4, <1>5

\* The move of a stream keeps its type.
LEMMA MoveType ==
  ASSUME TypeInv, NEW t \in Threads, NEW pos \in Nat, MovesTo(t, pos)
  PROVE  /\ stream' \in [Streams -> StreamRecords]
         /\ \A s \in Streams : /\ stream'[s].state = stream[s].state
                               /\ stream'[s].path = stream[s].path
                               /\ stream'[s].name = stream[s].name
<1>. DEFINE k == mid[t].stream
<1>1. stream \in [Streams -> StreamRecords]  BY DEF TypeInv, TypeOK
<1>2. stream' = [stream EXCEPT ![k].pos = pos]  BY DEF MovesTo
<1> HIDE DEF k
<1>3. \A s \in Streams :
        stream'[s] = IF s = k THEN [stream[s] EXCEPT !.pos = pos] ELSE stream[s]
  BY <1>1, <1>2
<1>4. \A s \in Streams : stream'[s] \in StreamRecords
                         /\ stream'[s].state = stream[s].state
                         /\ stream'[s].path = stream[s].path
                         /\ stream'[s].name = stream[s].name
  BY <1>1, <1>3 DEF StreamRecords
<1>5. stream' = [s \in Streams |-> stream'[s]]  BY <1>1, <1>2
<1> QED  BY <1>4, <1>5
\* A call inside the kernel works on a stream that has been opened.
LEMMA InsideType ==
  ASSUME TypeInv, NEW t \in Threads, mid[t].op # "idle"
  PROVE  /\ mid[t] \in Calls(opens) /\ mid[t].stream \in 1 .. opens
         /\ mid[t].stream \in Streams
         /\ Pos(t) \in Nat /\ File(t) \in Places /\ Sought(t) \in Nat
         /\ opens \in Nat /\ mid[t].count \in Nat
<1>1. mid[t] \in Calls(opens) /\ opens \in 0 .. MaxOpens
  BY DEF TypeInv, TypeOK, Calls
<1>2. mid[t].stream \in 1 .. opens  BY DEF TypeInv, HasStream
<1>3. mid[t].stream \in Streams  BY <1>1, <1>2, CallsAssumption DEF Streams
<1>4. stream[mid[t].stream] \in StreamRecords  BY <1>3 DEF TypeInv, TypeOK
<1>5. Pos(t) \in Nat /\ File(t) \in Places
  BY <1>4 DEF Pos, File, StreamRecords
<1>6. mid[t].offset \in Int
  BY <1>1, CallsAssumption DEF Calls, Current
<1>7. Sought(t) \in Nat  BY <1>5, <1>6 DEF Sought
<1>8. mid[t].count \in Nat
  <2>1. mid[t].count \in Counts \union {0}  BY <1>1 DEF Calls
  <2> QED  BY <2>1, CountsAndOffsets
<1> QED  BY <1>1, <1>2, <1>3, <1>5, <1>7, <1>8, CallsAssumption

LEMMA SameTable ==
  ASSUME TypeInv, UNCHANGED <<files, nextHandle, opens>>,
         stream' \in [Streams -> StreamRecords], mid' \in [Threads -> Calls(opens)],
         HasStream'
  PROVE  TypeInv'
BY DEF TypeInv, TypeOK, Calls

LEMMA TypeStep ==
  ASSUME TypeInv, [Next]_vars
  PROVE  TypeInv'
<1>1. CASE UNCHANGED vars
  BY <1>1 DEF vars, TypeInv, TypeOK, HasStream
<1>. SUFFICES ASSUME NEW t \in Threads,
                     \/ Opens(t) \/ Misses(t) \/ Insert(t)
                     \/ \E h \in Handles :
                          \/ NtReadFile(t, h) \/ NtQueryInformationFile(t, h)
                          \/ NtSetInformationFile(t, h) \/ NtClose(t, h)
                          \/ Refuses(t, h)
                     \/ SeekFirst(t) \/ Reads(t)
                     \/ TellAndSeekEnd(t) \/ SeekBack(t) \/ Seeks(t)
              PROVE  TypeInv'
  BY <1>1 DEF Next
<1>2. /\ opens \in 0 .. MaxOpens /\ opens \in Nat /\ MaxOpens \in Nat
      /\ nextHandle \in Nat \ {0}
      /\ DOMAIN files \subseteq 1 .. nextHandle - 1
      /\ \A h \in DOMAIN files : files[h] \in 1 .. opens
      /\ stream \in [Streams -> StreamRecords]
      /\ mid \in [Threads -> Calls(opens)]
  BY CallsAssumption DEF TypeInv, TypeOK, Calls
<1>3. CASE Opens(t)
  <2>1. PICK name \in Names, path \in Places :
          /\ opens < MaxOpens /\ opens' = opens + 1
          /\ stream' = [stream EXCEPT ![opens + 1] =
               [state |-> "open", name |-> name, path |-> path, pos |-> 0]]
          /\ mid' = [mid EXCEPT ![t] = Call("insert", 0, opens + 1, Current, 0)]
          /\ UNCHANGED <<files, nextHandle>>
    BY <1>3 DEF Opens
  <2>. DEFINE m == Call("insert", 0, opens + 1, Current, 0)
  <2>2. m \in Calls(opens') /\ m.stream # 0
    <3>1. opens + 1 \in 0 .. opens' /\ opens + 1 # 0  BY <1>2, <2>1
    <3> QED  BY <3>1 DEF Call, Calls, Ops
  <2>3. opens' \in 0 .. MaxOpens /\ opens' \in Nat /\ opens <= opens'
    BY <1>2, <2>1
  <2>4. mid' = [mid EXCEPT ![t] = m]  BY <2>1
  <2> HIDE DEF m
  <2>5. mid' \in [Threads -> Calls(opens')] /\ HasStream'
    BY <2>2, <2>3, <2>4, CallGoesOn
  <2>6. stream' \in [Streams -> StreamRecords]  BY <1>2, <2>1 DEF StreamRecords
  <2>7. \A h \in DOMAIN files' : files'[h] \in 1 .. opens'  BY <1>2, <2>1
  <2> QED  BY <1>2, <2>1, <2>3, <2>5, <2>6, <2>7 DEF TypeInv, TypeOK, Calls
<1>4. CASE Misses(t)
  <2>1. PICK what : Returns(t, what)  BY <1>4 DEF Misses
  <2>2. UNCHANGED <<files, nextHandle, opens, stream>>  BY <1>4 DEF Misses
  <2> QED  BY <1>2, <2>1, <2>2, CallReturns, SameTable
<1>5. CASE Insert(t)
  <2>1. PICK what : Returns(t, what)  BY <1>5 DEF Insert
  <2>2. mid[t].op = "insert" /\ nextHandle' = nextHandle + 1
        /\ UNCHANGED <<opens, stream>>
        /\ files' = [h \in DOMAIN files \union {nextHandle} |->
                       IF h = nextHandle THEN mid[t].stream ELSE files[h]]
    BY <1>5 DEF Insert
  <2>3. mid' \in [Threads -> Calls(opens)] /\ HasStream'
    BY <2>1, <2>2, CallReturns
  <2>4. mid[t].stream \in 1 .. opens  BY <2>2, InsideType
  <2>5. DOMAIN files' \subseteq 1 .. nextHandle' - 1  BY <1>2, <2>2
  <2>6. \A h \in DOMAIN files' : files'[h] \in 1 .. opens'
    BY <1>2, <2>2, <2>4
  <2>7. nextHandle' \in Nat \ {0}  BY <1>2, <2>2
  <2> QED  BY <1>2, <2>2, <2>3, <2>5, <2>6, <2>7 DEF TypeInv, TypeOK, Calls
<1>6. ASSUME NEW h \in Handles,
             \/ NtReadFile(t, h) \/ NtQueryInformationFile(t, h)
             \/ NtSetInformationFile(t, h)
      PROVE  TypeInv'
  <2>1. PICK op \in Ops, offset \in Offsets \union {Current},
             count \in Counts \union {0} : Finds(t, h, op, offset, count)
    BY <1>6 DEF NtReadFile, NtQueryInformationFile, NtSetInformationFile, Ops
  <2>. DEFINE m == Call(op, h, files[h], offset, count)
  <2>2. files[h] \in 1 .. opens  BY <1>2, <2>1 DEF Finds
  <2>3. m \in Calls(opens) /\ m.stream # 0
    <3>1. files[h] \in 0 .. opens /\ files[h] # 0  BY <1>2, <2>2
    <3> QED  BY <3>1 DEF Call, Calls
  <2>4. mid' = [mid EXCEPT ![t] = m] /\ UNCHANGED <<files, nextHandle, opens, stream>>
    BY <2>1 DEF Finds
  <2> HIDE DEF m
  <2>5. m \in Calls(opens') /\ opens' \in Nat /\ opens <= opens'
    BY <1>2, <2>3, <2>4
  <2>6. mid' \in [Threads -> Calls(opens)] /\ HasStream'
    BY <2>3, <2>4, <2>5, CallGoesOn
  <2> QED  BY <1>2, <2>4, <2>6, SameTable
<1>7. ASSUME NEW h \in Handles, NtClose(t, h) PROVE TypeInv'
  <2>1. PICK what : Returns(t, what)  BY <1>7 DEF NtClose
  <2>2. /\ h \in DOMAIN files /\ UNCHANGED <<nextHandle, opens>>
        /\ stream' = [stream EXCEPT ![files[h]].state = "closed"]
        /\ files' = [g \in DOMAIN files \ {h} |-> files[g]]
    BY <1>7 DEF NtClose
  <2>3. mid' \in [Threads -> Calls(opens)] /\ HasStream'
    BY <2>1, <2>2, CallReturns
  <2>4. stream' \in [Streams -> StreamRecords]
    <3>1. \A s \in Streams : [stream[s] EXCEPT !.state = "closed"] \in StreamRecords
      BY <1>2 DEF StreamRecords
    <3> QED  BY <1>2, <2>2, <3>1
  <2>5. DOMAIN files' \subseteq 1 .. nextHandle' - 1  BY <1>2, <2>2
  <2>6. \A g \in DOMAIN files' : files'[g] \in 1 .. opens'  BY <1>2, <2>2
  <2> QED  BY <1>2, <2>2, <2>3, <2>4, <2>5, <2>6 DEF TypeInv, TypeOK, Calls
<1>8. ASSUME NEW h \in Handles, Refuses(t, h) PROVE TypeInv'
  <2>1. PICK what : Returns(t, what)  BY <1>8 DEF Refuses
  <2>2. UNCHANGED <<files, nextHandle, opens, stream>>  BY <1>8 DEF Refuses
  <2> QED  BY <1>2, <2>1, <2>2, CallReturns, SameTable
<1>9. CASE SeekFirst(t)
  <2>1. mid[t].op = "read at" /\ MovesTo(t, Sought(t))
        /\ UNCHANGED <<files, nextHandle, opens>>
    BY <1>9 DEF SeekFirst, Within
  <2>2. /\ mid[t] \in Calls(opens) /\ mid[t].stream \in 1 .. opens
        /\ Pos(t) \in Nat /\ Sought(t) \in Nat
    BY <2>1, InsideType
  <2>3. PICK m \in Calls(opens) : mid' = [mid EXCEPT ![t] = m] /\ m.stream # 0
    <3>1. [mid[t] EXCEPT !.op = "read", !.was = Pos(t)] \in Calls(opens)
      BY <2>2 DEF Calls, Ops
    <3>2. [mid[t] EXCEPT !.op = "read", !.was = Pos(t)].stream # 0
      BY <2>2 DEF Calls
    <3>3. mid' = [mid EXCEPT ![t] = [mid[t] EXCEPT !.op = "read", !.was = Pos(t)]]
      BY <1>9 DEF SeekFirst
    <3> QED  BY <3>1, <3>2, <3>3
  <2>4. m \in Calls(opens') /\ opens' \in Nat /\ opens <= opens'
    <3>1. opens' = opens  BY <2>1
    <3> QED  BY <1>2, <2>3, <3>1
  <2>5. mid' \in [Threads -> Calls(opens)] /\ HasStream'
    BY <2>1, <2>3, <2>4, CallGoesOn
  <2>6. stream' \in [Streams -> StreamRecords]  BY <2>1, <2>2, MoveType
  <2> QED  BY <2>1, <2>5, <2>6, SameTable
<1>10. CASE Reads(t)
  <2>. DEFINE n == Lesser(mid[t].count, Left(File(t), Pos(t)))
  <2>1. mid[t].op = "read" /\ MovesTo(t, Pos(t) + n)
        /\ UNCHANGED <<files, nextHandle, opens>>
    BY <1>10 DEF Reads, Within
  <2>2. PICK what : Returns(t, what)  BY <1>10 DEF Reads
  <2>3. mid[t] \in Calls(opens) /\ Pos(t) \in Nat /\ File(t) \in Places
    BY <2>1, InsideType
  <2>4. mid[t].count \in Nat  BY <2>1, InsideType
  <2>5. n \in Nat  BY <2>3, <2>4, LeftType DEF Lesser
  <2> HIDE DEF n
  <2>6. stream' \in [Streams -> StreamRecords]  BY <2>1, <2>3, <2>5, MoveType
  <2> QED  BY <2>1, <2>2, <2>6, CallReturns, SameTable
<1>11. CASE TellAndSeekEnd(t)
  <2>1. PICK m \in Calls(opens) :
          mid' = [mid EXCEPT ![t] = m] /\ m.stream # 0
    <3>1. mid[t].op # "idle"  BY <1>11 DEF TellAndSeekEnd, Within
    <3>2. mid[t] \in Calls(opens) /\ mid[t].stream \in 1 .. opens /\ Pos(t) \in Nat
      BY <3>1, InsideType
    <3>3. /\ [mid[t] EXCEPT !.op = "to end", !.was = Pos(t)] \in Calls(opens)
          /\ [mid[t] EXCEPT !.op = "tell"] \in Calls(opens)
          /\ [mid[t] EXCEPT !.op = "back", !.size = Pos(t)] \in Calls(opens)
      BY <3>2 DEF Calls, Ops
    <3>4. mid[t].stream # 0  BY <1>2, <3>2
    <3>5. /\ [mid[t] EXCEPT !.op = "to end", !.was = Pos(t)].stream # 0
          /\ [mid[t] EXCEPT !.op = "tell"].stream # 0
          /\ [mid[t] EXCEPT !.op = "back", !.size = Pos(t)].stream # 0
      BY <3>2, <3>4 DEF Calls
    <3>6. \/ mid' = [mid EXCEPT ![t] =
                       [mid[t] EXCEPT !.op = "to end", !.was = Pos(t)]]
          \/ mid' = [mid EXCEPT ![t] = [mid[t] EXCEPT !.op = "tell"]]
          \/ mid' = [mid EXCEPT ![t] =
                       [mid[t] EXCEPT !.op = "back", !.size = Pos(t)]]
      BY <1>11 DEF TellAndSeekEnd
    <3> QED  BY <3>3, <3>5, <3>6
  <2>2. UNCHANGED <<files, nextHandle, opens>>  BY <1>11 DEF TellAndSeekEnd
  <2>3. m \in Calls(opens') /\ opens' \in Nat /\ opens <= opens'  BY <1>2, <2>2
  <2>4. mid' \in [Threads -> Calls(opens)] /\ HasStream'
    BY <2>1, <2>2, <2>3, CallGoesOn
  <2>5. stream' \in [Streams -> StreamRecords]
    <3>1. CASE UNCHANGED stream  BY <1>2, <3>1
    <3>2. CASE Within(t, "to end") /\ MovesTo(t, Size[File(t)])
      <4>1. File(t) \in Places  BY <3>2, InsideType DEF Within
      <4>2. Size[File(t)] \in Nat  BY <4>1, DiskAssumption
      <4> QED  BY <3>2, <4>2, MoveType
    <3> QED  BY <1>11, <3>1, <3>2 DEF TellAndSeekEnd
  <2> QED  BY <2>2, <2>4, <2>5, SameTable
<1>12. CASE SeekBack(t)
  <2>1. mid[t].op = "back" /\ MovesTo(t, mid[t].was)
        /\ UNCHANGED <<files, nextHandle, opens>>
    BY <1>12 DEF SeekBack, Within
  <2>2. PICK what : Returns(t, what)  BY <1>12 DEF SeekBack
  <2>3. mid[t].was \in Nat  BY <1>2 DEF Calls
  <2>4. stream' \in [Streams -> StreamRecords]  BY <2>1, <2>3, MoveType
  <2> QED  BY <2>1, <2>2, <2>4, CallReturns, SameTable
<1>13. CASE Seeks(t)
  <2>1. mid[t].op = "seek" /\ MovesTo(t, Sought(t))
        /\ UNCHANGED <<files, nextHandle, opens>>
    BY <1>13 DEF Seeks, Within
  <2>2. PICK what : Returns(t, what)  BY <1>13 DEF Seeks
  <2>3. Sought(t) \in Nat  BY <2>1, InsideType
  <2>4. stream' \in [Streams -> StreamRecords]  BY <2>1, <2>3, MoveType
  <2> QED  BY <2>1, <2>2, <2>4, CallReturns, SameTable
<1> QED
  BY <1>3, <1>4, <1>5, <1>6, <1>7, <1>8, <1>9, <1>10, <1>11, <1>12, <1>13

\* The table maps handles given out to opened streams, whatever the threads do.
THEOREM TypeCorrect == Spec => []TypeOK
<1>1. Init => TypeInv  BY TypeInit
<1>2. TypeInv /\ [Next]_vars => TypeInv'  BY TypeStep
<1>3. TypeInv => TypeOK  BY DEF TypeInv
<1> QED  BY <1>1, <1>2, <1>3, PTL DEF Spec
-----------------------------------------------------------------------------
(* The references to a stream: handles of the table, and opens on their way *)
(* into it.                                                                 *)

Coming(t) == mid[t].op = "insert"
IsOpen(s) == stream[s].state = "open"

NamedAreOpen == \A h \in DOMAIN files : IsOpen(files[h])
ComingAreOpen == \A t \in Threads : Coming(t) => IsOpen(mid[t].stream)
OneHandle == \A g, h \in DOMAIN files : files[g] = files[h] => g = h
OneComing ==
  \A t, u \in Threads :
    Coming(t) /\ Coming(u) /\ mid[t].stream = mid[u].stream => t = u
NotYetNamed ==
  \A t \in Threads, h \in DOMAIN files : Coming(t) => files[h] # mid[t].stream
OpenIsReferred ==
  \A s \in Streams : IsOpen(s) =>
    \/ \E h \in DOMAIN files : files[h] = s
    \/ \E t \in Threads : Coming(t) /\ mid[t].stream = s
OpenedInOrder == \A s \in Streams : s > opens => ~ IsOpen(s)

References == /\ NamedAreOpen /\ ComingAreOpen /\ OneHandle /\ OneComing
              /\ NotYetNamed /\ OpenIsReferred /\ OpenedInOrder

LEMMA ReferencesInit == Init => References
<1> SUFFICES ASSUME Init PROVE References
  OBVIOUS
<1>1. DOMAIN files = {}  BY DEF Init
<1>2. \A t \in Threads : ~ Coming(t)  BY DEF Init, Idle, Call, Coming
<1>3. \A s \in Streams : ~ IsOpen(s)  BY DEF Init, Unopened, IsOpen
<1> QED
  BY <1>1, <1>2, <1>3 DEF References, NamedAreOpen, ComingAreOpen, OneHandle,
     OneComing, NotYetNamed, OpenIsReferred, OpenedInOrder

LEMMA ReferencesCount == TypeInv /\ References => StreamsAccounted
<1> SUFFICES ASSUME TypeInv, References, NEW s \in Streams
             PROVE  LET named  == {h \in DOMAIN files : files[h] = s}
                        coming == {t \in Threads :
                                     mid[t].op = "insert" /\ mid[t].stream = s}
                    IN /\ stream[s].state # "open" => named = {} /\ coming = {}
                       /\ stream[s].state = "open" =>
                            \/ coming = {} /\ \E h \in named : named = {h}
                            \/ named = {} /\ \E t \in coming : coming = {t}
  BY DEF StreamsAccounted
<1>. DEFINE named  == {h \in DOMAIN files : files[h] = s}
            coming == {t \in Threads : Coming(t) /\ mid[t].stream = s}
<1>1. ~ IsOpen(s) => named = {} /\ coming = {}
  BY DEF References, NamedAreOpen, ComingAreOpen
<1>2. ASSUME NEW h \in named PROVE named = {h} /\ coming = {}
  BY <1>2 DEF References, OneHandle, NotYetNamed
<1>3. ASSUME NEW t \in coming PROVE coming = {t} /\ named = {}
  BY <1>3 DEF References, OneComing, NotYetNamed
<1>4. IsOpen(s) => (\E h \in named : TRUE) \/ (\E t \in coming : TRUE)
  BY DEF References, OpenIsReferred
<1>5. IsOpen(s) => \/ coming = {} /\ \E h \in named : named = {h}
                   \/ named = {} /\ \E t \in coming : coming = {t}
  BY <1>2, <1>3, <1>4
<1> QED  BY <1>1, <1>5 DEF IsOpen, Coming

\* A step that neither opens nor closes, nor brings a stream into the table.
LEMMA ReferencesStay ==
  ASSUME TypeInv, References, UNCHANGED <<files, opens>>,
         \A s \in Streams : stream'[s].state = stream[s].state,
         \A u \in Threads : /\ Coming(u)' <=> Coming(u)
                            /\ Coming(u) => mid'[u].stream = mid[u].stream
  PROVE  References'
<1>1. \A s \in Streams : IsOpen(s)' <=> IsOpen(s)  BY DEF IsOpen
<1>2. \A h \in DOMAIN files : files[h] \in Streams
  BY CallsAssumption DEF TypeInv, TypeOK, Streams
<1>3. \A u \in Threads : Coming(u) => mid[u].stream \in Streams
  BY InsideType DEF Coming
<1>4. NamedAreOpen'
  BY <1>1, <1>2 DEF References, NamedAreOpen, IsOpen
<1>5. ComingAreOpen'
  BY <1>1, <1>3 DEF References, ComingAreOpen, IsOpen
<1>6. OneHandle' /\ OneComing' /\ NotYetNamed'
  BY DEF References, OneHandle, OneComing, NotYetNamed
<1>7. OpenIsReferred'
  BY <1>1 DEF References, OpenIsReferred
<1>8. OpenedInOrder'
  BY <1>1 DEF References, OpenedInOrder
<1> QED  BY <1>4, <1>5, <1>6, <1>7, <1>8 DEF References

\* What the calls that only look or move do to the references: nothing.
LEMMA QuietSteps ==
  ASSUME TypeInv, NEW t \in Threads,
         \/ Misses(t)
         \/ \E h \in Handles : \/ NtReadFile(t, h) \/ NtQueryInformationFile(t, h)
                               \/ NtSetInformationFile(t, h) \/ Refuses(t, h)
         \/ SeekFirst(t) \/ Reads(t) \/ TellAndSeekEnd(t) \/ SeekBack(t) \/ Seeks(t)
  PROVE  /\ UNCHANGED <<files, opens>>
         /\ \A s \in Streams : stream'[s].state = stream[s].state
         /\ \A u \in Threads : /\ Coming(u)' <=> Coming(u)
                               /\ Coming(u) => mid'[u].stream = mid[u].stream
<1>1. mid \in [Threads -> Calls(opens)] /\ opens \in Nat
  BY CallsAssumption DEF TypeInv, TypeOK, Calls
<1>2. stream \in [Streams -> StreamRecords]  BY DEF TypeInv, TypeOK
<1>3. UNCHANGED <<files, opens>>
  BY DEF Misses, NtReadFile, NtQueryInformationFile, NtSetInformationFile, Finds,
     Refuses, SeekFirst, Reads, TellAndSeekEnd, SeekBack, Seeks
<1>4. stream' = stream \/ \E pos : MovesTo(t, pos)
  BY DEF Misses, NtReadFile, NtQueryInformationFile, NtSetInformationFile, Finds,
     Refuses, SeekFirst, Reads, TellAndSeekEnd, SeekBack, Seeks
<1>5. \A s \in Streams : stream'[s].state = stream[s].state
  <2> SUFFICES ASSUME NEW pos, MovesTo(t, pos), NEW s \in Streams
               PROVE  stream'[s].state = stream[s].state
    BY <1>4
  <2>. DEFINE k == mid[t].stream
  <2>1. stream' = [stream EXCEPT ![k].pos = pos]  BY DEF MovesTo
  <2> HIDE DEF k
  <2>2. stream'[s] = IF s = k THEN [stream[s] EXCEPT !.pos = pos] ELSE stream[s]
    BY <1>2, <2>1
  <2>3. stream[s] \in StreamRecords  BY <1>2
  <2> QED  BY <2>2, <2>3 DEF StreamRecords
<1>6. ~ Coming(t) /\ \E m : mid' = [mid EXCEPT ![t] = m] /\ m.op # "insert"
  <2>1. CASE Misses(t) \/ \E h \in Handles : Refuses(t, h)
    <3>1. mid[t] = Idle /\ mid' = [mid EXCEPT ![t] = Idle]
      BY <2>1 DEF Misses, Refuses, Enters, Returns
    <3>2. Idle.op = "idle"  BY DEF Idle, Call
    <3> QED  BY <3>1, <3>2 DEF Coming
  <2>2. CASE \E h \in Handles : \/ NtReadFile(t, h) \/ NtQueryInformationFile(t, h)
                                \/ NtSetInformationFile(t, h)
    <3>. PICK h \in Handles : \/ NtReadFile(t, h) \/ NtQueryInformationFile(t, h)
                             \/ NtSetInformationFile(t, h)
      BY <2>2
    <3>0. PICK op \in {"read at", "query", "seek"} :
            \E offset, count : Finds(t, h, op, offset, count)
      <4>1. NtReadFile(t, h) => \E offset, count : Finds(t, h, "read at", offset, count)
        BY DEF NtReadFile
      <4>2. NtQueryInformationFile(t, h) => Finds(t, h, "query", Current, 0)
        BY DEF NtQueryInformationFile
      <4>3. NtSetInformationFile(t, h) => \E offset : Finds(t, h, "seek", offset, 0)
        BY DEF NtSetInformationFile
      <4> QED  BY <4>1, <4>2, <4>3, Zenon
    <3>1. PICK offset, count : Finds(t, h, op, offset, count)
      BY <3>0
    <3>2. mid[t] = Idle /\ mid' = [mid EXCEPT ![t] = Call(op, h, files[h], offset, count)]
      BY <3>1 DEF Finds, Enters
    <3>3. Call(op, h, files[h], offset, count).op = op /\ Idle.op = "idle"
      BY DEF Call, Idle
    <3> QED  BY <3>1, <3>2, <3>3 DEF Coming
  <2>3. CASE Reads(t) \/ SeekBack(t) \/ Seeks(t)
    <3>1. mid[t].op \in {"read", "back", "seek"} /\ mid' = [mid EXCEPT ![t] = Idle]
      BY <2>3 DEF Reads, SeekBack, Seeks, Within, Returns
    <3>2. Idle.op = "idle"  BY DEF Idle, Call
    <3> QED  BY <3>1, <3>2 DEF Coming
  <2>4. CASE SeekFirst(t)
    <3>1. mid[t] \in Calls(opens)  BY <1>1
    <3>2. [mid[t] EXCEPT !.op = "read", !.was = Pos(t)].op = "read"
      BY <3>1 DEF Calls
    <3>3. /\ mid[t].op = "read at"
          /\ mid' = [mid EXCEPT ![t] = [mid[t] EXCEPT !.op = "read", !.was = Pos(t)]]
      BY <2>4 DEF SeekFirst, Within
    <3> QED  BY <3>2, <3>3 DEF Coming
  <2>5. CASE TellAndSeekEnd(t)
    <3>1. mid[t] \in Calls(opens)  BY <1>1
    <3>2. /\ [mid[t] EXCEPT !.op = "to end", !.was = Pos(t)].op = "to end"
          /\ [mid[t] EXCEPT !.op = "tell"].op = "tell"
          /\ [mid[t] EXCEPT !.op = "back", !.size = Pos(t)].op = "back"
      BY <3>1 DEF Calls
    <3>3. /\ mid[t].op \in {"query", "to end", "tell"}
          /\ \/ mid' = [mid EXCEPT ![t] =
                          [mid[t] EXCEPT !.op = "to end", !.was = Pos(t)]]
             \/ mid' = [mid EXCEPT ![t] = [mid[t] EXCEPT !.op = "tell"]]
             \/ mid' = [mid EXCEPT ![t] =
                          [mid[t] EXCEPT !.op = "back", !.size = Pos(t)]]
      BY <2>5 DEF TellAndSeekEnd, Within
    <3> QED  BY <3>2, <3>3 DEF Coming
  <2> QED  BY <2>1, <2>2, <2>3, <2>4, <2>5
<1>7. \A u \in Threads : /\ Coming(u)' <=> Coming(u)
                         /\ Coming(u) => mid'[u].stream = mid[u].stream
  <2>1. PICK m : mid' = [mid EXCEPT ![t] = m] /\ m.op # "insert"  BY <1>6
  <2>2. \A u \in Threads : mid'[u] = IF u = t THEN m ELSE mid[u]  BY <1>1, <2>1
  <2> QED  BY <1>6, <2>1, <2>2 DEF Coming
<1> QED  BY <1>3, <1>5, <1>7

LEMMA ReferencesStep ==
  ASSUME TypeInv, References, [Next]_vars
  PROVE  References'
<1>1. CASE UNCHANGED vars
  BY <1>1, ReferencesStay DEF vars, Coming
<1>. SUFFICES ASSUME NEW t \in Threads,
                     \/ Opens(t) \/ Misses(t) \/ Insert(t)
                     \/ \E h \in Handles :
                          \/ NtReadFile(t, h) \/ NtQueryInformationFile(t, h)
                          \/ NtSetInformationFile(t, h) \/ NtClose(t, h)
                          \/ Refuses(t, h)
                     \/ SeekFirst(t) \/ Reads(t)
                     \/ TellAndSeekEnd(t) \/ SeekBack(t) \/ Seeks(t)
              PROVE  References'
  BY <1>1 DEF Next
<1>2. /\ opens \in Nat /\ MaxOpens \in Nat /\ nextHandle \in Nat \ {0}
      /\ DOMAIN files \subseteq 1 .. nextHandle - 1
      /\ \A h \in DOMAIN files : files[h] \in 1 .. opens /\ files[h] \in Streams
      /\ stream \in [Streams -> StreamRecords]
      /\ mid \in [Threads -> Calls(opens)]
      /\ \A u \in Threads : Coming(u) => mid[u].stream \in 1 .. opens
                                         /\ mid[u].stream \in Streams
  <2>1. opens \in 0 .. MaxOpens /\ MaxOpens \in Nat
    BY CallsAssumption DEF TypeInv, TypeOK
  <2>2. \A u \in Threads : Coming(u) => mid[u].stream \in 1 .. opens
                                        /\ mid[u].stream \in Streams
    BY InsideType DEF Coming
  <2> QED  BY <2>1, <2>2 DEF TypeInv, TypeOK, Calls, Streams
<1>3. CASE Opens(t)
  <2>. DEFINE k == opens + 1
              m == Call("insert", 0, k, Current, 0)
  <2>1. PICK name \in Names, path \in Places :
          /\ opens < MaxOpens /\ opens' = k /\ mid[t] = Idle
          /\ stream' = [stream EXCEPT ![k] =
               [state |-> "open", name |-> name, path |-> path, pos |-> 0]]
          /\ mid' = [mid EXCEPT ![t] = m]
          /\ UNCHANGED <<files, nextHandle>>
    BY <1>3 DEF Opens, Enters
  <2>2. k \in Streams /\ k \in Nat /\ k > opens  BY <1>2, <2>1 DEF Streams
  <2>3. \A s \in Streams : IsOpen(s)' <=> s = k \/ IsOpen(s)
    BY <1>2, <2>1, <2>2 DEF IsOpen
  <2>4. ~ Coming(t) /\ Coming(t)' /\ mid'[t].stream = k
    BY <1>2, <2>1 DEF Coming, Idle, Call
  <2>5. \A u \in Threads : u # t => (Coming(u)' <=> Coming(u)) /\ mid'[u] = mid[u]
    BY <1>2, <2>1 DEF Coming
  <2>6. /\ \A h \in DOMAIN files : files[h] # k
        /\ \A u \in Threads : Coming(u) => mid[u].stream # k
    BY <1>2, <2>2
  <2> HIDE DEF k, m
  <2>7. NamedAreOpen'
    BY <1>2, <2>1, <2>3 DEF References, NamedAreOpen, IsOpen
  <2>8. ComingAreOpen'
    <3> SUFFICES ASSUME NEW u \in Threads, Coming(u)'
                 PROVE  IsOpen(mid[u].stream)'
      BY DEF ComingAreOpen
    <3>1. CASE u = t
      <4>1. mid'[u].stream = k /\ stream'[k].state = "open"
        BY <2>2, <2>3, <2>4, <3>1 DEF IsOpen
      <4> QED  BY <4>1 DEF IsOpen
    <3>2. CASE u # t
      <4>1. Coming(u) /\ mid'[u].stream = mid[u].stream  BY <2>5, <3>2
      <4>2. mid[u].stream \in Streams /\ stream[mid[u].stream].state = "open"
        BY <1>2, <4>1 DEF References, ComingAreOpen, IsOpen
      <4>3. stream'[mid[u].stream].state = "open"  BY <2>3, <4>2 DEF IsOpen
      <4> QED  BY <4>1, <4>3 DEF IsOpen
    <3> QED  BY <3>1, <3>2
  <2>9. OneHandle'  BY <2>1 DEF References, OneHandle
  <2>10. OneComing'
    BY <2>4, <2>5, <2>6 DEF References, OneComing
  <2>11. NotYetNamed'
    BY <2>1, <2>4, <2>5, <2>6 DEF References, NotYetNamed
  <2>12. OpenIsReferred'
    BY <2>1, <2>3, <2>4, <2>5 DEF References, OpenIsReferred
  <2>13. OpenedInOrder'
    BY <1>2, <2>1, <2>2, <2>3 DEF References, OpenedInOrder, k, Streams
  <2> QED
    BY <2>7, <2>8, <2>9, <2>10, <2>11, <2>12, <2>13 DEF References
<1>4. CASE Insert(t)
  <2>. DEFINE k == nextHandle
  <2>1. /\ Coming(t) /\ UNCHANGED <<opens, stream>>
        /\ files' = [h \in DOMAIN files \union {k} |->
                       IF h = k THEN mid[t].stream ELSE files[h]]
        /\ mid' = [mid EXCEPT ![t] = Idle]
    BY <1>4 DEF Insert, Returns, Coming
  <2>2. k \notin DOMAIN files  BY <1>2
  <2>3. ~ Coming(t)'  BY <1>2, <2>1 DEF Coming, Idle, Call
  <2>4. \A u \in Threads : u # t => (Coming(u)' <=> Coming(u)) /\ mid'[u] = mid[u]
    BY <1>2, <2>1 DEF Coming
  <2>5. /\ DOMAIN files' = DOMAIN files \union {k}
        /\ files'[k] = mid[t].stream
        /\ \A h \in DOMAIN files : files'[h] = files[h]
    BY <2>1, <2>2
  <2>6. \A s : IsOpen(s)' <=> IsOpen(s)  BY <2>1 DEF IsOpen
  <2> HIDE DEF k
  <2>7. NamedAreOpen'
    <3> SUFFICES ASSUME NEW h \in DOMAIN files' PROVE IsOpen(files[h])'
      BY DEF NamedAreOpen
    <3>1. CASE h = k
      BY <2>1, <2>5, <3>1 DEF References, ComingAreOpen, IsOpen
    <3>2. CASE h # k
      BY <2>1, <2>5, <3>2 DEF References, NamedAreOpen, IsOpen
    <3> QED  BY <3>1, <3>2
  <2>8. ComingAreOpen'
    BY <2>1, <2>3, <2>4 DEF References, ComingAreOpen, IsOpen
  <2>9. OneHandle'
    BY <2>1, <2>2, <2>5 DEF References, OneHandle, NotYetNamed
  <2>10. OneComing'
    BY <2>3, <2>4 DEF References, OneComing
  <2>11. NotYetNamed'
    BY <2>1, <2>3, <2>4, <2>5 DEF References, NotYetNamed, OneComing
  <2>12. OpenIsReferred'
    <3> SUFFICES ASSUME NEW s \in Streams, IsOpen(s)'
                 PROVE  \/ \E h \in DOMAIN files' : files'[h] = s
                        \/ \E u \in Threads : Coming(u)' /\ mid'[u].stream = s
      BY DEF OpenIsReferred
    <3>1. IsOpen(s)  BY <2>6
    <3>2. CASE \E h \in DOMAIN files : files[h] = s  BY <2>5, <3>2
    <3>3. CASE \E u \in Threads : Coming(u) /\ mid[u].stream = s
      BY <2>4, <2>5, <3>3
    <3> QED  BY <3>1, <3>2, <3>3 DEF References, OpenIsReferred
  <2>13. OpenedInOrder'
    BY <2>1, <2>6 DEF References, OpenedInOrder
  <2> QED
    BY <2>7, <2>8, <2>9, <2>10, <2>11, <2>12, <2>13 DEF References
<1>5. ASSUME NEW h \in Handles, NtClose(t, h) PROVE References'
  <2>. DEFINE k == files[h]
  <2>1. /\ h \in DOMAIN files /\ UNCHANGED opens /\ mid[t] = Idle
        /\ stream' = [stream EXCEPT ![k].state = "closed"]
        /\ files' = [g \in DOMAIN files \ {h} |-> files[g]]
        /\ mid' = [mid EXCEPT ![t] = Idle]
    BY <1>5 DEF NtClose, Enters, Returns
  <2>2. mid' = mid  BY <1>2, <2>1
  <2>3. k \in Streams  BY <1>2, <2>1
  <2>4. \A s \in Streams : IsOpen(s)' <=> s # k /\ IsOpen(s)
    <3>1. \A s \in Streams : s # k => stream'[s] = stream[s]  BY <1>2, <2>1
    <3>2. [stream[k] EXCEPT !.state = "closed"].state = "closed"
      BY <1>2, <2>3 DEF StreamRecords
    <3>3. stream'[k] = [stream[k] EXCEPT !.state = "closed"]  BY <1>2, <2>1, <2>3
    <3> QED  BY <3>1, <3>2, <3>3 DEF IsOpen
  <2>5. /\ DOMAIN files' = DOMAIN files \ {h}
        /\ \A g \in DOMAIN files' : files'[g] = files[g] /\ files[g] # k
    BY <2>1 DEF References, OneHandle
  <2>6. \A u \in Threads : Coming(u)' <=> Coming(u)  BY <2>2 DEF Coming
  <2> HIDE DEF k
  <2>7. NamedAreOpen'
    <3> SUFFICES ASSUME NEW g \in DOMAIN files' PROVE IsOpen(files[g])'
      BY DEF NamedAreOpen
    <3>1. g \in DOMAIN files /\ files'[g] = files[g] /\ files[g] # k  BY <2>5
    <3>2. files[g] \in Streams /\ stream[files[g]].state = "open"
      BY <1>2, <3>1 DEF References, NamedAreOpen, IsOpen
    <3>3. stream'[files[g]].state = "open"  BY <2>4, <3>1, <3>2 DEF IsOpen
    <3> QED  BY <3>1, <3>3 DEF IsOpen
  <2>8. ComingAreOpen'
    <3> SUFFICES ASSUME NEW u \in Threads, Coming(u)'
                 PROVE  IsOpen(mid[u].stream)'
      BY DEF ComingAreOpen
    <3>1. Coming(u) /\ mid'[u].stream = mid[u].stream  BY <2>2, <2>6
    <3>2. mid[u].stream # k
      BY <2>1, <3>1 DEF References, NotYetNamed, k
    <3>3. mid[u].stream \in Streams /\ stream[mid[u].stream].state = "open"
      BY <1>2, <3>1 DEF References, ComingAreOpen, IsOpen
    <3>4. stream'[mid[u].stream].state = "open"  BY <2>4, <3>2, <3>3 DEF IsOpen
    <3> QED  BY <3>1, <3>4 DEF IsOpen
  <2>9. OneHandle'  BY <2>5 DEF References, OneHandle
  <2>10. OneComing'  BY <2>2, <2>6 DEF References, OneComing
  <2>11. NotYetNamed'  BY <2>2, <2>5, <2>6 DEF References, NotYetNamed
  <2>12. OpenIsReferred'
    <3> SUFFICES ASSUME NEW s \in Streams, IsOpen(s)'
                 PROVE  \/ \E g \in DOMAIN files' : files'[g] = s
                        \/ \E u \in Threads : Coming(u)' /\ mid'[u].stream = s
      BY DEF OpenIsReferred
    <3>1. IsOpen(s) /\ s # k  BY <2>4
    <3>2. CASE \E g \in DOMAIN files : files[g] = s
      BY <2>5, <3>1, <3>2 DEF k
    <3>3. CASE \E u \in Threads : Coming(u) /\ mid[u].stream = s
      BY <2>2, <2>6, <3>3
    <3> QED  BY <3>1, <3>2, <3>3 DEF References, OpenIsReferred
  <2>13. OpenedInOrder'  BY <2>1, <2>4 DEF References, OpenedInOrder
  <2> QED
    BY <2>7, <2>8, <2>9, <2>10, <2>11, <2>12, <2>13 DEF References
<1>6. CASE \/ Misses(t)
           \/ \E h \in Handles :
                \/ NtReadFile(t, h) \/ NtQueryInformationFile(t, h)
                \/ NtSetInformationFile(t, h) \/ Refuses(t, h)
           \/ SeekFirst(t) \/ Reads(t) \/ TellAndSeekEnd(t) \/ SeekBack(t) \/ Seeks(t)
  BY <1>6, QuietSteps, ReferencesStay
<1> QED  BY <1>3, <1>4, <1>5, <1>6
\* A stream that was opened has one handle, or one open that brings it into the
\* table, until it is closed: no call leaks a stream or hands one out twice.
THEOREM StreamsCorrect == Spec => []StreamsAccounted
<1>1. Init => TypeInv /\ References  BY TypeInit, ReferencesInit
<1>2. TypeInv /\ References /\ [Next]_vars => TypeInv' /\ References'
  BY TypeStep, ReferencesStep
<1>3. TypeInv /\ References => StreamsAccounted  BY ReferencesCount
<1> QED  BY <1>1, <1>2, <1>3, PTL DEF Spec

-----------------------------------------------------------------------------
(* A call on a handle still finds it in the table when nobody else may close *)
(* it.                                                                       *)

Using(t) == mid[t].op \notin {"idle", "insert"}
InTable ==
  \A t \in Threads :
    Using(t) => mid[t].handle \in DOMAIN files /\ files[mid[t].handle] = mid[t].stream

LEMMA InTableStep ==
  ASSUME ~ Shared, TypeInv, References, InTable, [Next]_vars
  PROVE  InTable'
<1>1. CASE UNCHANGED vars
  BY <1>1 DEF vars, InTable, Using
<1>. SUFFICES ASSUME NEW t \in Threads,
                     \/ Opens(t) \/ Misses(t) \/ Insert(t)
                     \/ \E h \in Handles :
                          \/ NtReadFile(t, h) \/ NtQueryInformationFile(t, h)
                          \/ NtSetInformationFile(t, h) \/ NtClose(t, h)
                          \/ Refuses(t, h)
                     \/ SeekFirst(t) \/ Reads(t)
                     \/ TellAndSeekEnd(t) \/ SeekBack(t) \/ Seeks(t)
              PROVE  InTable'
  BY <1>1 DEF Next
<1>2. mid \in [Threads -> Calls(opens)] /\ nextHandle \in Nat \ {0}
      /\ DOMAIN files \subseteq 1 .. nextHandle - 1
  BY DEF TypeInv, TypeOK, Calls
<1>3. Idle.op = "idle"  BY DEF Idle, Call
\* The threads that are not t keep their handles and their streams.
<1>4. ASSUME NEW m, mid' = [mid EXCEPT ![t] = m],
             \A u \in Threads \ {t} : Using(u) =>
               /\ mid[u].handle \in DOMAIN files'
               /\ files'[mid[u].handle] = files[mid[u].handle],
             m.op # "idle" /\ m.op # "insert" =>
               m.handle \in DOMAIN files' /\ files'[m.handle] = m.stream
      PROVE  InTable'
  <2> SUFFICES ASSUME NEW u \in Threads, Using(u)'
               PROVE  /\ mid'[u].handle \in DOMAIN files'
                      /\ files'[mid'[u].handle] = mid'[u].stream
    BY DEF InTable
  <2>1. mid'[u] = IF u = t THEN m ELSE mid[u]  BY <1>2, <1>4
  <2>2. CASE u = t  BY <1>4, <2>1, <2>2 DEF Using
  <2>3. CASE u # t  BY <1>4, <2>1, <2>3 DEF Using, InTable
  <2> QED  BY <2>2, <2>3
<1>a. ASSUME mid' = [mid EXCEPT ![t] = Idle],
             \A u \in Threads \ {t} : Using(u) =>
               /\ mid[u].handle \in DOMAIN files'
               /\ files'[mid[u].handle] = files[mid[u].handle]
      PROVE  InTable'
  <2>1. PICK m : mid' = [mid EXCEPT ![t] = m] /\ m.op = "idle"  BY <1>3, <1>a
  <2> QED  BY <1>4, <1>a, <2>1
<1>b. ASSUME UNCHANGED files
      PROVE  \A u \in Threads \ {t} : Using(u) =>
               /\ mid[u].handle \in DOMAIN files'
               /\ files'[mid[u].handle] = files[mid[u].handle]
  BY <1>b DEF InTable
<1>5. CASE Opens(t)
  <2>1. /\ mid' = [mid EXCEPT ![t] = Call("insert", 0, opens + 1, Current, 0)]
        /\ UNCHANGED files
    BY <1>5 DEF Opens
  <2>2. Call("insert", 0, opens + 1, Current, 0).op = "insert"  BY DEF Call
  <2>3. PICK m : mid' = [mid EXCEPT ![t] = m] /\ m.op = "insert"  BY <2>1, <2>2
  <2> QED  BY <1>4, <1>b, <2>1, <2>3
<1>6. CASE Misses(t) \/ Reads(t) \/ SeekBack(t) \/ Seeks(t)
           \/ \E h \in Handles : Refuses(t, h)
  <2>1. mid' = [mid EXCEPT ![t] = Idle] /\ UNCHANGED files
    BY <1>6 DEF Misses, Reads, SeekBack, Seeks, Refuses, Returns
  <2> QED  BY <1>a, <1>b, <2>1
<1>7. CASE Insert(t)
  <2>1. /\ mid' = [mid EXCEPT ![t] = Idle]
        /\ files' = [h \in DOMAIN files \union {nextHandle} |->
                       IF h = nextHandle THEN mid[t].stream ELSE files[h]]
    BY <1>7 DEF Insert, Returns
  <2>2. nextHandle \notin DOMAIN files  BY <1>2
  <2>3. \A h \in DOMAIN files : h \in DOMAIN files' /\ files'[h] = files[h]
    BY <2>1, <2>2
  <2>4. \A u \in Threads \ {t} : Using(u) =>
          /\ mid[u].handle \in DOMAIN files'
          /\ files'[mid[u].handle] = files[mid[u].handle]
    BY <2>3 DEF InTable
  <2> QED  BY <1>a, <2>1, <2>4
<1>8. ASSUME NEW h \in Handles,
             \/ NtReadFile(t, h) \/ NtQueryInformationFile(t, h)
             \/ NtSetInformationFile(t, h)
      PROVE  InTable'
  <2>1. PICK op, offset, count : Finds(t, h, op, offset, count)
    BY <1>8 DEF NtReadFile, NtQueryInformationFile, NtSetInformationFile
  <2>. DEFINE m == Call(op, h, files[h], offset, count)
  <2>2. /\ h \in DOMAIN files /\ UNCHANGED files /\ mid' = [mid EXCEPT ![t] = m]
    BY <2>1 DEF Finds
  <2>3. m.handle = h /\ m.stream = files[h]  BY DEF Call
  <2> HIDE DEF m
  <2> QED  BY <1>4, <2>2, <2>3 DEF InTable
<1>9. ASSUME NEW h \in Handles, NtClose(t, h) PROVE InTable'
  <2>1. /\ mid' = [mid EXCEPT ![t] = Idle]
        /\ files' = [g \in DOMAIN files \ {h} |-> files[g]]
        /\ \A u \in Threads : mid[u].op = "idle" \/ mid[u].handle # h
    BY <1>9 DEF NtClose, Enters, Returns, Handles
  <2>2. \A u \in Threads : Using(u) => mid[u].handle # h  BY <2>1 DEF Using
  <2>3. \A u \in Threads \ {t} : Using(u) =>
          /\ mid[u].handle \in DOMAIN files'
          /\ files'[mid[u].handle] = files[mid[u].handle]
    BY <2>1, <2>2 DEF InTable
  <2> QED  BY <1>a, <2>1, <2>3
<1>10. CASE SeekFirst(t) \/ TellAndSeekEnd(t)
  <2>1. PICK m : /\ mid' = [mid EXCEPT ![t] = m]
                 /\ m.handle = mid[t].handle /\ m.stream = mid[t].stream
    <3>1. mid[t] \in Calls(opens)  BY <1>2
    <3>2. CASE SeekFirst(t)
      <4>1. mid' = [mid EXCEPT ![t] = [mid[t] EXCEPT !.op = "read", !.was = Pos(t)]]
        BY <3>2 DEF SeekFirst
      <4>2. /\ [mid[t] EXCEPT !.op = "read", !.was = Pos(t)].handle = mid[t].handle
            /\ [mid[t] EXCEPT !.op = "read", !.was = Pos(t)].stream = mid[t].stream
        BY <3>1 DEF Calls
      <4> QED  BY <4>1, <4>2
    <3>3. CASE TellAndSeekEnd(t)
      <4>1. \/ mid' = [mid EXCEPT ![t] =
                         [mid[t] EXCEPT !.op = "to end", !.was = Pos(t)]]
            \/ mid' = [mid EXCEPT ![t] = [mid[t] EXCEPT !.op = "tell"]]
            \/ mid' = [mid EXCEPT ![t] =
                         [mid[t] EXCEPT !.op = "back", !.size = Pos(t)]]
        BY <3>3 DEF TellAndSeekEnd
      <4>2. /\ [mid[t] EXCEPT !.op = "to end", !.was = Pos(t)].handle = mid[t].handle
            /\ [mid[t] EXCEPT !.op = "to end", !.was = Pos(t)].stream = mid[t].stream
            /\ [mid[t] EXCEPT !.op = "tell"].handle = mid[t].handle
            /\ [mid[t] EXCEPT !.op = "tell"].stream = mid[t].stream
            /\ [mid[t] EXCEPT !.op = "back", !.size = Pos(t)].handle = mid[t].handle
            /\ [mid[t] EXCEPT !.op = "back", !.size = Pos(t)].stream = mid[t].stream
        BY <3>1 DEF Calls
      <4> QED  BY <4>1, <4>2
    <3> QED  BY <1>10, <3>2, <3>3
  <2>2. Using(t) /\ UNCHANGED files
    BY <1>10 DEF SeekFirst, TellAndSeekEnd, Using, Within
  <2> QED  BY <1>4, <2>1, <2>2 DEF InTable
<1> QED  BY <1>5, <1>6, <1>7, <1>8, <1>9, <1>10

\* Where the title closes no handle another thread is using, the FILE* that
\* FileForHandle returned is open for as long as the call uses it.
THEOREM NoStreamIsUsedClosed ==
  ASSUME ~ Shared
  PROVE  Spec => []NoUseAfterClose
<1>1. Init => TypeInv /\ References /\ InTable
  <2>1. Init => InTable  BY DEF Init, Idle, Call, InTable, Using
  <2> QED  BY <2>1, TypeInit, ReferencesInit
<1>2. TypeInv /\ References /\ InTable /\ [Next]_vars =>
        TypeInv' /\ References' /\ InTable'
  BY TypeStep, ReferencesStep, InTableStep
<1>3. TypeInv /\ References /\ InTable => NoUseAfterClose
  <2> SUFFICES ASSUME References, InTable, NEW t \in Threads, mid[t].op # "idle"
               PROVE  stream[mid[t].stream].state = "open"
    BY DEF NoUseAfterClose
  <2>1. CASE Coming(t)  BY <2>1 DEF References, ComingAreOpen, IsOpen
  <2>2. CASE ~ Coming(t)
    BY <2>2 DEF References, NamedAreOpen, IsOpen, InTable, Using, Coming
  <2> QED  BY <2>1, <2>2
<1> QED  BY <1>1, <1>2, <1>3, PTL DEF Spec
-----------------------------------------------------------------------------
(* The promise to the title.  Calls that use different streams do not meet,  *)
(* and what a call has measured so far still holds when it goes on.          *)

OneInside ==
  \A t, u \in Threads :
    Using(t) /\ Using(u) /\ mid[t].handle = mid[u].handle => t = u

Measured(t) ==
  /\ mid[t].op = "insert" => Pos(t) = 0
  /\ mid[t].op \in {"read at", "read"} => mid[t].count \in Counts
  /\ mid[t].op = "read" =>
       Pos(t) = IF mid[t].offset < 0 THEN mid[t].was ELSE mid[t].offset
  /\ mid[t].op = "seek" => mid[t].offset \in Offsets
  /\ mid[t].op = "tell" => Pos(t) = Size[File(t)]
  /\ mid[t].op = "back" => mid[t].size = Size[File(t)]
AllMeasured == \A t \in Threads : Measured(t)

\* The opens that have a stream and no handle yet.
Pending == {s \in 1 .. opens : \E t \in Threads : Coming(t) /\ mid[t].stream = s}
Counted == Cardinality(Pending) + nextHandle = opens + 1

CallInv == TypeInv /\ References /\ InTable /\ OneInside /\ AllMeasured /\ Counted

\* The step of t touches no stream but k, which no other thread uses.
Alone(t, k) ==
  /\ \A s \in Streams : s # k => stream'[s] = stream[s]
  /\ \A u \in Threads \ {t} :
       mid'[u] = mid[u] /\ (mid[u].op # "idle" => mid[u].stream # k)

StepOf(t) ==
  \/ Opens(t) \/ Misses(t) \/ Insert(t)
  \/ \E h \in Handles :
       \/ NtReadFile(t, h) \/ NtQueryInformationFile(t, h)
       \/ NtSetInformationFile(t, h) \/ NtClose(t, h) \/ Refuses(t, h)
  \/ SeekFirst(t) \/ Reads(t)
  \/ TellAndSeekEnd(t) \/ SeekBack(t) \/ Seeks(t)

LEMMA MidType ==
  ASSUME TypeInv
  PROVE  /\ mid \in [Threads -> Calls(opens)] /\ opens \in 0 .. MaxOpens
         /\ opens \in Nat /\ MaxOpens \in Nat
         /\ nextHandle \in Nat \ {0} /\ DOMAIN files \subseteq 1 .. nextHandle - 1
         /\ \A h \in DOMAIN files : files[h] \in 1 .. opens /\ files[h] \in Streams
         /\ stream \in [Streams -> StreamRecords]
<1>1. opens \in 0 .. MaxOpens /\ MaxOpens \in Nat
  BY CallsAssumption DEF TypeInv, TypeOK
<1> QED  BY <1>1 DEF TypeInv, TypeOK, Calls, Streams

\* Two threads inside calls use two streams.
LEMMA Apart ==
  ASSUME References, InTable, OneInside, NEW t \in Threads, NEW u \in Threads,
         mid[t].op # "idle", mid[u].op # "idle", mid[t].stream = mid[u].stream
  PROVE  t = u
<1>1. CASE Using(t) /\ Using(u)
  BY <1>1 DEF InTable, References, OneHandle, OneInside
<1>2. CASE Coming(t) /\ Coming(u)  BY <1>2 DEF References, OneComing
<1>3. CASE Coming(t) /\ Using(u)  BY <1>3 DEF InTable, References, NotYetNamed
<1>4. CASE Using(t) /\ Coming(u)  BY <1>4 DEF InTable, References, NotYetNamed
<1> QED  BY <1>1, <1>2, <1>3, <1>4 DEF Using, Coming

LEMMA MidMoves ==
  ASSUME TypeInv, NEW t \in Threads, StepOf(t)
  PROVE  \A u \in Threads \ {t} : mid'[u] = mid[u]
<1>1. mid \in [Threads -> Calls(opens)]  BY MidType
<1>2. \E m : mid' = [mid EXCEPT ![t] = m]
  BY DEF StepOf, Opens, Misses, Insert, NtReadFile, NtQueryInformationFile,
     NtSetInformationFile, NtClose, Refuses, SeekFirst, Reads, TellAndSeekEnd,
     SeekBack, Seeks, Finds, Returns
<1> QED  BY <1>1, <1>2

LEMMA AloneStep ==
  ASSUME ~ Shared, TypeInv, References, InTable, OneInside,
         NEW t \in Threads, StepOf(t)
  PROVE  \E k : Alone(t, k)
<1>1. \A u \in Threads \ {t} : mid'[u] = mid[u]  BY MidMoves
<1>2. stream \in [Streams -> StreamRecords]  BY MidType
<1>3. CASE UNCHANGED stream
  <2>1. PICK k : k \notin Streams /\ \A u \in Threads : mid[u].op # "idle" =>
                                        mid[u].stream # k
    <3>1. MaxOpens + 1 \notin Streams  BY CallsAssumption DEF Streams
    <3>2. \A u \in Threads : mid[u].op # "idle" => mid[u].stream \in Streams
      BY InsideType
    <3> QED  BY <3>1, <3>2
  <2> QED  BY <1>1, <1>3, <2>1 DEF Alone
<1>4. CASE Opens(t)
  <2>1. \A s \in Streams : s # opens + 1 => stream'[s] = stream[s]
    BY <1>2, <1>4 DEF Opens
  <2>2. \A u \in Threads : mid[u].op # "idle" => mid[u].stream # opens + 1
    <3>1. \A u \in Threads : mid[u].op # "idle" => mid[u].stream \in 1 .. opens
      BY DEF TypeInv, HasStream
    <3> QED  BY <3>1, MidType
  <2> QED  BY <1>1, <2>1, <2>2 DEF Alone
<1>5. ASSUME NEW h \in Handles, NtClose(t, h) PROVE \E k : Alone(t, k)
  <2>1. \A s \in Streams : s # files[h] => stream'[s] = stream[s]
    BY <1>2, <1>5 DEF NtClose
  <2>2. h \in DOMAIN files /\ \A u \in Threads : Using(u) => mid[u].handle # h
    BY <1>5 DEF NtClose, Enters, Handles, Using
  <2>3. \A u \in Threads : mid[u].op # "idle" => mid[u].stream # files[h]
    <3>1. \A u \in Threads : Using(u) => mid[u].stream # files[h]
      BY <2>2 DEF InTable, References, OneHandle
    <3>2. \A u \in Threads : Coming(u) => mid[u].stream # files[h]
      BY <2>2 DEF References, NotYetNamed
    <3> QED  BY <3>1, <3>2 DEF Using, Coming
  <2> QED  BY <1>1, <2>1, <2>3 DEF Alone
<1>6. ASSUME NEW pos, MovesTo(t, pos), mid[t].op # "idle"
      PROVE  \E k : Alone(t, k)
  <2>. DEFINE k == mid[t].stream
  <2>1. stream' = [stream EXCEPT ![k].pos = pos]  BY <1>6 DEF MovesTo
  <2>2. \A u \in Threads \ {t} : mid[u].op # "idle" => mid[u].stream # k
    BY <1>6, Apart
  <2> HIDE DEF k
  <2>3. \A s \in Streams : s # k => stream'[s] = stream[s]  BY <1>2, <2>1
  <2> QED  BY <1>1, <2>2, <2>3 DEF Alone
<1>7. UNCHANGED stream \/ Opens(t) \/ (\E h \in Handles : NtClose(t, h))
        \/ (mid[t].op # "idle" /\ \E pos : MovesTo(t, pos))
  BY DEF StepOf, Opens, Misses, Insert, NtReadFile, NtQueryInformationFile,
     NtSetInformationFile, Refuses, SeekFirst, Reads, TellAndSeekEnd,
     SeekBack, Seeks, Finds, Within
<1> QED  BY <1>3, <1>4, <1>5, <1>6, <1>7
LEMMA OneInsideStep ==
  ASSUME ~ Shared, TypeInv, OneInside, NEW t \in Threads, StepOf(t)
  PROVE  OneInside'
<1>1. \A u \in Threads \ {t} : mid'[u] = mid[u]  BY MidMoves
<1>2. mid \in [Threads -> Calls(opens)]  BY MidType
<1>3. SUFFICES ASSUME Using(t)',
                      NEW u \in Threads \ {t}, Using(u), mid[u].handle = mid'[t].handle
               PROVE  FALSE
  BY <1>1 DEF OneInside, Using
<1>4. CASE Using(t) /\ mid'[t].handle = mid[t].handle
  BY <1>3, <1>4 DEF OneInside
<1>5. CASE mid[t].op = "idle"
  <2>1. \E h \in Handles : \/ NtReadFile(t, h) \/ NtQueryInformationFile(t, h)
                           \/ NtSetInformationFile(t, h)
    <3>1. Idle.op = "idle" /\ ~ Opens(t)
      <4>1. Opens(t) => mid' = [mid EXCEPT ![t] = Call("insert", 0, opens + 1, Current, 0)]
        BY DEF Opens
      <4>2. Call("insert", 0, opens + 1, Current, 0).op = "insert"  BY DEF Call
      <4> QED  BY <1>2, <1>3, <4>1, <4>2 DEF Using, Idle, Call
    <3>2. mid' # [mid EXCEPT ![t] = Idle]  BY <1>2, <1>3, <3>1 DEF Using
    <3> QED
      BY <1>5, <3>1, <3>2 DEF StepOf, Misses, Insert, NtClose, Refuses, SeekFirst,
         Reads, TellAndSeekEnd, SeekBack, Seeks, Returns, Within
  <2>2. PICK h, op, offset, count : h \in Handles /\ Finds(t, h, op, offset, count)
    BY <2>1 DEF NtReadFile, NtQueryInformationFile, NtSetInformationFile
  <2>3. mid[u].op = "idle" \/ mid[u].handle # h
    BY <2>2 DEF Finds, Enters, Handles
  <2>4. mid'[t] = Call(op, h, files[h], offset, count)  BY <1>2, <2>2 DEF Finds
  <2>5. mid'[t].handle = h  BY <2>4 DEF Call
  <2> QED  BY <1>3, <2>3, <2>5 DEF Using
<1>6. CASE mid[t].op # "idle"
  <2>1. mid'[t] # Idle  BY <1>3 DEF Using, Idle, Call
  <2>2. SeekFirst(t) \/ TellAndSeekEnd(t)
    <3>1. mid[t] # Idle  BY <1>6 DEF Idle, Call
    <3>2. mid' # [mid EXCEPT ![t] = Idle]  BY <1>2, <2>1
    <3> QED
      BY <3>1, <3>2 DEF StepOf, Opens, Misses, Insert, NtReadFile,
         NtQueryInformationFile, NtSetInformationFile, NtClose, Refuses, Reads,
         SeekBack, Seeks, Finds, Enters, Returns
  <2>3. mid'[t].handle = mid[t].handle
    BY <1>2, <2>2 DEF SeekFirst, TellAndSeekEnd, Calls
  <2>4. Using(t)  BY <2>2 DEF SeekFirst, TellAndSeekEnd, Within, Using
  <2> QED  BY <1>4, <2>3, <2>4
<1> QED  BY <1>5, <1>6

\* What a thread that is not t has measured holds after the step of t.
LEMMA OthersMeasured ==
  ASSUME TypeInv, NEW t \in Threads, NEW k, Alone(t, k),
         NEW u \in Threads \ {t}, Measured(u)
  PROVE  Measured(u)'
<1>1. mid'[u] = mid[u]  BY DEF Alone
<1>2. CASE mid[u].op = "idle"  BY <1>1, <1>2 DEF Measured
<1>3. CASE mid[u].op # "idle"
  <2>1. mid[u].stream \in Streams /\ mid[u].stream # k
    BY <1>3, InsideType DEF Alone
  <2>2. stream'[mid[u].stream] = stream[mid[u].stream]  BY <2>1 DEF Alone
  <2> QED  BY <1>1, <2>2 DEF Measured, Pos, File
<1> QED  BY <1>2, <1>3

LEMMA MeasuredStep ==
  ASSUME TypeInv, NEW t \in Threads, StepOf(t), Measured(t)
  PROVE  Measured(t)'
<1>1. mid \in [Threads -> Calls(opens)] /\ mid[t] \in Calls(opens)
  BY MidType
<1>2. stream \in [Streams -> StreamRecords] /\ opens \in Nat /\ MaxOpens \in Nat
  BY MidType
<1>3. Idle.op = "idle"  BY DEF Idle, Call
<1>4. CASE mid' = [mid EXCEPT ![t] = Idle]
  <2>1. mid'[t].op = "idle"  BY <1>1, <1>3, <1>4
  <2> QED  BY <2>1 DEF Measured
<1>5. CASE Opens(t)
  <2>1. PICK name, path : stream' = [stream EXCEPT ![opens + 1] =
          [state |-> "open", name |-> name, path |-> path, pos |-> 0]]
    BY <1>5 DEF Opens
  <2>2. opens + 1 \in Streams  BY <1>2, <1>5 DEF Opens, Streams
  <2>3. stream'[opens + 1].pos = 0  BY <1>2, <2>1, <2>2
  <2>4. mid'[t] = Call("insert", 0, opens + 1, Current, 0)  BY <1>1, <1>5 DEF Opens
  <2>5. mid'[t].op = "insert" /\ mid'[t].stream = opens + 1  BY <2>4 DEF Call
  <2> QED  BY <2>3, <2>5 DEF Measured, Pos
<1>6. ASSUME NEW h \in Handles,
             \/ NtReadFile(t, h) \/ NtQueryInformationFile(t, h)
             \/ NtSetInformationFile(t, h)
      PROVE  Measured(t)'
  <2>0. \E op \in {"read at", "query", "seek"} : \E offset, count :
          /\ mid'[t] = Call(op, h, files[h], offset, count)
          /\ op = "read at" => count \in Counts
          /\ op = "seek" => offset \in Offsets
    <3>1. NtReadFile(t, h) => \E offset : \E count \in Counts :
            Finds(t, h, "read at", offset, count)
      BY DEF NtReadFile
    <3>2. NtQueryInformationFile(t, h) => Finds(t, h, "query", Current, 0)
      BY DEF NtQueryInformationFile
    <3>3. NtSetInformationFile(t, h) =>
            \E offset \in Offsets : Finds(t, h, "seek", offset, 0)
      BY DEF NtSetInformationFile
    <3>4. ASSUME NEW op, NEW offset, NEW count, Finds(t, h, op, offset, count)
          PROVE  mid'[t] = Call(op, h, files[h], offset, count)
      BY <1>1, <3>4 DEF Finds
    <3>5. CASE NtReadFile(t, h)  BY <3>1, <3>4, <3>5
    <3>6. CASE NtQueryInformationFile(t, h)  BY <3>2, <3>4, <3>6, ZenonT(60)
    <3>7. CASE NtSetInformationFile(t, h)  BY <3>3, <3>4, <3>7, ZenonT(60)
    <3> QED  BY <1>6, <3>5, <3>6, <3>7, ZenonT(30)
  <2>b. PICK op \in {"read at", "query", "seek"} : \E offset, count :
          /\ mid'[t] = Call(op, h, files[h], offset, count)
          /\ op = "read at" => count \in Counts
          /\ op = "seek" => offset \in Offsets
    BY <2>0
  <2>1. PICK offset, count :
          /\ mid'[t] = Call(op, h, files[h], offset, count)
          /\ op = "read at" => count \in Counts
          /\ op = "seek" => offset \in Offsets
    BY <2>b
  <2>2. mid'[t] = Call(op, h, files[h], offset, count)  BY <2>1
  <2>. DEFINE m == Call(op, h, files[h], offset, count)
  <2>a. m.op = op /\ m.offset = offset /\ m.count = count  BY DEF Call
  <2> HIDE DEF m
  <2>3. mid'[t].op = op /\ mid'[t].offset = offset /\ mid'[t].count = count
    BY <2>2, <2>a DEF m
  <2> QED  BY <2>b, <2>1, <2>3 DEF Measured
<1>7. CASE SeekFirst(t)
  <2>. DEFINE k == mid[t].stream
  <2>1. /\ mid[t].op = "read at" /\ stream' = [stream EXCEPT ![k].pos = Sought(t)]
        /\ mid'[t] = [mid[t] EXCEPT !.op = "read", !.was = Pos(t)]
    BY <1>1, <1>7 DEF SeekFirst, Within, MovesTo
  <2>2. k \in Streams  BY <2>1, InsideType
  <2>3. stream'[k].pos = Sought(t)
    <3> HIDE DEF k
    <3>1. stream'[k] = [stream[k] EXCEPT !.pos = Sought(t)]  BY <1>2, <2>1, <2>2
    <3>2. stream[k] \in StreamRecords  BY <1>2, <2>2
    <3> QED  BY <3>1, <3>2 DEF StreamRecords
  <2>4. /\ mid'[t].op = "read" /\ mid'[t].stream = k /\ mid'[t].was = Pos(t)
        /\ mid'[t].offset = mid[t].offset /\ mid'[t].count = mid[t].count
    BY <1>1, <2>1 DEF Calls
  <2>5. Pos(t)' = Sought(t)  BY <2>3, <2>4 DEF Pos
  <2>6. mid[t].count \in Counts  BY <2>1 DEF Measured
  <2>7. Pos(t)' = IF mid'[t].offset < 0 THEN mid'[t].was ELSE mid'[t].offset
    BY <2>4, <2>5 DEF Sought
  <2> QED  BY <2>4, <2>6, <2>7 DEF Measured
<1>8. CASE TellAndSeekEnd(t)
  <2>. DEFINE k == mid[t].stream
  <2>1. mid[t].op \in {"query", "to end", "tell"}
    BY <1>8 DEF TellAndSeekEnd, Within
  <2>2. k \in Streams /\ stream[k] \in StreamRecords
    BY <1>2, <2>1, InsideType
  <2>3. CASE mid[t].op = "query"
    <3>1. mid'[t] = [mid[t] EXCEPT !.op = "to end", !.was = Pos(t)]
      BY <1>1, <1>8, <2>3 DEF TellAndSeekEnd, Within
    <3>2. mid'[t].op = "to end"  BY <1>1, <3>1 DEF Calls
    <3> QED  BY <3>2 DEF Measured
  <2>4. CASE mid[t].op = "to end"
    <3>1. /\ mid'[t] = [mid[t] EXCEPT !.op = "tell"]
          /\ stream' = [stream EXCEPT ![k].pos = Size[File(t)]]
      BY <1>1, <1>8, <2>4 DEF TellAndSeekEnd, Within, MovesTo
    <3>2. mid'[t].op = "tell" /\ mid'[t].stream = k  BY <1>1, <3>1 DEF Calls
    <3>3. stream'[k].pos = Size[File(t)] /\ stream'[k].path = File(t)
      <4>0. File(t) = stream[k].path  BY DEF File
      <4> HIDE DEF k
      <4>1. stream'[k] = [stream[k] EXCEPT !.pos = Size[File(t)]]
        BY <1>2, <2>2, <3>1
      <4> QED  BY <2>2, <4>0, <4>1 DEF StreamRecords
    <3> QED  BY <3>2, <3>3 DEF Measured, Pos, File
  <2>5. CASE mid[t].op = "tell"
    <3>1. mid'[t] = [mid[t] EXCEPT !.op = "back", !.size = Pos(t)]
          /\ UNCHANGED stream
      BY <1>1, <1>8, <2>5 DEF TellAndSeekEnd, Within
    <3>2. /\ mid'[t].op = "back" /\ mid'[t].stream = mid[t].stream
          /\ mid'[t].size = Pos(t)
      BY <1>1, <3>1 DEF Calls
    <3>3. Pos(t) = Size[File(t)]  BY <2>5 DEF Measured
    <3> QED  BY <3>1, <3>2, <3>3 DEF Measured, File
  <2> QED  BY <2>1, <2>3, <2>4, <2>5
<1> QED
  BY <1>4, <1>5, <1>6, <1>7, <1>8 DEF StepOf, Misses, Insert, NtClose, Refuses,
     Reads, SeekBack, Seeks, Returns
LEMMA PendingFinite ==
  ASSUME TypeInv
  PROVE  IsFiniteSet(Pending) /\ Cardinality(Pending) \in Nat
<1>1. opens \in Nat  BY MidType
<1>2. IsFiniteSet(1 .. opens)  BY <1>1, FS_Interval
<1>3. Pending \subseteq 1 .. opens  BY DEF Pending
<1> QED  BY <1>2, <1>3, FS_Subset, FS_CardinalityType

LEMMA CountedStep ==
  ASSUME TypeInv, References, Counted, NEW t \in Threads, StepOf(t)
  PROVE  Counted'
<1>1. /\ mid \in [Threads -> Calls(opens)] /\ opens \in Nat
      /\ nextHandle \in Nat \ {0}
  BY MidType
<1>2. IsFiniteSet(Pending) /\ Cardinality(Pending) \in Nat  BY PendingFinite
<1>3. \A u \in Threads : Coming(u) => mid[u].stream \in 1 .. opens
  BY InsideType DEF Coming
<1>4. \A u \in Threads \ {t} : mid'[u] = mid[u]  BY MidMoves
<1>5. CASE Opens(t)
  <2>1. /\ opens' = opens + 1 /\ UNCHANGED nextHandle /\ mid[t] = Idle
        /\ mid'[t] = Call("insert", 0, opens + 1, Current, 0)
    BY <1>1, <1>5 DEF Opens, Enters
  <2>2. mid'[t].op = "insert" /\ mid'[t].stream = opens + 1 /\ ~ Coming(t)
    BY <2>1 DEF Call, Idle, Coming
  <2>3. Pending' = Pending \union {opens + 1}
    <3>1. \A s : s \in Pending' <=> s \in Pending \union {opens + 1}
      <4>1. \A s \in 1 .. opens : s \in Pending' <=> s \in Pending
        BY <1>1, <1>4, <2>1, <2>2 DEF Pending, Coming
      <4>2. opens + 1 \in Pending'  BY <1>1, <2>1, <2>2 DEF Pending, Coming
      <4>3. Pending' \subseteq 1 .. opens + 1 /\ Pending \subseteq 1 .. opens
        BY <2>1 DEF Pending
      <4>4. \A s \in 1 .. opens + 1 : s \in 1 .. opens \/ s = opens + 1  BY <1>1
      <4> QED  BY <4>1, <4>2, <4>3, <4>4
    <3> QED  BY <3>1
  <2>4. opens + 1 \notin Pending  BY <1>1 DEF Pending
  <2>5. Cardinality(Pending') = Cardinality(Pending) + 1
    BY <1>2, <2>3, <2>4, FS_AddElement
  <2> QED  BY <1>1, <1>2, <2>1, <2>5 DEF Counted
<1>6. CASE Insert(t)
  <2>. DEFINE k == mid[t].stream
  <2>1. /\ Coming(t) /\ UNCHANGED opens /\ nextHandle' = nextHandle + 1
        /\ mid'[t] = Idle
    BY <1>1, <1>6 DEF Insert, Returns, Coming
  <2>2. ~ Coming(t)' /\ k \in Pending
    BY <1>3, <2>1 DEF Coming, Idle, Call, Pending
  <2>3. \A u \in Threads \ {t} : Coming(u) => mid[u].stream # k
    BY <2>1 DEF References, OneComing
  <2>4. Pending' = Pending \ {k}
    <3> HIDE DEF k
    <3>1. ASSUME NEW s \in Pending' PROVE s \in Pending \ {k}
      BY <1>4, <2>1, <2>2, <2>3, <3>1 DEF Pending, Coming
    <3>2. ASSUME NEW s \in Pending \ {k} PROVE s \in Pending'
      <4>1. PICK u \in Threads : Coming(u) /\ mid[u].stream = s
        BY <3>2 DEF Pending
      <4>2. u # t  BY <3>2, <4>1 DEF k
      <4> QED  BY <1>4, <2>1, <3>2, <4>1, <4>2 DEF Pending, Coming
    <3> QED  BY <3>1, <3>2
  <2>5. Cardinality(Pending') = Cardinality(Pending) - 1
    BY <1>2, <2>2, <2>4, FS_RemoveElement
  <2> QED  BY <1>1, <1>2, <2>1, <2>5 DEF Counted
<1>7. ASSUME UNCHANGED <<opens, nextHandle>>,
             \A u \in Threads : /\ Coming(u)' <=> Coming(u)
                                /\ Coming(u) => mid'[u].stream = mid[u].stream
      PROVE  Counted'
  <2>1. Pending' = Pending  BY <1>7 DEF Pending
  <2> QED  BY <1>7, <2>1 DEF Counted
<1>8. ASSUME NEW h \in Handles, NtClose(t, h) PROVE Counted'
  <2>1. mid' = mid /\ UNCHANGED <<opens, nextHandle>>
    BY <1>1, <1>8 DEF NtClose, Enters, Returns
  <2> QED  BY <1>7, <2>1 DEF Coming
<1>9. ASSUME ~ Opens(t), ~ Insert(t), \A h \in Handles : ~ NtClose(t, h)
      PROVE  Counted'
  <2>1. /\ UNCHANGED opens
        /\ \A u \in Threads : /\ Coming(u)' <=> Coming(u)
                              /\ Coming(u) => mid'[u].stream = mid[u].stream
    BY <1>9, QuietSteps DEF StepOf
  <2>2. UNCHANGED nextHandle
    BY <1>9 DEF StepOf, Misses, NtReadFile, NtQueryInformationFile,
       NtSetInformationFile, Finds, Refuses, SeekFirst, Reads, TellAndSeekEnd,
       SeekBack, Seeks
  <2> QED  BY <1>7, <2>1, <2>2
<1> QED  BY <1>5, <1>6, <1>8, <1>9

LEMMA CallInvInit == Init => CallInv
<1> SUFFICES ASSUME Init PROVE CallInv
  OBVIOUS
<1>1. \A t \in Threads : mid[t].op = "idle"  BY DEF Init, Idle, Call
<1>2. InTable /\ OneInside  BY <1>1 DEF InTable, OneInside, Using
<1>3. AllMeasured  BY <1>1 DEF AllMeasured, Measured
<1>4. Counted
  <2>1. Pending = {}  BY DEF Init, Pending
  <2>2. Cardinality(Pending) = 0  BY <2>1, FS_EmptySet
  <2> QED  BY <2>2 DEF Init, Counted
<1> QED  BY <1>2, <1>3, <1>4, TypeInit, ReferencesInit DEF CallInv

LEMMA StepBySome == [Next]_vars => UNCHANGED vars \/ \E t \in Threads : StepOf(t)
BY DEF Next, StepOf

LEMMA CallInvStep ==
  ASSUME ~ Shared, CallInv, [Next]_vars
  PROVE  CallInv'
<1>1. TypeInv' /\ References' /\ InTable'
  BY TypeStep, ReferencesStep, InTableStep DEF CallInv
<1>2. CASE UNCHANGED vars
  BY <1>1, <1>2 DEF CallInv, vars, OneInside, Using, AllMeasured, Measured, Pos,
     File, Counted, Pending, Coming
<1>3. ASSUME NEW t \in Threads, StepOf(t) PROVE CallInv'
  <2>1. PICK k : Alone(t, k)  BY <1>3, AloneStep DEF CallInv
  <2>2. \A u \in Threads : Measured(u)'
    <3> SUFFICES ASSUME NEW u \in Threads PROVE Measured(u)'
      OBVIOUS
    <3>1. Measured(u)  BY DEF CallInv, AllMeasured
    <3>2. CASE u = t  BY <1>3, <3>1, <3>2, MeasuredStep DEF CallInv
    <3>3. CASE u # t  BY <2>1, <3>1, <3>3, OthersMeasured DEF CallInv
    <3> QED  BY <3>2, <3>3
  <2>3. AllMeasured'  BY <2>2 DEF AllMeasured
  <2>4. OneInside' /\ Counted'  BY <1>3, OneInsideStep, CountedStep DEF CallInv
  <2> QED  BY <1>1, <2>3, <2>4 DEF CallInv
<1> QED  BY <1>2, <1>3, StepBySome
-----------------------------------------------------------------------------
(* What the title sees, and what each promise says of it.                    *)

OpenNow == [h \in DOMAIN files |->
             [file |-> stream[files[h]].path, pos |-> SettledPos(h)]]
UsedNow == 1 .. nextHandle - 1
AnswerNow == IF answer.did.status = "not found"
             THEN [to |-> answer.to, did |-> [status |-> "not found"]] ELSE answer

ReadSeen(t, file, offset, from, count, n) ==
  [to |-> t, did |-> Promise!ReadAnswer(file, offset, from, count, n)]

\* The handle g stands at pos.
MovedTo(g, pos) == [OpenNow EXCEPT ![g].pos = pos]

LEMMA PromiseVars == UNCHANGED <<OpenNow, UsedNow, AnswerNow>> => UNCHANGED Promise!vars
BY DEF Promise!vars, OpenNow, UsedNow, AnswerNow

LEMMA PromiseOpen ==
  ASSUME NEW t \in Threads, NEW h \in Handles \ UsedNow, NEW file \in Places,
         OpenNow' = [g \in DOMAIN OpenNow \union {h} |->
                      IF g = h THEN [file |-> file, pos |-> 0] ELSE OpenNow[g]],
         UsedNow' = UsedNow \union {h},
         AnswerNow' = [to |-> t, did |-> [status |-> "success", handle |-> h]]
  PROVE  Promise!Next
<1>1. Promise!Open(t)
  BY DEF Promise!Open, Promise!Returns, Promise!OpenAnswer, OpenNow, UsedNow, AnswerNow
<1> QED  BY <1>1 DEF Promise!Next

LEMMA PromiseMiss ==
  ASSUME NEW t \in Threads, UNCHANGED <<OpenNow, UsedNow>>,
         AnswerNow' = [to |-> t, did |-> [status |-> "not found"]]
  PROVE  Promise!Next
<1>1. Promise!Miss(t)
  BY DEF Promise!Miss, Promise!Returns, Promise!Failure, OpenNow, UsedNow, AnswerNow
<1> QED  BY <1>1 DEF Promise!Next

LEMMA PromiseRead ==
  ASSUME NEW t \in Threads, NEW h \in DOMAIN OpenNow,
         NEW offset \in Offsets \union {Current}, NEW count \in Counts,
         NEW from, NEW n,
         from = IF offset < 0 THEN OpenNow[h].pos ELSE offset,
         n = Lesser(count, Left(OpenNow[h].file, from)),
         OpenNow' = MovedTo(h, from + n), UNCHANGED UsedNow,
         AnswerNow' = ReadSeen(t, OpenNow[h].file, offset, from, count, n)
  PROVE  Promise!Next
<1>1. Promise!Read(t)
  BY ZenonT(60) DEF Promise!Read, Promise!Returns, ReadSeen, Promise!At,
     Promise!Lesser, Promise!Left, Lesser, Left, OpenNow, UsedNow, AnswerNow, MovedTo
<1> QED  BY <1>1 DEF Promise!Next

LEMMA PromiseQuery ==
  ASSUME NEW t \in Threads, NEW h \in DOMAIN OpenNow, UNCHANGED <<OpenNow, UsedNow>>,
         AnswerNow' = [to |-> t, did |-> [status |-> "success", pos |-> OpenNow[h].pos,
                                          size |-> Size[OpenNow[h].file]]]
  PROVE  Promise!Next
<1>1. Promise!Query(t)
  BY DEF Promise!Query, Promise!Returns, Promise!QueryAnswer, OpenNow, UsedNow,
     AnswerNow
<1> QED  BY <1>1 DEF Promise!Next

LEMMA PromiseSeek ==
  ASSUME NEW t \in Threads, NEW h \in DOMAIN OpenNow, NEW offset \in Offsets,
         OpenNow' = MovedTo(h, IF offset < 0 THEN OpenNow[h].pos ELSE offset),
         UNCHANGED UsedNow,
         AnswerNow' = [to |-> t, did |-> [status |-> "success", offset |-> offset]]
  PROVE  Promise!Next
<1>1. Promise!Seek(t)
  BY DEF Promise!Seek, Promise!Returns, Promise!At, OpenNow, UsedNow, AnswerNow,
     MovedTo
<1> QED  BY <1>1 DEF Promise!Next

LEMMA PromiseClose ==
  ASSUME NEW t \in Threads, NEW h \in DOMAIN OpenNow,
         OpenNow' = [g \in DOMAIN OpenNow \ {h} |-> OpenNow[g]], UNCHANGED UsedNow,
         AnswerNow' = [to |-> t, did |-> [status |-> "success"]]
  PROVE  Promise!Next
<1>1. Promise!Close(t)
  BY DEF Promise!Close, Promise!Returns, Promise!Failure, OpenNow, UsedNow, AnswerNow
<1> QED  BY <1>1 DEF Promise!Next

LEMMA PromiseRefuse ==
  ASSUME NEW t \in Threads, NEW h \in Handles, h \notin DOMAIN OpenNow,
         NEW status \in {"invalid handle", "success"}, UNCHANGED <<OpenNow, UsedNow>>,
         AnswerNow' = [to |-> t, did |-> [status |-> status]]
  PROVE  Promise!Next
<1>1. Promise!Refuse(t)
  BY DEF Promise!Refuse, Promise!Returns, Promise!Failure, OpenNow, UsedNow, AnswerNow
<1> QED  BY <1>1 DEF Promise!Next
Settling(t) == mid[t].op \in {"read", "to end", "tell", "back"}
SettledFacts ==
  /\ \A t \in Threads : Settling(t) => SettledPos(mid[t].handle) = mid[t].was
  /\ \A h : (\A t \in Threads : Settling(t) => mid[t].handle # h) =>
              SettledPos(h) = stream[files[h]].pos

LEMMA SettledIs == OneInside => SettledFacts
<1> SUFFICES ASSUME OneInside PROVE SettledFacts
  OBVIOUS
<1>1. ASSUME NEW t \in Threads, Settling(t)
      PROVE  SettledPos(mid[t].handle) = mid[t].was
  <2>. DEFINE h == mid[t].handle
              inside(u) == mid[u].handle = h
                           /\ mid[u].op \in {"read", "to end", "tell", "back"}
  <2>1. inside(t)  BY <1>1 DEF Settling
  <2>2. \A u \in Threads : inside(u) => u = t
    BY <1>1 DEF OneInside, Settling, Using
  <2> HIDE DEF inside
  <2>3. (CHOOSE u \in Threads : inside(u)) = t  BY <2>1, <2>2
  <2>4. SettledPos(h) = IF \E u \in Threads : inside(u)
                        THEN mid[CHOOSE u \in Threads : inside(u)].was
                        ELSE stream[files[h]].pos
    BY DEF SettledPos, inside
  <2> HIDE DEF h
  <2>5. SettledPos(h) = mid[t].was  BY <2>1, <2>3, <2>4
  <2> QED  BY <2>5 DEF h
<1>2. ASSUME NEW h, \A t \in Threads : Settling(t) => mid[t].handle # h
      PROVE  SettledPos(h) = stream[files[h]].pos
  BY <1>2 DEF Settling, SettledPos
<1> QED  BY <1>1, <1>2 DEF SettledFacts

\* A handle whose stream the step of t does not touch looks as before.
LEMMA SeenElsewhere ==
  ASSUME SettledFacts, SettledFacts', NEW t \in Threads,
         \A u \in Threads \ {t} : mid'[u] = mid[u],
         NEW h \in DOMAIN files, h \in DOMAIN files', files'[h] = files[h],
         stream'[files[h]] = stream[files[h]],
         Settling(t) => mid[t].handle # h, Settling(t)' => mid'[t].handle # h
  PROVE  OpenNow'[h] = OpenNow[h]
<1>1. SettledPos(h)' = SettledPos(h)
  <2>1. CASE \E u \in Threads : Settling(u) /\ mid[u].handle = h
    <3>1. PICK u \in Threads : Settling(u) /\ mid[u].handle = h  BY <2>1
    <3>2. Settling(u)' /\ mid'[u] = mid[u]  BY <3>1 DEF Settling
    <3> QED  BY <3>1, <3>2 DEF SettledFacts
  <2>2. CASE \A u \in Threads : Settling(u) => mid[u].handle # h
    <3>1. \A u \in Threads : Settling(u)' => mid'[u].handle # h
      BY <2>2 DEF Settling
    <3> QED  BY <2>2, <3>1 DEF SettledFacts
  <2> QED  BY <2>1, <2>2
<1> QED  BY <1>1 DEF OpenNow

\* A step that leaves the table and its streams alone, and settles nothing.
LEMMA SeenAsBefore ==
  ASSUME SettledFacts, SettledFacts', NEW t \in Threads,
         \A u \in Threads \ {t} : mid'[u] = mid[u], UNCHANGED files,
         \A h \in DOMAIN files : stream'[files[h]] = stream[files[h]],
         ~ Settling(t), ~ Settling(t)'
  PROVE  UNCHANGED OpenNow
<1>1. \A h \in DOMAIN files : OpenNow'[h] = OpenNow[h]
  BY SeenElsewhere
<1>2. OpenNow' = [h \in DOMAIN files |-> OpenNow'[h]]
      /\ OpenNow = [h \in DOMAIN files |-> OpenNow[h]]
  BY DEF OpenNow
<1> QED  BY <1>1, <1>2

\* A step inside a call on the handle g leaves it at pos.
LEMMA SeenAt ==
  ASSUME CallInv, SettledFacts, SettledFacts', NEW t \in Threads, StepOf(t),
         Using(t), UNCHANGED files,
         Settling(t)' => mid'[t].handle = mid[t].handle,
         \A s \in Streams : s # mid[t].stream => stream'[s] = stream[s],
         stream'[mid[t].stream].path = File(t),
         NEW g, g = mid[t].handle, NEW pos, SettledPos(g)' = pos
  PROVE  /\ OpenNow' = MovedTo(g, pos)
         /\ g \in DOMAIN OpenNow /\ OpenNow[g].file = File(t)
         /\ OpenNow[g].pos = SettledPos(g)
         /\ pos = SettledPos(g) => UNCHANGED OpenNow
<1>1. \A u \in Threads \ {t} : mid'[u] = mid[u]  BY MidMoves DEF CallInv
<1>2. g \in DOMAIN files /\ files[g] = mid[t].stream  BY DEF CallInv, InTable
<1>3. \A h \in DOMAIN files : h # g => stream'[files[h]] = stream[files[h]]
  BY <1>2, MidType DEF CallInv, References, OneHandle
<1>4. \A h \in DOMAIN files : h # g => OpenNow'[h] = OpenNow[h]
  BY <1>1, <1>3, SeenElsewhere
<1>5. OpenNow[g] = [file |-> File(t), pos |-> SettledPos(g)]
  BY <1>2 DEF OpenNow, File
<1>6. OpenNow'[g] = [file |-> File(t), pos |-> pos]
  BY <1>2 DEF OpenNow, File
<1>7. OpenNow' = [h \in DOMAIN files |-> OpenNow'[h]]
      /\ OpenNow = [h \in DOMAIN files |-> OpenNow[h]]
  BY DEF OpenNow
<1>8. [OpenNow[g] EXCEPT !.pos = pos] = OpenNow'[g]  BY <1>5, <1>6
<1>9. OpenNow' = [OpenNow EXCEPT ![g].pos = pos]
  <2>1. \A h \in DOMAIN files :
          [OpenNow EXCEPT ![g].pos = pos][h] =
            IF h = g THEN [OpenNow[g] EXCEPT !.pos = pos] ELSE OpenNow[h]
    BY <1>2, <1>7
  <2>2. \A h \in DOMAIN files : [OpenNow EXCEPT ![g].pos = pos][h] = OpenNow'[h]
    BY <1>4, <1>8, <2>1
  <2>3. [OpenNow EXCEPT ![g].pos = pos] =
          [h \in DOMAIN files |-> [OpenNow EXCEPT ![g].pos = pos][h]]
    BY <1>7
  <2> QED  BY <1>7, <2>2, <2>3
<1>10. pos = SettledPos(g) => UNCHANGED OpenNow
  BY <1>4, <1>5, <1>6, <1>7
<1> QED  BY <1>2, <1>5, <1>7, <1>9, <1>10 DEF MovedTo
\* The handle that t uses is settled by nobody else, and where it stands.
LEMMA SeenByUser ==
  ASSUME CallInv, SettledFacts, SettledFacts', NEW t \in Threads, StepOf(t), Using(t),
         UNCHANGED files, NEW g, g = mid[t].handle
  PROVE  /\ ~ Settling(t) => SettledPos(g) = Pos(t)
         /\ Settling(t) => SettledPos(g) = mid[t].was
         /\ ~ Settling(t)' => SettledPos(g)' = stream'[mid[t].stream].pos
         /\ Settling(t)' /\ mid'[t].handle = g => SettledPos(g)' = mid'[t].was
<1>1. \A u \in Threads \ {t} : mid'[u] = mid[u]  BY MidMoves DEF CallInv
<1>2. \A u \in Threads \ {t} : Settling(u) => mid[u].handle # g
  BY DEF CallInv, OneInside, Settling, Using
<1>3. \A u \in Threads \ {t} : Settling(u)' => mid'[u].handle # g
  BY <1>1, <1>2 DEF Settling
<1>4. files[g] = mid[t].stream /\ files'[g] = mid[t].stream
  BY DEF CallInv, InTable
<1>5. ~ Settling(t) => SettledPos(g) = Pos(t)
  BY <1>2, <1>4 DEF SettledFacts, Pos
<1>6. ~ Settling(t)' => SettledPos(g)' = stream'[mid[t].stream].pos
  BY <1>3, <1>4 DEF SettledFacts
<1>7. Settling(t) => SettledPos(g) = mid[t].was  BY DEF SettledFacts
<1>8. Settling(t)' /\ mid'[t].handle = g => SettledPos(g)' = mid'[t].was
  BY DEF SettledFacts
<1> QED  BY <1>5, <1>6, <1>7, <1>8

LEMMA MoveIs ==
  ASSUME TypeInv, NEW t \in Threads, mid[t].op # "idle", NEW pos, MovesTo(t, pos)
  PROVE  /\ stream'[mid[t].stream].pos = pos
         /\ stream'[mid[t].stream].path = File(t)
         /\ \A s \in Streams : s # mid[t].stream => stream'[s] = stream[s]
<1>. DEFINE k == mid[t].stream
<1>1. k \in Streams /\ stream \in [Streams -> StreamRecords]
  BY MidType, InsideType
<1>2. stream' = [stream EXCEPT ![k].pos = pos]  BY DEF MovesTo
<1>3. File(t) = stream[k].path  BY DEF File
<1> HIDE DEF k
<1>4. stream'[k] = [stream[k] EXCEPT !.pos = pos]  BY <1>1, <1>2
<1>5. stream[k] \in StreamRecords  BY <1>1
<1>6. stream'[k].pos = pos /\ stream'[k].path = File(t)
  BY <1>3, <1>4, <1>5 DEF StreamRecords
<1>7. \A s \in Streams : s # k => stream'[s] = stream[s]  BY <1>1, <1>2
<1> QED  BY <1>6, <1>7 DEF k

\* A call that returns: what the title sees of its answer.
LEMMA AnswerIs ==
  ASSUME NEW t \in Threads, NEW what, Returns(t, what)
  PROVE  /\ what.status # "not found" => AnswerNow' = [to |-> t, did |-> what]
         /\ what.status = "not found" =>
              AnswerNow' = [to |-> t, did |-> [status |-> "not found"]]
<1>1. answer'.to = t /\ answer'.did = what /\ answer' = [to |-> t, did |-> what]
  BY DEF Returns
<1> QED  BY <1>1 DEF AnswerNow

LEMMA PromiseStepOutside ==
  ASSUME CallInv, SettledFacts, SettledFacts', NEW t \in Threads,
         \/ Opens(t) \/ Misses(t) \/ Insert(t)
         \/ \E h \in Handles :
              \/ NtReadFile(t, h) \/ NtQueryInformationFile(t, h)
              \/ NtSetInformationFile(t, h) \/ NtClose(t, h) \/ Refuses(t, h)
  PROVE  [Promise!Next]_(Promise!vars)
<1>0. StepOf(t)  BY DEF StepOf
<1>1. \A u \in Threads \ {t} : mid'[u] = mid[u]  BY <1>0, MidMoves DEF CallInv
<1>2. /\ mid \in [Threads -> Calls(opens)] /\ stream \in [Streams -> StreamRecords]
      /\ opens \in Nat /\ MaxOpens \in Nat /\ opens <= MaxOpens
      /\ nextHandle \in Nat \ {0} /\ DOMAIN files \subseteq 1 .. nextHandle - 1
      /\ \A h \in DOMAIN files : files[h] \in 1 .. opens /\ files[h] \in Streams
  BY MidType DEF CallInv
<1>3. Idle.op = "idle"  BY DEF Idle, Call
<1>4. DOMAIN OpenNow = DOMAIN files  BY DEF OpenNow
<1>5. CASE Opens(t)
  <2>1. /\ UNCHANGED <<files, nextHandle, answer>> /\ mid[t] = Idle
        /\ mid'[t] = Call("insert", 0, opens + 1, Current, 0)
        /\ \A s \in Streams : s # opens + 1 => stream'[s] = stream[s]
    BY <1>2, <1>5 DEF Opens, Enters
  <2>2. mid'[t].op = "insert"  BY <2>1 DEF Call
  <2>3. ~ Settling(t) /\ ~ Settling(t)'  BY <1>3, <2>1, <2>2 DEF Settling
  <2>4. \A h \in DOMAIN files : stream'[files[h]] = stream[files[h]]
    BY <1>2, <2>1
  <2>5. UNCHANGED OpenNow  BY <1>1, <2>1, <2>3, <2>4, SeenAsBefore
  <2>6. UNCHANGED <<UsedNow, AnswerNow>>  BY <2>1 DEF UsedNow, AnswerNow
  <2> QED  BY <2>5, <2>6, PromiseVars
<1>6. ASSUME mid[t] = Idle, mid'[t] = Idle, UNCHANGED <<files, nextHandle, stream>>
      PROVE  UNCHANGED <<OpenNow, UsedNow>>
  <2>1. ~ Settling(t) /\ ~ Settling(t)'  BY <1>3, <1>6 DEF Settling
  <2> QED  BY <1>1, <1>6, <2>1, SeenAsBefore DEF UsedNow
<1>7. CASE Misses(t)
  <2>1. PICK name : Returns(t, [status |-> "not found", name |-> name])
    BY <1>7 DEF Misses
  <2>2. /\ UNCHANGED <<files, nextHandle, stream>> /\ mid[t] = Idle /\ mid'[t] = Idle
    BY <1>2, <1>7 DEF Misses, Enters, Returns
  <2>3. AnswerNow' = [to |-> t, did |-> [status |-> "not found"]]
    <3>1. [status |-> "not found", name |-> name].status = "not found"  OBVIOUS
    <3> QED  BY <2>1, <3>1, AnswerIs, Zenon
  <2>4. UNCHANGED <<OpenNow, UsedNow>>  BY <1>6, <2>2
  <2> QED  BY <2>3, <2>4, PromiseMiss
<1>8. CASE Insert(t)
  <2>. PICK k, file : k = nextHandle /\ file = stream[mid[t].stream].path
    OBVIOUS
  <2>1. /\ mid[t].op = "insert" /\ nextHandle' = k + 1 /\ UNCHANGED <<opens, stream>>
        /\ Returns(t, [status |-> "success", handle |-> k])
        /\ files' = [h \in DOMAIN files \union {k} |->
                       IF h = k THEN mid[t].stream ELSE files[h]]
        /\ mid'[t] = Idle
    BY <1>2, <1>8 DEF Insert, Returns
  <2>2. k \in Handles \ UsedNow /\ k \notin DOMAIN files
    <3>1. mid[t].stream \in Pending
      BY <2>1, InsideType DEF CallInv, Pending, Coming
    <3>2. IsFiniteSet(Pending) /\ Cardinality(Pending) \in Nat
      BY PendingFinite DEF CallInv
    <3>3. Cardinality(Pending) # 0  BY <3>1, <3>2, FS_EmptySet
    <3>4. k <= opens  BY <1>2, <3>2, <3>3 DEF CallInv, Counted
    <3> QED  BY <1>2, <3>4 DEF Handles, UsedNow
  <2>3. UsedNow' = UsedNow \union {k}  BY <1>2, <2>1 DEF UsedNow
  <2>4. AnswerNow' = [to |-> t, did |-> [status |-> "success", handle |-> k]]
    BY <2>1, AnswerIs
  <2>5. ~ Settling(t) /\ ~ Settling(t)'  BY <1>3, <2>1 DEF Settling
  <2>6. \A h \in DOMAIN files : OpenNow'[h] = OpenNow[h]
    <3> SUFFICES ASSUME NEW h \in DOMAIN files PROVE OpenNow'[h] = OpenNow[h]
      OBVIOUS
    <3>1. h \in DOMAIN files' /\ files'[h] = files[h]  BY <2>1, <2>2
    <3> QED  BY <1>1, <2>1, <2>5, <3>1, SeenElsewhere
  <2>7. OpenNow'[k] = [file |-> file, pos |-> 0]
    <3>1. \A u \in Threads : Settling(u)' => mid'[u].handle # k
      <4>1. \A u \in Threads : Settling(u) => mid[u].handle # k
        BY <2>2 DEF CallInv, InTable, Settling, Using
      <4> QED  BY <1>1, <2>5, <4>1 DEF Settling
    <3>2. SettledPos(k)' = stream'[files'[k]].pos  BY <3>1 DEF SettledFacts
    <3>3. k \in DOMAIN files' /\ files'[k] = mid[t].stream  BY <2>1
    <3>4. stream[mid[t].stream].pos = 0
      BY <2>1 DEF CallInv, AllMeasured, Measured, Pos
    <3> QED  BY <2>1, <3>2, <3>3, <3>4 DEF OpenNow
  <2>8. file \in Places
    <3>1. File(t) \in Places  BY <2>1, InsideType DEF CallInv
    <3> QED  BY <3>1 DEF File
  <2>9. DOMAIN OpenNow' = DOMAIN OpenNow \union {k}  BY <2>1 DEF OpenNow
  <2>10. OpenNow' = [g \in DOMAIN OpenNow \union {k} |->
                      IF g = k THEN [file |-> file, pos |-> 0] ELSE OpenNow[g]]
    <3>1. OpenNow' = [g \in DOMAIN OpenNow' |-> OpenNow'[g]]  BY DEF OpenNow
    <3> QED  BY <1>4, <2>2, <2>6, <2>7, <2>9, <3>1
  <2> QED  BY <2>2, <2>3, <2>4, <2>8, <2>10, PromiseOpen
<1>9. ASSUME NEW h \in Handles,
             \/ NtReadFile(t, h) \/ NtQueryInformationFile(t, h)
             \/ NtSetInformationFile(t, h)
      PROVE  [Promise!Next]_(Promise!vars)
  <2>1. PICK op \in {"read at", "query", "seek"} :
          \E offset, count : Finds(t, h, op, offset, count)
    <3>1. NtReadFile(t, h) => \E offset, count : Finds(t, h, "read at", offset, count)
      BY DEF NtReadFile
    <3>2. NtQueryInformationFile(t, h) => Finds(t, h, "query", Current, 0)
      BY DEF NtQueryInformationFile
    <3>3. NtSetInformationFile(t, h) => \E offset : Finds(t, h, "seek", offset, 0)
      BY DEF NtSetInformationFile
    <3> QED  BY <1>9, <3>1, <3>2, <3>3, Zenon
  <2>2. PICK offset, count : Finds(t, h, op, offset, count)  BY <2>1
  <2>3. /\ UNCHANGED <<files, nextHandle, stream, answer>> /\ mid[t] = Idle
        /\ mid'[t] = Call(op, h, files[h], offset, count)
    BY <1>2, <2>2 DEF Finds, Enters
  <2>4. mid'[t].op = op
    <3>1. Call(op, h, files[h], offset, count).op = op  BY DEF Call
    <3> QED  BY <2>3, <3>1, Zenon
  <2>5. ~ Settling(t) /\ ~ Settling(t)'  BY <1>3, <2>1, <2>3, <2>4 DEF Settling
  <2>6. UNCHANGED OpenNow  BY <1>1, <2>3, <2>5, SeenAsBefore
  <2>7. UNCHANGED <<UsedNow, AnswerNow>>  BY <2>3 DEF UsedNow, AnswerNow
  <2> QED  BY <2>6, <2>7, PromiseVars
<1>10. ASSUME NEW h \in Handles, NtClose(t, h)
       PROVE  [Promise!Next]_(Promise!vars)
  <2>1. /\ h \in DOMAIN files /\ UNCHANGED nextHandle
        /\ mid[t] = Idle /\ mid'[t] = Idle /\ Returns(t, [status |-> "success"])
        /\ files' = [g \in DOMAIN files \ {h} |-> files[g]]
        /\ \A s \in Streams : s # files[h] => stream'[s] = stream[s]
    BY <1>2, <1>10 DEF NtClose, Enters, Returns
  <2>2. ~ Settling(t) /\ ~ Settling(t)'  BY <1>3, <2>1 DEF Settling
  <2>3. \A g \in DOMAIN files \ {h} : OpenNow'[g] = OpenNow[g]
    <3> SUFFICES ASSUME NEW g \in DOMAIN files \ {h} PROVE OpenNow'[g] = OpenNow[g]
      OBVIOUS
    <3>1. g \in DOMAIN files' /\ files'[g] = files[g]  BY <2>1
    <3>2. files[g] # files[h]  BY <2>1 DEF CallInv, References, OneHandle
    <3>3. stream'[files[g]] = stream[files[g]]  BY <1>2, <2>1, <3>2
    <3> QED  BY <1>1, <2>2, <3>1, <3>3, SeenElsewhere
  <2>4. OpenNow' = [g \in DOMAIN OpenNow \ {h} |-> OpenNow[g]]
    <3>1. OpenNow' = [g \in DOMAIN files' |-> OpenNow'[g]]  BY DEF OpenNow
    <3>2. DOMAIN files' = DOMAIN OpenNow \ {h}  BY <1>4, <2>1
    <3> QED  BY <1>4, <2>3, <3>1, <3>2
  <2>5. AnswerNow' = [to |-> t, did |-> [status |-> "success"]]
    BY <2>1, AnswerIs
  <2>6. UNCHANGED UsedNow  BY <2>1 DEF UsedNow
  <2> QED  BY <1>4, <2>1, <2>4, <2>5, <2>6, PromiseClose
<1>11. ASSUME NEW h \in Handles, Refuses(t, h)
       PROVE  [Promise!Next]_(Promise!vars)
  <2>1. PICK status \in {"invalid handle", "success"} :
          Returns(t, [status |-> status])
    BY <1>11 DEF Refuses
  <2>2. /\ UNCHANGED <<files, nextHandle, stream>> /\ mid[t] = Idle /\ mid'[t] = Idle
        /\ h \notin DOMAIN files
    BY <1>2, <1>11 DEF Refuses, Enters, Returns
  <2>3. AnswerNow' = [to |-> t, did |-> [status |-> status]]
    BY <2>1, AnswerIs
  <2>4. UNCHANGED <<OpenNow, UsedNow>>  BY <1>6, <2>2
  <2> QED  BY <1>4, <2>2, <2>3, <2>4, PromiseRefuse
<1> QED  BY <1>5, <1>7, <1>8, <1>9, <1>10, <1>11
LEMMA PromiseStepInside ==
  ASSUME CallInv, SettledFacts, SettledFacts', NEW t \in Threads,
         SeekFirst(t) \/ Reads(t) \/ TellAndSeekEnd(t) \/ SeekBack(t) \/ Seeks(t)
  PROVE  [Promise!Next]_(Promise!vars)
<1>0. StepOf(t) /\ UNCHANGED <<files, nextHandle>> /\ Using(t)
  BY DEF StepOf, SeekFirst, Reads, TellAndSeekEnd, SeekBack, Seeks, Within, Using
<1>1. /\ mid \in [Threads -> Calls(opens)] /\ mid[t] \in Calls(opens)
      /\ stream \in [Streams -> StreamRecords]
      /\ TypeInv /\ Measured(t) /\ mid[t].op # "idle"
  BY <1>0, MidType DEF CallInv, AllMeasured, Using
<1>2. PICK g : g = mid[t].handle  OBVIOUS
<1>3. UNCHANGED UsedNow  BY <1>0 DEF UsedNow
<1>4. /\ ~ Settling(t) => SettledPos(g) = Pos(t)
      /\ Settling(t) => SettledPos(g) = mid[t].was
      /\ ~ Settling(t)' => SettledPos(g)' = stream'[mid[t].stream].pos
      /\ Settling(t)' /\ mid'[t].handle = g => SettledPos(g)' = mid'[t].was
  BY <1>0, <1>2, SeenByUser
\* A step in the middle of a call: the handle stands where it stood.
<1>5. ASSUME UNCHANGED answer, Settling(t)', mid'[t].handle = g,
             mid'[t].was = IF Settling(t) THEN mid[t].was ELSE Pos(t),
             \/ UNCHANGED stream
             \/ \E pos : MovesTo(t, pos)
      PROVE  [Promise!Next]_(Promise!vars)
  <2>1. /\ \A s \in Streams : s # mid[t].stream => stream'[s] = stream[s]
        /\ stream'[mid[t].stream].path = File(t)
    BY <1>1, <1>5, MoveIs DEF File
  <2>2. SettledPos(g)' = SettledPos(g)  BY <1>4, <1>5
  <2>3. UNCHANGED OpenNow  BY <1>0, <1>2, <1>5, <2>1, <2>2, SeenAt
  <2>4. UNCHANGED AnswerNow  BY <1>5 DEF AnswerNow
  <2> QED  BY <1>3, <2>3, <2>4, PromiseVars
\* The last step of a call leaves the handle at pos.
<1>6. ASSUME NEW pos, MovesTo(t, pos), mid'[t] = Idle
      PROVE  /\ OpenNow' = MovedTo(g, pos)
             /\ g \in DOMAIN OpenNow /\ OpenNow[g].file = File(t)
             /\ OpenNow[g].pos = SettledPos(g)
             /\ pos = SettledPos(g) => UNCHANGED OpenNow
  <2>1. ~ Settling(t)'  BY <1>6 DEF Settling, Idle, Call
  <2>2. /\ stream'[mid[t].stream].pos = pos
        /\ \A s \in Streams : s # mid[t].stream => stream'[s] = stream[s]
        /\ stream'[mid[t].stream].path = File(t)
    BY <1>1, <1>6, MoveIs
  <2>3. SettledPos(g)' = pos  BY <1>4, <2>1, <2>2
  <2>4. Settling(t)' => mid'[t].handle = mid[t].handle  BY <2>1
  <2> QED  BY <1>0, <1>2, <2>2, <2>3, <2>4, SeenAt
<1>7. CASE SeekFirst(t)
  <2>1. /\ mid[t].op = "read at" /\ MovesTo(t, Sought(t)) /\ UNCHANGED answer
        /\ mid'[t] = [mid[t] EXCEPT !.op = "read", !.was = Pos(t)]
    BY <1>1, <1>7 DEF SeekFirst, Within
  <2>2. mid'[t].op = "read" /\ mid'[t].was = Pos(t) /\ mid'[t].handle = g
    BY <1>1, <1>2, <2>1 DEF Calls
  <2> QED  BY <1>5, <2>1, <2>2 DEF Settling
<1>8. CASE TellAndSeekEnd(t)
  <2>1. /\ mid[t].op \in {"query", "to end", "tell"} /\ UNCHANGED answer
        /\ UNCHANGED stream \/ \E pos : MovesTo(t, pos)
        /\ \/ /\ mid[t].op = "query"
              /\ mid'[t] = [mid[t] EXCEPT !.op = "to end", !.was = Pos(t)]
           \/ /\ mid[t].op = "to end"
              /\ mid'[t] = [mid[t] EXCEPT !.op = "tell"]
           \/ /\ mid[t].op = "tell"
              /\ mid'[t] = [mid[t] EXCEPT !.op = "back", !.size = Pos(t)]
    BY <1>1, <1>8 DEF TellAndSeekEnd, Within
  <2>2. /\ mid'[t].op \in {"to end", "tell", "back"} /\ mid'[t].handle = g
        /\ mid'[t].was = IF mid[t].op = "query" THEN Pos(t) ELSE mid[t].was
    BY <1>1, <1>2, <2>1 DEF Calls
  <2>3. Settling(t)' /\ (Settling(t) <=> mid[t].op # "query")
    BY <2>1, <2>2 DEF Settling
  <2> QED  BY <1>5, <2>1, <2>2, <2>3
<1>9. CASE Reads(t)
  <2>. DEFINE n == Lesser(mid[t].count, Left(File(t), Pos(t)))
              what == [status |-> IF n = 0 /\ mid[t].count # 0
                                  THEN "end of file" ELSE "success",
                       offset |-> mid[t].offset, count |-> mid[t].count,
                       file |-> File(t), from |-> Pos(t), n |-> n]
  <2>1. mid[t].op = "read" /\ MovesTo(t, Pos(t) + n) /\ mid'[t] = Idle
        /\ Returns(t, what)
    BY <1>1, <1>9 DEF Reads, Within, Returns
  <2>2. Settling(t) /\ mid[t].count \in Counts
        /\ Pos(t) = IF mid[t].offset < 0 THEN mid[t].was ELSE mid[t].offset
    BY <1>1, <2>1 DEF Settling, Measured
  <2>3. mid[t].offset \in Offsets \union {Current}  BY <1>1 DEF Calls
  <2>4. what.status # "not found"  OBVIOUS
  <2>5. AnswerNow' = [to |-> t, did |-> what]
    <3> HIDE DEF what
    <3> QED  BY <2>1, <2>4, AnswerIs
  <2>6. /\ OpenNow' = MovedTo(g, Pos(t) + n)
        /\ g \in DOMAIN OpenNow /\ OpenNow[g].file = File(t)
        /\ OpenNow[g].pos = mid[t].was
    <3> HIDE DEF n
    <3> QED  BY <1>4, <1>6, <2>1, <2>2
  <2>7. /\ n = Lesser(mid[t].count, Left(OpenNow[g].file, Pos(t)))
        /\ Pos(t) = IF mid[t].offset < 0 THEN OpenNow[g].pos ELSE mid[t].offset
    BY <2>2, <2>6
  <2>8. AnswerNow' =
          ReadSeen(t, OpenNow[g].file, mid[t].offset, Pos(t), mid[t].count, n)
    BY <2>5, <2>6 DEF ReadSeen, Promise!ReadAnswer
  <2>9. PICK count, offset, from, m :
          /\ count \in Counts /\ offset \in Offsets \union {Current}
          /\ count = mid[t].count /\ offset = mid[t].offset /\ from = Pos(t) /\ m = n
    BY <2>2, <2>3
  <2> HIDE DEF n
  <2>10. /\ from = IF offset < 0 THEN OpenNow[g].pos ELSE offset
         /\ m = Lesser(count, Left(OpenNow[g].file, from))
         /\ OpenNow' = MovedTo(g, from + m)
         /\ AnswerNow' = ReadSeen(t, OpenNow[g].file, offset, from, count, m)
    BY <2>6, <2>7, <2>8, <2>9
  <2>11. count \in Counts /\ offset \in Offsets \union {Current}  BY <2>9
  <2>12. g \in DOMAIN OpenNow  BY <2>6
  <2>13. UNCHANGED UsedNow  BY <1>3
  <2> QED  BY <2>10, <2>11, <2>12, <2>13, PromiseRead
<1>10. CASE SeekBack(t)
  <2>. DEFINE what == [status |-> "success", pos |-> mid[t].was, size |-> mid[t].size]
  <2>1. mid[t].op = "back" /\ MovesTo(t, mid[t].was) /\ mid'[t] = Idle
        /\ Returns(t, what)
    BY <1>1, <1>10 DEF SeekBack, Within, Returns
  <2>2. Settling(t) /\ mid[t].size = Size[File(t)]
    BY <1>1, <2>1 DEF Settling, Measured
  <2>3. /\ UNCHANGED OpenNow /\ g \in DOMAIN OpenNow
        /\ OpenNow[g].file = File(t) /\ OpenNow[g].pos = mid[t].was
    BY <1>4, <1>6, <2>1, <2>2
  <2>4. what.status # "not found"  OBVIOUS
  <2>5. AnswerNow' = [to |-> t, did |-> what]
    <3> HIDE DEF what
    <3> QED  BY <2>1, <2>4, AnswerIs
  <2>6. AnswerNow' = [to |-> t,
                      did |-> [status |-> "success", pos |-> OpenNow[g].pos,
                               size |-> Size[OpenNow[g].file]]]
    BY <2>2, <2>3, <2>5
  <2> QED  BY <1>3, <2>3, <2>6, PromiseQuery
<1>11. CASE Seeks(t)
  <2>. DEFINE what == [status |-> "success", offset |-> mid[t].offset]
  <2>1. mid[t].op = "seek" /\ MovesTo(t, Sought(t)) /\ mid'[t] = Idle
        /\ Returns(t, what)
    BY <1>1, <1>11 DEF Seeks, Within, Returns
  <2>2. ~ Settling(t) /\ mid[t].offset \in Offsets
    BY <1>1, <2>1 DEF Settling, Measured
  <2>3. /\ OpenNow' = MovedTo(g, Sought(t))
        /\ g \in DOMAIN OpenNow /\ OpenNow[g].pos = Pos(t)
    BY <1>4, <1>6, <2>1, <2>2
  <2>4. Sought(t) = IF mid[t].offset < 0 THEN OpenNow[g].pos ELSE mid[t].offset
    BY <2>3 DEF Sought
  <2>5. what.status # "not found"  OBVIOUS
  <2>6. AnswerNow' = [to |-> t, did |-> what]
    <3> HIDE DEF what
    <3> QED  BY <2>1, <2>5, AnswerIs
  <2> QED  BY <1>3, <2>2, <2>3, <2>4, <2>6, PromiseSeek
<1> QED  BY <1>7, <1>8, <1>9, <1>10, <1>11

\* As long as the title keeps two threads out of one handle, every call is one
\* step on the handle it was given, whatever the other threads do on theirs: the
\* file calls of kernel.cpp implement OpenFiles.
THEOREM CallsAreAtomic ==
  ASSUME ~ Shared
  PROVE  Spec => ImplementsOpenFiles
<1>1. Init => CallInv /\ Promise!Init
  <2>1. Init => Promise!Init
    <3> SUFFICES ASSUME Init PROVE Promise!Init
      OBVIOUS
    <3>1. OpenNow = [h \in {} |-> 0] /\ UsedNow = {}
      BY DEF Init, OpenNow, UsedNow
    <3>2. AnswerNow = Promise!Nothing
      BY DEF Init, AnswerNow, Promise!Nothing
    <3> QED  BY <3>1, <3>2 DEF Promise!Init, OpenNow, UsedNow, AnswerNow
  <2> QED  BY <2>1, CallInvInit
<1>2. CallInv /\ [Next]_vars => CallInv'  BY CallInvStep
<1>3. CallInv => SettledFacts  BY SettledIs DEF CallInv
<1>4. CallInv /\ SettledFacts /\ SettledFacts' /\ [Next]_vars =>
        [Promise!Next]_(Promise!vars)
  <2>1. CASE UNCHANGED vars
    <3>1. UNCHANGED Promise!vars
      BY <2>1 DEF vars, Promise!vars, SettledPos
    <3> QED  BY <3>1
  <2>2. ASSUME CallInv, SettledFacts, SettledFacts', NEW t \in Threads, StepOf(t)
        PROVE  [Promise!Next]_(Promise!vars)
    BY <2>2, PromiseStepOutside, PromiseStepInside DEF StepOf
  <2> QED  BY <2>1, <2>2, StepBySome
<1> QED  BY <1>1, <1>2, <1>3, <1>4, PTL DEF Spec, ImplementsOpenFiles, Promise!Spec
-----------------------------------------------------------------------------
(* Names.  Both the walk through the directories and the spelling of a name  *)
(* are recursions over its components: that there is such a function, that   *)
(* there is only one, and what holds of it, by the least index that has none *)
(* or that breaks it.                                                        *)

LEMMA SmallestIn ==
  ASSUME NEW T \in SUBSET Nat, T # {}
  PROVE  \E n \in T : \A m \in T : n <= m
<1>1. PICK n \in T : \A m \in T : <<m, n>> \notin OpToRel(<, Nat)
  BY WFMin, NatLessThanWellFounded, Zenon
<1>2. \A m \in T : ~(m < n)
  BY <1>1, Zenon DEF OpToRel
<1> QED
  BY <1>2

LEMMA UpTo ==
  ASSUME NEW n \in Nat, NEW S, 0 \in S, \A i \in 1 .. n : i - 1 \in S => i \in S
  PROVE  \A i \in 0 .. n : i \in S
<1>. DEFINE T == {i \in 0 .. n : i \notin S}
<1>1. SUFFICES ASSUME T # {} PROVE FALSE
  OBVIOUS
<1>2. T \in SUBSET Nat  OBVIOUS
<1> HIDE DEF T
<1>3. PICK m \in T : \A k \in T : m <= k  BY <1>1, <1>2, SmallestIn
<1>4. m \in 0 .. n /\ m \notin S  BY DEF T
<1>5. m # 0  BY <1>4
<1>6. m - 1 \in 0 .. n /\ m \in 1 .. n /\ ~ (m <= m - 1)  BY <1>4, <1>5
<1>7. m - 1 \in S  BY <1>3, <1>6 DEF T
<1> QED  BY <1>4, <1>6, <1>7

\* f applies the steps one after the other to x.
Follows(f, n, X, x, step) ==
  /\ f \in [0 .. n -> X] /\ f[0] = x
  /\ \A i \in 1 .. n : f[i] = step[i][f[i - 1]]

LEMMA RecursionExists ==
  ASSUME NEW n \in Nat, NEW X, NEW x \in X, NEW step \in [1 .. n -> [X -> X]]
  PROVE  \E f : Follows(f, n, X, x, step)
<1>. DEFINE S == {i \in 0 .. n : \E f : Follows(f, i, X, x, step)}
<1>1. 0 \in S
  <2>1. Follows([i \in 0 .. 0 |-> x], 0, X, x, step)  BY DEF Follows
  <2> QED  BY <2>1
<1>2. ASSUME NEW i \in 1 .. n, i - 1 \in S PROVE i \in S
  <2>1. PICK f : Follows(f, i - 1, X, x, step)  BY <1>2
  <2>. DEFINE g == [j \in 0 .. i |-> IF j = i THEN step[i][f[i - 1]] ELSE f[j]]
  <2>2. f \in [0 .. i - 1 -> X] /\ f[0] = x
        /\ \A j \in 1 .. i - 1 : f[j] = step[j][f[j - 1]]
    BY <2>1 DEF Follows
  <2>3. f[i - 1] \in X /\ step[i] \in [X -> X]  BY <2>2
  <2>4. step[i][f[i - 1]] \in X  BY <2>3
  <2>5. \A j \in 0 .. i : j # i => j \in 0 .. i - 1  OBVIOUS
  <2>6. g \in [0 .. i -> X]  BY <2>2, <2>4, <2>5
  <2>7. g[0] = x /\ g[i] = step[i][f[i - 1]] /\ \A j \in 0 .. i - 1 : g[j] = f[j]
    BY <2>2
  <2> HIDE DEF g
  <2>8. \A j \in 1 .. i : g[j] = step[j][g[j - 1]]
    <3> SUFFICES ASSUME NEW j \in 1 .. i PROVE g[j] = step[j][g[j - 1]]
      OBVIOUS
    <3>1. j - 1 \in 0 .. i - 1  OBVIOUS
    <3>2. g[j - 1] = f[j - 1]  BY <2>7, <3>1
    <3>3. CASE j = i  BY <2>7, <3>2, <3>3
    <3>4. CASE j # i
      <4>1. j \in 1 .. i - 1  BY <3>4
      <4> QED  BY <2>2, <2>7, <3>2, <4>1
    <3> QED  BY <3>3, <3>4
  <2> QED  BY <2>6, <2>7, <2>8 DEF Follows
<1>3. \A i \in 0 .. n : i \in S
  <2> HIDE DEF S
  <2> QED  BY <1>1, <1>2, UpTo
<1> QED  BY <1>3

\* Two functions that follow steps that agree up to m agree up to m.
LEMMA RecursionUnique ==
  ASSUME NEW n \in Nat, NEW m \in 0 .. n, NEW X, NEW x, NEW step, NEW other,
         NEW f, NEW g, Follows(f, n, X, x, step), Follows(g, m, X, x, other),
         \A i \in 1 .. m : step[i] = other[i]
  PROVE  \A i \in 0 .. m : f[i] = g[i]
<1>. DEFINE S == {i \in 0 .. m : f[i] = g[i]}
<1>1. 0 \in S  BY DEF Follows
<1>2. ASSUME NEW i \in 1 .. m, i - 1 \in S PROVE i \in S
  <2>1. i \in 1 .. n  OBVIOUS
  <2>2. f[i] = step[i][f[i - 1]] /\ g[i] = other[i][g[i - 1]]
    BY <2>1 DEF Follows
  <2> QED  BY <1>2, <2>2
<1>3. \A i \in 0 .. m : i \in S
  <2> HIDE DEF S
  <2> QED  BY <1>1, <1>2, UpTo
<1> QED  BY <1>3
Components == DOMAIN LowerCase
Skipped(part) == part \in {"", "."}

Onward(folders, part) ==
  IF Skipped(part) THEN folders
  ELSE UNION {Below(folder, part) : folder \in folders}
Longer(spelled, part) == IF Skipped(part) THEN spelled ELSE Append(spelled, part)

\* The recursions of Resolve and of Parts over the components of a name.
WalkOf(name) ==
  [i \in 1 .. Len(name) |->
    [folders \in SUBSET Seq(Components) |-> Onward(folders, name[i])]]
SpellingOf(name) ==
  [i \in 1 .. Len(name) |->
    [spelled \in Seq(Components) |-> Longer(spelled, name[i])]]
Walks(f, name) ==
  Follows(f, Len(name), SUBSET Seq(Components), {<<>>}, WalkOf(name))
Spelling(g, name) ==
  Follows(g, Len(name), Seq(Components), <<>>, SpellingOf(name))

LEMMA BelowType ==
  ASSUME NEW folder \in Seq(Components), NEW part \in Components
  PROVE  Below(folder, part) \subseteq Seq(Components)
<1>1. Append(folder, part) \in Seq(Components)  OBVIOUS
<1>2. Entries(folder) \subseteq Seq(Components)
  BY DiskAssumption DEF Entries, Components
<1> QED  BY <1>1, <1>2 DEF Below

LEMMA WalkType ==
  ASSUME NEW name \in Seq(Components)
  PROVE  WalkOf(name) \in [1 .. Len(name) -> [SUBSET Seq(Components) ->
                                                SUBSET Seq(Components)]]
<1> SUFFICES ASSUME NEW i \in 1 .. Len(name), NEW folders \in SUBSET Seq(Components)
             PROVE  Onward(folders, name[i]) \in SUBSET Seq(Components)
  BY DEF WalkOf
<1>1. name[i] \in Components  OBVIOUS
<1>2. \A folder \in folders : Below(folder, name[i]) \subseteq Seq(Components)
  BY <1>1, BelowType
<1> QED  BY <1>2 DEF Onward

LEMMA SpellingType ==
  ASSUME NEW name \in Seq(Components)
  PROVE  SpellingOf(name) \in [1 .. Len(name) -> [Seq(Components) -> Seq(Components)]]
<1> SUFFICES ASSUME NEW i \in 1 .. Len(name), NEW spelled \in Seq(Components)
             PROVE  Longer(spelled, name[i]) \in Seq(Components)
  BY DEF SpellingOf
<1>1. name[i] \in Components  OBVIOUS
<1> QED  BY <1>1 DEF Longer

\* Resolve follows the walk.
LEMMA ResolveIs ==
  ASSUME NEW name \in Seq(Components)
  PROVE  \E f : Walks(f, name) /\ Resolve(name) = f[Len(name)]
<1>. DEFINE after[i \in 0 .. Len(name)] ==
              IF i = 0 THEN {<<>>}
              ELSE IF name[i] \in {"", "."} THEN after[i - 1]
              ELSE UNION {Below(folder, name[i]) : folder \in after[i - 1]}
            Is(f) == f = [i \in 0 .. Len(name) |->
                           IF i = 0 THEN {<<>>} ELSE Onward(f[i - 1], name[i])]
<1>1. after = CHOOSE f : Is(f)  BY Zenon DEF Onward, Skipped
<1>2. Resolve(name) = after[Len(name)]  BY Zenon DEF Resolve
<1> HIDE DEF after
<1>3. PICK n \in Nat : n = Len(name)  OBVIOUS
<1>4. ASSUME NEW f, Is(f)
      PROVE  /\ f[0] = {<<>>} /\ f = [i \in 0 .. n |-> f[i]]
             /\ \A i \in 1 .. n : f[i] = Onward(f[i - 1], name[i])
  <2>1. f = [i \in 0 .. n |-> IF i = 0 THEN {<<>>} ELSE Onward(f[i - 1], name[i])]
    BY <1>3, <1>4
  <2> HIDE DEF Is
  <2>2. \A i \in 0 .. n : f[i] = IF i = 0 THEN {<<>>} ELSE Onward(f[i - 1], name[i])
    BY <2>1
  <2>3. f = [i \in 0 .. n |-> f[i]]  BY <2>1
  <2>4. 0 \in 0 .. n /\ \A i \in 1 .. n : i \in 0 .. n /\ i # 0  BY <1>3
  <2> QED  BY <2>2, <2>3, <2>4
<1>5. PICK w : Walks(w, name)
  <2>1. {<<>>} \in SUBSET Seq(Components)  OBVIOUS
  <2> QED  BY <1>3, <2>1, WalkType, RecursionExists DEF Walks
<1>6. /\ w \in [0 .. n -> SUBSET Seq(Components)] /\ w[0] = {<<>>}
      /\ \A i \in 1 .. n : w[i] = Onward(w[i - 1], name[i])
  <2>1. /\ w \in [0 .. n -> SUBSET Seq(Components)] /\ w[0] = {<<>>}
        /\ \A i \in 1 .. n : w[i] = WalkOf(name)[i][w[i - 1]]
    BY <1>3, <1>5 DEF Walks, Follows
  <2>2. \A i \in 1 .. n : w[i - 1] \in SUBSET Seq(Components)
    <3>1. \A i \in 1 .. n : i - 1 \in 0 .. n  BY <1>3
    <3> QED  BY <2>1, <3>1
  <2>3. \A i \in 1 .. n, folders \in SUBSET Seq(Components) :
          WalkOf(name)[i][folders] = Onward(folders, name[i])
    BY <1>3 DEF WalkOf
  <2> QED  BY <2>1, <2>2, <2>3
<1>7. Is(w)
  <2>1. w = [i \in 0 .. n |-> w[i]]  BY <1>6
  <2>2. \A i \in 0 .. n : w[i] = IF i = 0 THEN {<<>>} ELSE Onward(w[i - 1], name[i])
    <3>1. \A i \in 0 .. n : i # 0 => i \in 1 .. n  BY <1>3
    <3> QED  BY <1>6, <3>1
  <2> QED  BY <1>3, <2>1, <2>2
<1>8. ASSUME NEW f, Is(f) PROVE f = w
  <2>. DEFINE S == {i \in 0 .. n : f[i] = w[i]}
  <2>0. f = [i \in 0 .. n |-> f[i]] /\ w = [i \in 0 .. n |-> w[i]]
    BY <1>4, <1>6, <1>8
  <2>1. /\ f[0] = {<<>>}
        /\ \A i \in 1 .. n : f[i] = Onward(f[i - 1], name[i])
    BY <1>4, <1>8
  <2> HIDE DEF Is
  <2>2. 0 \in S
    <3>1. 0 \in 0 .. n  BY <1>3
    <3>2. f[0] = w[0]  BY <1>6, <2>1, Zenon
    <3> QED  BY <3>1, <3>2, Zenon
  <2>3. ASSUME NEW i \in 1 .. n, i - 1 \in S PROVE i \in S
    BY <1>6, <2>1, <2>3
  <2>4. \A i \in 0 .. n : i \in S
    <3> HIDE DEF S
    <3> QED  BY <1>3, <2>2, <2>3, UpTo
  <2> QED  BY <2>0, <2>4
<1> HIDE DEF Is
<1>9. after = w  BY <1>1, <1>7, <1>8
<1> QED  BY <1>2, <1>5, <1>9
\* Parts spells a name, component by component.
LEMMA PartsIs ==
  ASSUME NEW name \in Seq(Components)
  PROVE  \E g : Spelling(g, name) /\ Parts(name) = g[Len(name)]
<1>. DEFINE before[i \in 0 .. Len(name)] ==
              IF i = 0 THEN <<>>
              ELSE IF name[i] \in {"", "."} THEN before[i - 1]
              ELSE Append(before[i - 1], name[i])
            Is(f) == f = [i \in 0 .. Len(name) |->
                           IF i = 0 THEN <<>> ELSE Longer(f[i - 1], name[i])]
<1>1. before = CHOOSE f : Is(f)  BY Zenon DEF Longer, Skipped
<1>2. Parts(name) = before[Len(name)]  BY Zenon DEF Parts
<1> HIDE DEF before
<1>3. PICK n \in Nat : n = Len(name)  OBVIOUS
<1>4. ASSUME NEW f, Is(f)
      PROVE  /\ f[0] = <<>> /\ f = [i \in 0 .. n |-> f[i]]
             /\ \A i \in 1 .. n : f[i] = Longer(f[i - 1], name[i])
  <2>1. f = [i \in 0 .. n |-> IF i = 0 THEN <<>> ELSE Longer(f[i - 1], name[i])]
    BY <1>3, <1>4
  <2> HIDE DEF Is
  <2>2. \A i \in 0 .. n : f[i] = IF i = 0 THEN <<>> ELSE Longer(f[i - 1], name[i])
    BY <2>1
  <2>3. f = [i \in 0 .. n |-> f[i]]  BY <2>1
  <2>4. 0 \in 0 .. n /\ \A i \in 1 .. n : i \in 0 .. n /\ i # 0  BY <1>3
  <2> QED  BY <2>2, <2>3, <2>4
<1>5. PICK g : Spelling(g, name)
  <2>1. <<>> \in Seq(Components)  OBVIOUS
  <2> QED  BY <1>3, <2>1, SpellingType, RecursionExists DEF Spelling
<1>6. /\ g \in [0 .. n -> Seq(Components)] /\ g[0] = <<>>
      /\ \A i \in 1 .. n : g[i] = Longer(g[i - 1], name[i])
  <2>1. /\ g \in [0 .. n -> Seq(Components)] /\ g[0] = <<>>
        /\ \A i \in 1 .. n : g[i] = SpellingOf(name)[i][g[i - 1]]
    BY <1>3, <1>5 DEF Spelling, Follows
  <2>2. \A i \in 1 .. n : g[i - 1] \in Seq(Components)
    <3>1. \A i \in 1 .. n : i - 1 \in 0 .. n  BY <1>3
    <3> QED  BY <2>1, <3>1
  <2>3. \A i \in 1 .. n, spelled \in Seq(Components) :
          SpellingOf(name)[i][spelled] = Longer(spelled, name[i])
    BY <1>3 DEF SpellingOf
  <2> QED  BY <2>1, <2>2, <2>3
<1>7. Is(g)
  <2>1. g = [i \in 0 .. n |-> g[i]]  BY <1>6
  <2>2. \A i \in 0 .. n : g[i] = IF i = 0 THEN <<>> ELSE Longer(g[i - 1], name[i])
    <3>1. \A i \in 0 .. n : i # 0 => i \in 1 .. n  BY <1>3
    <3> QED  BY <1>6, <3>1
  <2> QED  BY <1>3, <2>1, <2>2
<1>8. ASSUME NEW f, Is(f) PROVE f = g
  <2>. DEFINE S == {i \in 0 .. n : f[i] = g[i]}
  <2>0. f = [i \in 0 .. n |-> f[i]] /\ g = [i \in 0 .. n |-> g[i]]
    BY <1>4, <1>6, <1>8
  <2>1. /\ f[0] = <<>>
        /\ \A i \in 1 .. n : f[i] = Longer(f[i - 1], name[i])
    BY <1>4, <1>8
  <2> HIDE DEF Is
  <2>2. 0 \in S
    <3>1. 0 \in 0 .. n  BY <1>3
    <3>2. f[0] = g[0]  BY <1>6, <2>1, Zenon
    <3> QED  BY <3>1, <3>2, Zenon
  <2>3. ASSUME NEW i \in 1 .. n, i - 1 \in S PROVE i \in S
    BY <1>6, <2>1, <2>3
  <2>4. \A i \in 0 .. n : i \in S
    <3> HIDE DEF S
    <3> QED  BY <1>3, <2>2, <2>3, UpTo
  <2> QED  BY <2>0, <2>4
<1> HIDE DEF Is
<1>9. before = g  BY <1>1, <1>7, <1>8
<1> QED  BY <1>2, <1>5, <1>9
\* The folders and the spelling after each component of a name.
Trail(name, f, g) ==
  LET n == Len(name) IN
  /\ f \in [0 .. n -> SUBSET Seq(Components)] /\ f[0] = {<<>>}
  /\ \A i \in 1 .. n : f[i] = Onward(f[i - 1], name[i])
  /\ g \in [0 .. n -> Seq(Components)] /\ g[0] = <<>>
  /\ \A i \in 1 .. n : g[i] = Longer(g[i - 1], name[i])
  /\ Resolve(name) = f[n]
  /\ \A i \in 0 .. n : Parts(SubSeq(name, 1, i)) = g[i]

LEMMA TrailExists ==
  ASSUME NEW name \in Seq(Components)
  PROVE  \E f, g : Trail(name, f, g)
<1>1. PICK n \in Nat : n = Len(name)  OBVIOUS
<1>2. PICK f : Walks(f, name) /\ Resolve(name) = f[n]  BY <1>1, ResolveIs
<1>3. PICK g : Spelling(g, name)  BY PartsIs
<1>4. \A i \in 1 .. n : f[i] = Onward(f[i - 1], name[i])
  <2>1. /\ f \in [0 .. n -> SUBSET Seq(Components)]
        /\ \A i \in 1 .. n : f[i] = WalkOf(name)[i][f[i - 1]]
    BY <1>1, <1>2 DEF Walks, Follows
  <2>2. \A i \in 1 .. n : i - 1 \in 0 .. n  BY <1>1
  <2>3. \A i \in 1 .. n, folders \in SUBSET Seq(Components) :
          WalkOf(name)[i][folders] = Onward(folders, name[i])
    BY <1>1 DEF WalkOf
  <2> QED  BY <2>1, <2>2, <2>3
<1>5. \A i \in 1 .. n : g[i] = Longer(g[i - 1], name[i])
  <2>1. /\ g \in [0 .. n -> Seq(Components)]
        /\ \A i \in 1 .. n : g[i] = SpellingOf(name)[i][g[i - 1]]
    BY <1>1, <1>3 DEF Spelling, Follows
  <2>2. \A i \in 1 .. n : i - 1 \in 0 .. n  BY <1>1
  <2>3. \A i \in 1 .. n, spelled \in Seq(Components) :
          SpellingOf(name)[i][spelled] = Longer(spelled, name[i])
    BY <1>1 DEF SpellingOf
  <2> QED  BY <2>1, <2>2, <2>3
<1>6. ASSUME NEW i \in 0 .. n PROVE Parts(SubSeq(name, 1, i)) = g[i]
  <2>1. PICK start \in Seq(Components) : start = SubSeq(name, 1, i)
    <3>1. SubSeq(name, 1, i) \in Seq(Components)
      <4>1. CASE i = 0  BY <4>1
      <4>2. CASE i # 0
        <5>1. i \in 1 .. Len(name)  BY <1>1, <4>2
        <5> QED  BY <5>1
      <4> QED  BY <4>1, <4>2
    <3> QED  BY <3>1
  <2>2. Len(start) = i /\ \A j \in 1 .. i : start[j] = name[j]
    BY <1>1, <1>6, <2>1
  <2>3. PICK s : Spelling(s, start) /\ Parts(start) = s[i]  BY <2>2, PartsIs
  <2>4. Follows(s, i, Seq(Components), <<>>, SpellingOf(start))
        /\ Follows(g, n, Seq(Components), <<>>, SpellingOf(name))
    BY <1>1, <1>3, <2>2, <2>3 DEF Spelling
  <2>5. \A j \in 1 .. i : SpellingOf(name)[j] = SpellingOf(start)[j]
    <3>1. \A j \in 1 .. i : j \in 1 .. n  BY <1>1, <1>6
    <3> QED  BY <1>1, <2>2, <3>1 DEF SpellingOf
  <2>6. \A j \in 0 .. i : g[j] = s[j]
    BY <1>1, <1>6, <2>4, <2>5, RecursionUnique
  <2>7. i \in 0 .. i  BY <1>1, <1>6
  <2> QED  BY <2>1, <2>3, <2>6, <2>7
<1>7. /\ f \in [0 .. n -> SUBSET Seq(Components)] /\ f[0] = {<<>>}
      /\ g \in [0 .. n -> Seq(Components)] /\ g[0] = <<>>
  BY <1>1, <1>2, <1>3 DEF Walks, Spelling, Follows
<1> QED  BY <1>1, <1>2, <1>4, <1>5, <1>6, <1>7 DEF Trail

\* The whole name is the last of its beginnings.
LEMMA PartsOfWhole ==
  ASSUME NEW name \in Seq(Components), NEW f, NEW g, Trail(name, f, g)
  PROVE  Parts(name) = g[Len(name)]
<1>1. SubSeq(name, 1, Len(name)) = name /\ Len(name) \in 0 .. Len(name)  OBVIOUS
<1> QED  BY <1>1 DEF Trail

\* A path is spelled like parts.
Alike(p, parts) == Len(p) = Len(parts) /\ \A i \in 1 .. Len(p) : Like(p[i], parts[i])

\* One more component: the paths below a folder are spelled like it and part.
LEMMA BelowAlike ==
  ASSUME NEW folder \in Seq(Components), NEW part \in Components,
         NEW q \in Below(folder, part)
  PROVE  /\ q \in Seq(Components) /\ Len(q) = Len(folder) + 1
         /\ \A i \in 1 .. Len(folder) : q[i] = folder[i]
         /\ Like(q[Len(q)], part)
<1>1. CASE q = Append(folder, part)
  BY <1>1 DEF Like
<1>2. CASE q \in Entries(folder) /\ Like(q[Len(q)], part)
  <2>1. q \in Seq(Components) /\ q # <<>> /\ SubSeq(q, 1, Len(q) - 1) = folder
    BY <1>2, DiskAssumption DEF Entries, Components
  <2>2. PICK n \in Nat : n = Len(q) /\ n # 0  BY <2>1
  <2>3. Len(SubSeq(q, 1, n - 1)) = n - 1
        /\ \A i \in 1 .. n - 1 : SubSeq(q, 1, n - 1)[i] = q[i]
    BY <2>1, <2>2
  <2>4. Len(folder) = n - 1 /\ \A i \in 1 .. n - 1 : folder[i] = q[i]
    BY <2>1, <2>2, <2>3
  <2> QED  BY <1>2, <2>1, <2>2, <2>4
<1> QED  BY <1>1, <1>2 DEF Below

\* Whatever a name leads to is spelled like it.
LEMMA ResolvedAlike ==
  ASSUME NEW name \in Seq(Components), NEW f, NEW g, Trail(name, f, g)
  PROVE  \A i \in 0 .. Len(name) : \A q \in f[i] : Alike(q, g[i])
<1>. DEFINE S == {i \in 0 .. Len(name) : \A q \in f[i] : Alike(q, g[i])}
<1>1. PICK n \in Nat : n = Len(name)  OBVIOUS
<1>2. /\ f \in [0 .. n -> SUBSET Seq(Components)] /\ f[0] = {<<>>}
      /\ \A i \in 1 .. n : f[i] = Onward(f[i - 1], name[i])
      /\ g \in [0 .. n -> Seq(Components)] /\ g[0] = <<>>
      /\ \A i \in 1 .. n : g[i] = Longer(g[i - 1], name[i])
  BY <1>1 DEF Trail
<1>3. 0 \in S
  <2>1. Alike(<<>>, <<>>)  BY DEF Alike
  <2> QED  BY <1>1, <1>2, <2>1
<1>4. ASSUME NEW i \in 1 .. n, i - 1 \in S PROVE i \in S
  <2>1. i \in 0 .. n /\ i - 1 \in 0 .. n  BY <1>1
  <2> SUFFICES ASSUME NEW q \in f[i] PROVE Alike(q, g[i])
    BY <1>1, <2>1
  <2>2. f[i] = Onward(f[i - 1], name[i]) /\ g[i] = Longer(g[i - 1], name[i])
    BY <1>2
  <2>3. \A r \in f[i - 1] : Alike(r, g[i - 1])  BY <1>4
  <2>4. CASE Skipped(name[i])
    BY <2>2, <2>3, <2>4 DEF Onward, Longer
  <2>5. CASE ~ Skipped(name[i])
    <3>1. PICK r \in f[i - 1] : q \in Below(r, name[i])
      BY <2>2, <2>5 DEF Onward
    <3>2. PICK part \in Components : part = name[i]  BY <1>1
    <3>3. PICK spelled \in Seq(Components) : spelled = g[i - 1]  BY <1>2, <2>1
    <3>4. g[i] = Append(spelled, part)  BY <2>2, <2>5, <3>2, <3>3 DEF Longer
    <3>5. r \in Seq(Components)  BY <1>2, <2>1
    <3>6. /\ q \in Seq(Components) /\ Len(q) = Len(r) + 1
          /\ \A j \in 1 .. Len(r) : q[j] = r[j]
          /\ Like(q[Len(q)], part)
      BY <3>1, <3>2, <3>5, BelowAlike
    <3>7. Len(r) = Len(spelled) /\ \A j \in 1 .. Len(r) : Like(r[j], spelled[j])
      BY <2>3, <3>3 DEF Alike
    <3>8. /\ Len(g[i]) = Len(spelled) + 1 /\ g[i][Len(spelled) + 1] = part
          /\ \A j \in 1 .. Len(spelled) : g[i][j] = spelled[j]
      BY <3>3, <3>4
    <3>9. PICK m \in Nat : m = Len(r)  BY <3>5
    <3>10. \A j \in 1 .. m + 1 : Like(q[j], g[i][j])
      <4> SUFFICES ASSUME NEW j \in 1 .. m + 1 PROVE Like(q[j], g[i][j])
        OBVIOUS
      <4>1. CASE j = m + 1  BY <3>6, <3>7, <3>8, <3>9, <4>1
      <4>2. CASE j # m + 1
        <5>1. j \in 1 .. m  BY <4>2
        <5> QED  BY <3>6, <3>7, <3>8, <3>9, <5>1
      <4> QED  BY <4>1, <4>2
    <3> QED  BY <3>6, <3>7, <3>8, <3>9, <3>10 DEF Alike
  <2> QED  BY <2>4, <2>5
<1>5. \A i \in 0 .. n : i \in S
  <2> HIDE DEF S
  <2> QED  BY <1>3, <1>4, UpTo
<1> QED  BY <1>1, <1>5
LEMMA PlacesAre ==
  /\ Places \subseteq Seq(Components)
  /\ \A p \in Places : p # <<>> => p \in Tree
  /\ \A p \in Places : p # <<>> => SubSeq(p, 1, Len(p) - 1) \in Places
<1>1. Tree \subseteq Seq(Components)  BY DiskAssumption DEF Components
<1>2. <<>> \in Seq(Components)  OBVIOUS
<1>3. \A p \in Places : p = <<>> \/ p \in Tree  BY DEF Places
<1>4. \A p \in Tree : p # <<>> => SubSeq(p, 1, Len(p) - 1) \in Places
  BY DiskAssumption, Zenon
<1> QED  BY <1>1, <1>2, <1>3, <1>4, Zenon

\* A path without its last component.
LEMMA Shorter ==
  ASSUME NEW q \in Seq(Components), NEW part \in Components
  PROVE  /\ Append(q, part) \in Seq(Components) /\ Append(q, part) # <<>>
         /\ Len(Append(q, part)) = Len(q) + 1 /\ Append(q, part)[Len(q) + 1] = part
         /\ SubSeq(Append(q, part), 1, Len(Append(q, part)) - 1) = q
<1>1. PICK n \in Nat : n = Len(q)  OBVIOUS
<1>2. /\ Append(q, part) \in Seq(Components) /\ Len(Append(q, part)) = n + 1
      /\ Append(q, part)[n + 1] = part
      /\ \A i \in 1 .. n : Append(q, part)[i] = q[i]
  BY <1>1
<1>3. SubSeq(Append(q, part), 1, n) = q
  <2>. DEFINE a == Append(q, part)
  <2>1. a \in Seq(Components) /\ Len(a) = n + 1 /\ \A i \in 1 .. n : a[i] = q[i]
    BY <1>2
  <2> HIDE DEF a
  <2>2. SubSeq(a, 1, n) = [i \in 1 .. n |-> a[i]]  BY <1>1, <2>1
  <2>3. q = [i \in 1 .. n |-> q[i]]  BY <1>1
  <2>4. [i \in 1 .. n |-> a[i]] = [i \in 1 .. n |-> q[i]]  BY <2>1
  <2> QED  BY <2>2, <2>3, <2>4 DEF a
<1>4. n + 1 - 1 = n /\ Append(q, part) # <<>>  BY <1>1, <1>2
<1> QED  BY <1>1, <1>2, <1>3, <1>4

\* A name that is spelled exactly like a path leads to it and nowhere else.
LEMMA ResolvedExact ==
  ASSUME NEW name \in Seq(Components), NEW f, NEW g, Trail(name, f, g)
  PROVE  \A i \in 0 .. Len(name) : g[i] \in Places => f[i] = {g[i]}
<1>. DEFINE S == {i \in 0 .. Len(name) : g[i] \in Places => f[i] = {g[i]}}
<1>1. PICK n \in Nat : n = Len(name)  OBVIOUS
<1>2. /\ f[0] = {<<>>} /\ \A i \in 1 .. n : f[i] = Onward(f[i - 1], name[i])
      /\ g \in [0 .. n -> Seq(Components)] /\ g[0] = <<>>
      /\ \A i \in 1 .. n : g[i] = Longer(g[i - 1], name[i])
  BY <1>1 DEF Trail
<1>3. 0 \in S  BY <1>1, <1>2
<1>4. ASSUME NEW i \in 1 .. n, i - 1 \in S PROVE i \in S
  <2>1. i \in 0 .. n /\ i - 1 \in 0 .. n  BY <1>1
  <2> SUFFICES ASSUME g[i] \in Places PROVE f[i] = {g[i]}
    BY <1>1, <2>1
  <2>2. f[i] = Onward(f[i - 1], name[i]) /\ g[i] = Longer(g[i - 1], name[i])
    BY <1>2, ZenonT(30)
  <2>3. g[i - 1] \in Places => f[i - 1] = {g[i - 1]}  BY <1>4
  <2>4. CASE Skipped(name[i])
    BY <2>2, <2>3, <2>4 DEF Onward, Longer
  <2>5. CASE ~ Skipped(name[i])
    <3>0. name[i] \in Components /\ g[i - 1] \in Seq(Components)
      BY <1>1, <1>2, <2>1
    <3>1. PICK part \in Components, spelled \in Seq(Components) :
            part = name[i] /\ spelled = g[i - 1]
      BY <3>0, Zenon
    <3>2. g[i] = Append(spelled, part)  BY <2>2, <2>5, <3>1 DEF Longer
    <3>3. g[i] \in Tree  BY <3>2, Shorter, PlacesAre, Zenon
    <3>4. spelled \in Places
      <4>1. g[i] # <<>> /\ SubSeq(g[i], 1, Len(g[i]) - 1) = spelled
        BY <3>2, Shorter, Zenon
      <4> QED  BY <4>1, PlacesAre, Zenon
    <3>5. f[i - 1] = {spelled}  BY <2>3, <3>1, <3>4
    <3>6. Below(spelled, part) = {g[i]}  BY <3>2, <3>3 DEF Below
    <3>7. f[i] = UNION {Below(folder, part) : folder \in {spelled}}
      BY <2>2, <2>5, <3>1, <3>5 DEF Onward
    <3> QED  BY <3>6, <3>7
  <2> QED  BY <2>4, <2>5
<1>5. \A i \in 0 .. n : i \in S
  <2> HIDE DEF S
  <2> QED  BY <1>3, <1>4, UpTo
<1> QED  BY <1>1, <1>5

\* The beginnings of a path exist.
LEMMA BeginningsExist ==
  ASSUME NEW p \in Places
  PROVE  \A i \in 0 .. Len(p) : SubSeq(p, 1, i) \in Places
<1>0. p \in Seq(Components)  BY PlacesAre, Zenon
<1>1. PICK n \in Nat : n = Len(p)  BY <1>0
<1>. DEFINE S == {k \in 0 .. n : SubSeq(p, 1, n - k) \in Places}
<1>2. 0 \in S
  <2>1. SubSeq(p, 1, n) = p  BY <1>0, <1>1
  <2>2. n - 0 = n /\ 0 \in 0 .. n  BY <1>1
  <2>3. SubSeq(p, 1, n - 0) \in Places  BY <2>1, <2>2, Zenon
  <2> QED  BY <2>2, <2>3, Zenon
<1>3. ASSUME NEW k \in 1 .. n, k - 1 \in S PROVE k \in S
  <2>1. PICK m \in 0 .. n : m = n - k /\ m + 1 \in 1 .. n  BY <1>1
  <2>2. n - (k - 1) = m + 1  BY <1>1, <2>1
  <2>3. PICK q \in Places : q = SubSeq(p, 1, m + 1)  BY <1>3, <2>2
  <2>4. q \in Seq(Components) /\ Len(q) = m + 1
        /\ \A i \in 1 .. m + 1 : q[i] = p[i]
    <3>1. q \in Seq(Components)  BY <2>3, PlacesAre, Zenon
    <3> QED  BY <1>0, <1>1, <2>1, <2>3, <3>1
  <2>5. q # <<>>
    <3>1. Len(q) # 0  BY <2>1, <2>4
    <3> QED  BY <3>1
  <2>6. SubSeq(q, 1, m + 1 - 1) \in Places
    <3>1. SubSeq(q, 1, Len(q) - 1) \in Places  BY <2>5, PlacesAre, Zenon
    <3>2. Len(q) - 1 = m + 1 - 1  BY <2>4
    <3> QED  BY <3>1, <3>2, Zenon
  <2>7. SubSeq(q, 1, m) = SubSeq(p, 1, m)
    <3>1. SubSeq(q, 1, m) = [i \in 1 .. m |-> q[i]]  BY <2>1, <2>4
    <3>2. SubSeq(p, 1, m) = [i \in 1 .. m |-> p[i]]  BY <1>0, <1>1, <2>1
    <3>3. \A i \in 1 .. m : i \in 1 .. m + 1  BY <2>1
    <3> QED  BY <2>4, <3>1, <3>2, <3>3
  <2>8. m + 1 - 1 = m /\ k \in 0 .. n  BY <1>1, <2>1
  <2>9. SubSeq(p, 1, n - k) \in Places  BY <2>1, <2>6, <2>7, <2>8, Zenon
  <2> QED  BY <2>8, <2>9, Zenon
<1>4. \A k \in 0 .. n : k \in S
  <2> HIDE DEF S
  <2> QED  BY <1>1, <1>2, <1>3, UpTo
<1>5. ASSUME NEW i \in 0 .. n PROVE SubSeq(p, 1, i) \in Places
  <2>1. n - i \in 0 .. n /\ n - (n - i) = i  BY <1>1
  <2> QED  BY <1>4, <2>1
<1> QED  BY <1>1, <1>5

\* The spelling only grows.
LEMMA SpellingGrows ==
  ASSUME NEW name \in Seq(Components), NEW f, NEW g, Trail(name, f, g),
         NEW i \in 0 .. Len(name)
  PROVE  /\ Len(g[i]) <= Len(g[Len(name)])
         /\ \A j \in 1 .. Len(g[i]) : g[Len(name)][j] = g[i][j]
<1>1. PICK n \in Nat : n = Len(name)  OBVIOUS
<1>2. /\ g \in [0 .. n -> Seq(Components)]
      /\ \A k \in 1 .. n : g[k] = Longer(g[k - 1], name[k])
  BY <1>1 DEF Trail
<1>3. PICK s \in Seq(Components) : s = g[i]  BY <1>1, <1>2
<1>. DEFINE Extends(k) == Len(s) <= Len(g[k]) /\ \A j \in 1 .. Len(s) : g[k][j] = s[j]
            S == {k \in 0 .. n : k >= i => Extends(k)}
<1>4. Extends(i)  BY <1>3
<1>5. 0 \in S
  <2>1. 0 >= i => i = 0  BY <1>1
  <2> HIDE DEF Extends
  <2> QED  BY <1>1, <1>4, <2>1
<1>6. ASSUME NEW k \in 1 .. n, k - 1 \in S PROVE k \in S
  <2>0. k \in 0 .. n /\ k - 1 \in 0 .. n  BY <1>1
  <2>1. CASE k < i  BY <1>1, <2>0, <2>1
  <2>2. CASE k = i
    <3> HIDE DEF Extends
    <3> QED  BY <1>4, <2>0, <2>2
  <2>3. CASE k > i
    <3>1. k - 1 >= i  BY <1>1, <2>3
    <3>2. Extends(k - 1)
      <4> HIDE DEF Extends
      <4> QED  BY <1>6, <3>1
    <3>3. PICK part \in Components, t \in Seq(Components) :
            part = name[k] /\ t = g[k - 1]
      BY <1>1, <1>2, <2>0
    <3>4. g[k] = t \/ g[k] = Append(t, part)  BY <1>2, <3>3 DEF Longer
    <3>5. Len(s) <= Len(t) /\ \A j \in 1 .. Len(s) : t[j] = s[j]  BY <3>2, <3>3
    <3>6. Extends(k)
      <4>1. CASE g[k] = t  BY <3>5, <4>1
      <4>2. CASE g[k] = Append(t, part)
        <5>1. /\ Len(Append(t, part)) = Len(t) + 1
              /\ \A j \in 1 .. Len(t) : Append(t, part)[j] = t[j]
          BY <3>3
        <5>2. Len(s) \in Nat /\ Len(t) \in Nat  BY <1>3, <3>3
        <5>3. \A j \in 1 .. Len(s) : j \in 1 .. Len(t)  BY <3>5, <5>2
        <5> QED  BY <3>5, <4>2, <5>1, <5>2, <5>3
      <4> QED  BY <3>4, <4>1, <4>2
    <3> HIDE DEF Extends
    <3> QED  BY <2>0, <3>6
  <2> QED  BY <1>1, <2>1, <2>2, <2>3
<1>7. \A k \in 0 .. n : k \in S
  <2> HIDE DEF S
  <2> QED  BY <1>1, <1>5, <1>6, UpTo
<1>8. n \in 0 .. n /\ n >= i  BY <1>1
<1>9. Extends(n)
  <2> HIDE DEF Extends
  <2> QED  BY <1>7, <1>8
<1> QED  BY <1>1, <1>3, <1>9
LEMMA SpellsAlike ==
  ASSUME NEW name, NEW p
  PROVE  Spells(name, p) <=> Alike(p, Parts(name))
BY DEF Spells, Alike

\* A path that is the only one spelled like a name, folder by folder, is where
\* the name leads.
LEMMA ResolvedFound ==
  ASSUME NEW name \in Seq(Components), NEW f, NEW g, Trail(name, f, g),
         Unambiguous(name), NEW p \in Places, Spells(name, p)
  PROVE  Resolve(name) = {p}
<1>1. PICK n \in Nat : n = Len(name)  OBVIOUS
<1>2. /\ f[0] = {<<>>} /\ \A i \in 1 .. n : f[i] = Onward(f[i - 1], name[i])
      /\ g \in [0 .. n -> Seq(Components)] /\ g[0] = <<>>
      /\ \A i \in 1 .. n : g[i] = Longer(g[i - 1], name[i])
      /\ Resolve(name) = f[n] /\ \A i \in 0 .. n : Parts(SubSeq(name, 1, i)) = g[i]
  BY <1>1 DEF Trail
<1>3. p \in Seq(Components)  BY PlacesAre, Zenon
<1>4. Alike(p, g[n])
  BY <1>1, PartsOfWhole, SpellsAlike
<1>. DEFINE On(i) == SubSeq(p, 1, Len(g[i]))
\* The beginnings of p are what the beginnings of the name spell.
<1>5. ASSUME NEW i \in 0 .. n
      PROVE  /\ Len(g[i]) \in 0 .. Len(p) /\ On(i) \in Seq(Components)
             /\ Len(On(i)) = Len(g[i])
             /\ \A j \in 1 .. Len(g[i]) : On(i)[j] = p[j]
             /\ On(i) \in Places /\ Alike(On(i), g[i])
  <2>1. PICK k \in Nat : k = Len(g[i])
    <3>1. g[i] \in Seq(Components)  BY <1>2
    <3> QED  BY <3>1
  <2>2. k <= Len(g[n]) /\ \A j \in 1 .. k : g[n][j] = g[i][j]
    BY <1>1, <2>1, SpellingGrows
  <2>3. PICK m \in Nat : m = Len(p)  BY <1>3
  <2>4. k <= m /\ \A j \in 1 .. m : Like(p[j], g[n][j])
    BY <1>4, <2>2, <2>3 DEF Alike
  <2>5. k \in 0 .. m /\ \A j \in 1 .. k : j \in 1 .. m  BY <2>4
  <2>6. PICK q : q = SubSeq(p, 1, k)  OBVIOUS
  <2>7. q \in Seq(Components) /\ Len(q) = k /\ \A j \in 1 .. k : q[j] = p[j]
    <3>1. CASE k = 0  BY <2>6, <3>1
    <3>2. CASE k # 0
      <4>1. k \in 1 .. Len(p)  BY <2>3, <2>5, <3>2
      <4> QED  BY <1>3, <2>6, <4>1
    <3> QED  BY <3>1, <3>2
  <2>8. q \in Places  BY <2>3, <2>5, <2>6, BeginningsExist, Zenon
  <2>9. \A j \in 1 .. k : Like(q[j], g[i][j])  BY <2>2, <2>4, <2>5, <2>7
  <2>10. Alike(q, g[i])  BY <2>1, <2>7, <2>9 DEF Alike
  <2> QED  BY <2>1, <2>3, <2>5, <2>6, <2>7, <2>8, <2>10
\* Nothing else is spelled like a beginning of the name.
<1>6. ASSUME NEW i \in 0 .. n, NEW q \in Places, Alike(q, g[i])
      PROVE  q = On(i)
  <2>1. On(i) \in Places /\ Alike(On(i), g[i])  BY <1>5
  <2> HIDE DEF On
  <2>2. Spells(SubSeq(name, 1, i), q) /\ Spells(SubSeq(name, 1, i), On(i))
    BY <1>2, <1>6, <2>1, SpellsAlike
  <2> QED  BY <1>1, <1>6, <2>1, <2>2 DEF Unambiguous
<1>. DEFINE S == {i \in 0 .. n : f[i] = {On(i)}}
<1>7. 0 \in S
  <2>1. On(0) = <<>>
    <3>1. Len(g[0]) = 0  BY <1>2
    <3>2. SubSeq(p, 1, 0) = <<>>  BY <1>3
    <3> QED  BY <3>1, <3>2
  <2>2. 0 \in 0 .. n  BY <1>1
  <2> HIDE DEF On
  <2> QED  BY <1>2, <2>1, <2>2
<1>8. ASSUME NEW i \in 1 .. n, i - 1 \in S PROVE i \in S
  <2>1. i \in 0 .. n /\ i - 1 \in 0 .. n  BY <1>1
  <2>2. f[i - 1] = {On(i - 1)}  BY <1>8
  <2>3. /\ On(i) \in Places /\ Alike(On(i), g[i]) /\ On(i) \in Seq(Components)
        /\ On(i - 1) \in Seq(Components) /\ Len(On(i - 1)) = Len(g[i - 1])
        /\ Alike(On(i - 1), g[i - 1]) /\ Len(On(i)) = Len(g[i])
        /\ \A j \in 1 .. Len(g[i]) : On(i)[j] = p[j]
        /\ \A j \in 1 .. Len(g[i - 1]) : On(i - 1)[j] = p[j]
    BY <1>5, <2>1
  <2>4. g[i] = Longer(g[i - 1], name[i]) /\ f[i] = Onward(f[i - 1], name[i])
    BY <1>2
  <2>5. CASE Skipped(name[i])
    <3>1. g[i] = g[i - 1] /\ f[i] = f[i - 1]  BY <2>4, <2>5 DEF Longer, Onward
    <3>2. f[i] = {On(i)}  BY <2>2, <3>1
    <3> QED  BY <2>1, <3>2
  <2>6. CASE ~ Skipped(name[i])
    <3>0. name[i] \in Components /\ g[i - 1] \in Seq(Components)
      BY <1>1, <1>2, <2>1
    <3>1. PICK part \in Components, spelled \in Seq(Components) :
            part = name[i] /\ spelled = g[i - 1]
      BY <3>0, Zenon
    <3>2. PICK k \in Nat : k = Len(spelled)  OBVIOUS
    <3>3. g[i] = Append(spelled, part) /\ Len(g[i]) = k + 1 /\ g[i][k + 1] = part
          /\ \A j \in 1 .. k : g[i][j] = spelled[j]
      BY <2>4, <2>6, <3>1, <3>2 DEF Longer
    <3>4. PICK r \in Seq(Components), q \in Seq(Components) : r = On(i - 1) /\ q = On(i)
      BY <2>3, Zenon
    <3>5. /\ Len(r) = k /\ Len(q) = k + 1 /\ q \in Places /\ Alike(q, g[i])
          /\ Alike(r, spelled) /\ \A j \in 1 .. k : q[j] = r[j]
      <4>1. \A j \in 1 .. k : j \in 1 .. k + 1  BY <3>2
      <4> HIDE DEF On
      <4> QED  BY <2>3, <3>1, <3>2, <3>3, <3>4, <4>1
    <3>6. SubSeq(q, 1, Len(q) - 1) = r
      <4>1. SubSeq(q, 1, k) = [j \in 1 .. k |-> q[j]]  BY <3>2, <3>5
      <4>2. r = [j \in 1 .. k |-> r[j]]  BY <3>4, <3>5
      <4>3. Len(q) - 1 = k  BY <3>2, <3>5
      <4> QED  BY <3>5, <4>1, <4>2, <4>3
    <3>7. q \in Entries(r) /\ Like(q[Len(q)], part)
      <4>1. q # <<>>  BY <3>2, <3>5
      <4>2. q \in Tree  BY <3>5, <4>1, PlacesAre, Zenon
      <4>3. k + 1 \in 1 .. k + 1  BY <3>2
      <4>4. Like(q[k + 1], part)  BY <3>3, <3>5, <4>3 DEF Alike
      <4> QED  BY <3>5, <3>6, <4>1, <4>2, <4>4 DEF Entries
    <3>8. ASSUME NEW x \in Below(r, part), x \in Places PROVE x = q
      <4>1. /\ x \in Seq(Components) /\ Len(x) = k + 1
            /\ \A j \in 1 .. k : x[j] = r[j]
            /\ Like(x[k + 1], part)
        BY <3>5, <3>8, BelowAlike
      <4>2. \A j \in 1 .. k : Like(r[j], spelled[j])  BY <3>5 DEF Alike
      <4>3. \A j \in 1 .. k + 1 : j \in 1 .. k \/ j = k + 1  BY <3>2
      <4>4. \A j \in 1 .. k + 1 : Like(x[j], g[i][j])
        BY <3>3, <4>1, <4>2, <4>3
      <4>5. Alike(x, g[i])  BY <3>3, <4>1, <4>4 DEF Alike
      <4> HIDE DEF On
      <4> QED  BY <1>6, <2>1, <3>4, <3>8, <4>5
    <3>9. Below(r, part) = {q}
      <4>1. CASE Append(r, part) \in Tree
        <5>1. Below(r, part) = {Append(r, part)}  BY <4>1 DEF Below
        <5>2. Append(r, part) \in Places  BY <4>1 DEF Places
        <5> QED  BY <3>8, <5>1, <5>2
      <4>2. CASE Append(r, part) \notin Tree
        <5>1. Below(r, part) = {x \in Entries(r) : Like(x[Len(x)], part)}
          BY <3>7, <4>2 DEF Below
        <5>2. Entries(r) \subseteq Places  BY DEF Entries, Places
        <5> QED  BY <3>7, <3>8, <5>1, <5>2
      <4> QED  BY <4>1, <4>2
    <3>10. f[i] = UNION {Below(folder, part) : folder \in {r}}
      BY <2>2, <2>4, <2>6, <3>1, <3>4 DEF Onward
    <3>11. f[i] = {q}  BY <3>9, <3>10
    <3> QED  BY <2>1, <3>4, <3>11
  <2> QED  BY <2>5, <2>6
<1>9. \A i \in 0 .. n : i \in S
  <2> HIDE DEF S
  <2> QED  BY <1>1, <1>7, <1>8, UpTo
<1>10. On(n) = p
  <2>1. Len(g[n]) = Len(p)  BY <1>4 DEF Alike
  <2>2. SubSeq(p, 1, Len(p)) = p  BY <1>3
  <2> QED  BY <2>1, <2>2
<1>11. n \in 0 .. n  BY <1>1
<1> HIDE DEF On
<1> QED  BY <1>2, <1>9, <1>10, <1>11
LEMMA NamesAre == Names \subseteq Seq(Components)
BY DiskAssumption DEF Components

LEMMA OpenedSpells ==
  ASSUME NEW name \in Names, NEW path \in TranslatePath(name)
  PROVE  Spells(name, path) /\ (Parts(name) \in Places => path = Parts(name))
<1>1. PICK n \in Nat : n = Len(name) /\ name \in Seq(Components)  BY NamesAre
<1>2. PICK f, g : Trail(name, f, g)  BY <1>1, TrailExists
<1>3. path \in f[n] /\ Parts(name) = g[n] /\ n \in 0 .. n
  <2>1. Parts(name) = g[n]  BY <1>1, <1>2, PartsOfWhole
  <2>2. Resolve(name) = f[n]  BY <1>1, <1>2 DEF Trail
  <2>3. n \in 0 .. n  BY <1>1
  <2> QED  BY <2>1, <2>2, <2>3, Zenon DEF TranslatePath
<1>4. Alike(path, g[n])  BY <1>1, <1>2, <1>3, ResolvedAlike
<1>5. g[n] \in Places => f[n] = {g[n]}  BY <1>1, <1>2, <1>3, ResolvedExact
<1> QED  BY <1>3, <1>4, <1>5, SpellsAlike

LEMMA MissedIsNotThere ==
  ASSUME NEW name \in Names, TranslatePath(name) \ Places # {}
  PROVE  /\ Parts(name) \notin Places
         /\ Unambiguous(name) => \A p \in Places : ~ Spells(name, p)
<1>1. PICK n \in Nat : n = Len(name) /\ name \in Seq(Components)  BY NamesAre
<1>2. PICK f, g : Trail(name, f, g)  BY <1>1, TrailExists
<1>3. TranslatePath(name) = f[n] /\ Parts(name) = g[n] /\ n \in 0 .. n
  <2>1. Parts(name) = g[n]  BY <1>1, <1>2, PartsOfWhole
  <2>2. Resolve(name) = f[n]  BY <1>1, <1>2 DEF Trail
  <2>3. n \in 0 .. n  BY <1>1
  <2> QED  BY <2>1, <2>2, <2>3, Zenon DEF TranslatePath
<1>4. g[n] \in Places => f[n] = {g[n]}  BY <1>1, <1>2, <1>3, ResolvedExact
<1>5. ASSUME Unambiguous(name), NEW p \in Places, Spells(name, p) PROVE FALSE
  BY <1>1, <1>2, <1>5, ResolvedFound DEF TranslatePath
<1> QED  BY <1>3, <1>4, <1>5

\* A stream keeps its name and path until it is closed.
Rightly(s) ==
  stream[s].state = "open" =>
    /\ Spells(stream[s].name, stream[s].path)
    /\ Parts(stream[s].name) \in Places => stream[s].path = Parts(stream[s].name)
Truly ==
  answer.did.status = "not found" =>
    LET name == answer.did.name
    IN \/ name = Empty
       \/ /\ Parts(name) \notin Places
          /\ Unambiguous(name) => \A p \in Places : ~ Spells(name, p)

LEMMA NamesAreBoth == NamesResolve <=> (\A s \in Streams : Rightly(s)) /\ Truly
BY DEF NamesResolve, Rightly, Truly

LEMMA RightlyStep ==
  ASSUME TypeInv, NEW t \in Threads, StepOf(t), NEW s \in Streams, Rightly(s)
  PROVE  Rightly(s)'
<1>1. stream \in [Streams -> StreamRecords]  BY MidType
<1>2. ASSUME stream'[s].state = "open" => stream[s].state = "open",
             stream'[s].name = stream[s].name, stream'[s].path = stream[s].path
      PROVE  Rightly(s)'
  BY <1>2 DEF Rightly
<1>3. CASE UNCHANGED stream  BY <1>2, <1>3
<1>4. ASSUME NEW pos, MovesTo(t, pos) PROVE Rightly(s)'
  <2>. DEFINE k == mid[t].stream
  <2>1. stream' = [stream EXCEPT ![k].pos = pos]  BY <1>4 DEF MovesTo
  <2> HIDE DEF k
  <2>2. stream'[s] = IF s = k THEN [stream[s] EXCEPT !.pos = pos] ELSE stream[s]
    BY <1>1, <2>1
  <2>3. stream[s] \in StreamRecords  BY <1>1
  <2> QED  BY <1>2, <2>2, <2>3 DEF StreamRecords
<1>5. ASSUME NEW h \in Handles, NtClose(t, h) PROVE Rightly(s)'
  <2>. DEFINE k == files[h]
  <2>1. stream' = [stream EXCEPT ![k].state = "closed"]  BY <1>5 DEF NtClose
  <2> HIDE DEF k
  <2>2. stream'[s] = IF s = k THEN [stream[s] EXCEPT !.state = "closed"] ELSE stream[s]
    BY <1>1, <2>1
  <2>3. stream[s] \in StreamRecords  BY <1>1
  <2> QED  BY <1>2, <2>2, <2>3 DEF StreamRecords
<1>6. CASE Opens(t)
  <2>1. PICK name \in Names : \E path \in TranslatePath(name) :
          stream' = [stream EXCEPT ![opens + 1] =
            [state |-> "open", name |-> name, path |-> path, pos |-> 0]]
    BY <1>6, Zenon DEF Opens
  <2>0. PICK path \in TranslatePath(name) :
          stream' = [stream EXCEPT ![opens + 1] =
            [state |-> "open", name |-> name, path |-> path, pos |-> 0]]
    BY <2>1
  <2>2. CASE s # opens + 1  BY <1>1, <1>2, <2>0, <2>2
  <2>3. CASE s = opens + 1
    <3>1. stream'[s] = [state |-> "open", name |-> name, path |-> path, pos |-> 0]
      BY <1>1, <2>0, <2>3
    <3>2. stream'[s].name = name /\ stream'[s].path = path  BY <3>1
    <3> QED  BY <3>2, OpenedSpells DEF Rightly
  <2> QED  BY <2>2, <2>3
<1>7. UNCHANGED stream \/ Opens(t) \/ (\E h \in Handles : NtClose(t, h))
        \/ \E pos : MovesTo(t, pos)
  BY DEF StepOf, Opens, Misses, Insert, NtReadFile, NtQueryInformationFile,
     NtSetInformationFile, Refuses, SeekFirst, Reads, TellAndSeekEnd,
     SeekBack, Seeks, Finds
<1> QED  BY <1>3, <1>4, <1>5, <1>6, <1>7

LEMMA TrulyStep ==
  ASSUME NEW t \in Threads, StepOf(t), Truly
  PROVE  Truly'
<1>1. CASE UNCHANGED answer  BY <1>1 DEF Truly
<1>2. CASE Misses(t)
  <2>1. PICK name \in Names : /\ name = Empty \/ TranslatePath(name) \ Places # {}
                              /\ answer' = [to |-> t, did |-> [status |-> "not found",
                                                               name |-> name]]
    BY <1>2 DEF Misses, Returns
  <2>2. answer'.did.name = name  BY <2>1
  <2>3. name = Empty \/ /\ Parts(name) \notin Places
                        /\ Unambiguous(name) => \A p \in Places : ~ Spells(name, p)
    BY <2>1, MissedIsNotThere
  <2> QED  BY <2>2, <2>3 DEF Truly
<1>3. ASSUME NEW what, Returns(t, what), what.status # "not found"
      PROVE  Truly'
  <2>1. answer'.did.status # "not found"  BY <1>3 DEF Returns
  <2> QED  BY <2>1 DEF Truly
<1>4. CASE Insert(t)
  <2>1. PICK h : Returns(t, [status |-> "success", handle |-> h])
    BY <1>4 DEF Insert
  <2>2. [status |-> "success", handle |-> h].status # "not found"  OBVIOUS
  <2> QED  BY <1>3, <2>1, <2>2, Zenon
<1>5. CASE \E h \in Handles : NtClose(t, h) \/ Refuses(t, h)
  <2>1. PICK status \in {"success", "invalid handle"} : Returns(t, [status |-> status])
    BY <1>5 DEF NtClose, Refuses
  <2>2. [status |-> status].status # "not found"  BY <2>1
  <2> QED  BY <1>3, <2>1, <2>2, Zenon
<1>6. CASE Reads(t)
  <2>a. PICK status \in {"success", "end of file"} : \E offset, count, file, from, n :
          Returns(t, [status |-> status, offset |-> offset, count |-> count,
                      file |-> file, from |-> from, n |-> n])
    BY <1>6 DEF Reads
  <2>1. PICK offset, count, file, from, n :
          Returns(t, [status |-> status, offset |-> offset, count |-> count,
                      file |-> file, from |-> from, n |-> n])
    BY <2>a
  <2>2. [status |-> status, offset |-> offset, count |-> count,
         file |-> file, from |-> from, n |-> n].status # "not found"
    BY <2>1
  <2> QED  BY <1>3, <2>1, <2>2, Zenon
<1>7. CASE SeekBack(t)
  <2>1. PICK pos, size :
          Returns(t, [status |-> "success", pos |-> pos, size |-> size])
    BY <1>7 DEF SeekBack
  <2>2. [status |-> "success", pos |-> pos, size |-> size].status # "not found"
    OBVIOUS
  <2> QED  BY <1>3, <2>1, <2>2, Zenon
<1>8. CASE Seeks(t)
  <2>1. PICK offset : Returns(t, [status |-> "success", offset |-> offset])
    BY <1>8 DEF Seeks
  <2>2. [status |-> "success", offset |-> offset].status # "not found"  OBVIOUS
  <2> QED  BY <1>3, <2>1, <2>2, Zenon
<1> QED
  BY <1>1, <1>2, <1>4, <1>5, <1>6, <1>7, <1>8 DEF StepOf, Opens, NtReadFile,
     NtQueryInformationFile, NtSetInformationFile, Finds, SeekFirst, TellAndSeekEnd

\* A name opens the file that is spelled exactly like it, else one spelled like
\* it but for case, and is not found only if there is none: for every folder
\* tree, and every name, however many components it has.
THEOREM NamesCorrect == Spec => []NamesResolve
<1>1. Init => TypeInv /\ NamesResolve
  <2>1. ASSUME Init PROVE NamesResolve
    <3>1. \A s \in Streams : stream[s].state = "unopened"
      BY <2>1 DEF Init, Unopened
    <3>2. answer.did.status = "none"  BY <2>1 DEF Init
    <3> QED  BY <3>1, <3>2 DEF NamesResolve
  <2> QED  BY <2>1, TypeInit
<1>2. TypeInv /\ NamesResolve /\ [Next]_vars => TypeInv' /\ NamesResolve'
  <2>1. ASSUME TypeInv, NamesResolve, NEW t \in Threads, StepOf(t)
        PROVE  NamesResolve'
    <3>1. \A s \in Streams : Rightly(s)'  BY <2>1, NamesAreBoth, RightlyStep
    <3>2. Truly'  BY <2>1, NamesAreBoth, TrulyStep
    <3> QED  BY <3>1, <3>2 DEF NamesResolve, Rightly, Truly
  <2>2. CASE UNCHANGED vars
    BY <2>2, TypeStep DEF vars, NamesResolve
  <2> QED  BY <2>1, <2>2, TypeStep, StepBySome
<1> QED  BY <1>1, <1>2, PTL DEF Spec
==============================================================================
