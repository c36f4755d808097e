--------------------------- MODULE TestMode_proofs ---------------------------
(***************************************************************************)
(* Proofs about TestMode, for every bound and every kind of fault.         *)
(***************************************************************************)
EXTENDS TestMode, MainLoop_proofs

\* Untouched is not inductive: what keeps the policy is that whoever is about
\* to change it has seen a password.
Careful == Untouched /\ Gated

-----------------------------------------------------------------------------

LEMMA InitCareful == Init => Careful
BY DEF Init, Careful, Untouched, Gated

LEMMA TickCareful ==
  ASSUME Careful, Tick, UNCHANGED <<main, applied>>
  PROVE  Careful'
<1> USE DEF Careful, Untouched, Gated
<1>1. CASE TickBegins
  BY <1>1 DEF TickBegins, storeVars, fwVars
<1>2. CASE ListFirewall
  BY <1>2 DEF ListFirewall, TickEnds, storeVars
<1>3. CASE RepairDelete \/ RepairAdd \/ RepairEnds \/ SweepDelete \/ SweepEnds
  BY <1>3 DEF RepairDelete, RepairAdd, RepairEnds, SweepDelete, SweepEnds, storeVars
<1>4. CASE CheckPolicy
  BY <1>4 DEF CheckPolicy, TickEnds, storeVars
<1>5. CASE SetPolicy
  BY <1>5 DEF SetPolicy, TickEnds, storeVars
<1>6. CASE RepairKeys
  BY <1>6 DEF RepairKeys, TickEnds, storeVars
<1>7. QED BY <1>1, <1>2, <1>3, <1>4, <1>5, <1>6 DEF Tick

LEMMA GoroutineCareful ==
  ASSUME Careful, UNCHANGED <<main, applied>>,
         LoopStep \/ ServerFails \/ RecRuns \/ RecReturns \/ Setup
  PROVE  Careful'
<1> USE DEF Careful, Untouched, Gated
<1>1. CASE LoopStep \/ ServerFails \/ RecReturns
  BY <1>1 DEF LoopStep, LoopStarts, Shutdown, LoopEnds, ServerFails, RecReturns,
              storeVars, fwVars, recVars
<1>2. CASE RecRuns
  <2>1. CASE Tick
    BY <2>1, TickCareful
  <2>2. CASE NetshStep(Rec) /\ UNCHANGED <<storeVars, recVars>>
    BY <2>2 DEF NetshStep, storeVars, recVars
  <2>3. QED BY <1>2, <2>1, <2>2 DEF RecRuns
<1>3. CASE Setup
  BY <1>3 DEF Setup, SetPassword, fwVars, recVars
<1>4. QED BY <1>1, <1>2, <1>3

LEMMA MainCareful ==
  ASSUME Careful, MainStep
  PROVE  Careful'
<1> USE DEF Careful, Untouched, Gated
<1>1. CASE AddHelpers
  BY <1>1 DEF AddHelpers, storeVars, recVars
<1>2. CASE OpenAndSpawn
  BY <1>2 DEF OpenAndSpawn, storeVars, recVars
<1>3. CASE WaitForPassword
  BY <1>3 DEF WaitForPassword, ReturnTo, storeVars, fwVars, recVars
<1>4. CASE ApplyDefaultDeny
  BY <1>4 DEF ApplyDefaultDeny, ReturnTo, storeVars, recVars
<1>5. CASE Leave
  BY <1>5 DEF Leave, ReturnTo, storeVars, fwVars, recVars
<1>6. CASE RevertPolicy
  BY <1>6 DEF RevertPolicy, storeVars, recVars
<1>7. CASE DeleteHelpers
  BY <1>7 DEF DeleteHelpers, storeVars, recVars
<1>8. CASE Exit
  BY <1>8 DEF Exit, ProcessGone, TickEnds, storeVars
<1>9. CASE EnableLogging \/ DisableLogging
  BY <1>9 DEF EnableLogging, DisableLogging, storeVars, recVars
<1>10. QED BY <1>1, <1>2, <1>3, <1>4, <1>5, <1>6, <1>7, <1>8, <1>9 DEF MainStep

LEMMA NextCareful == Careful /\ [Next]_vars => Careful'
<1> SUFFICES ASSUME Careful, [Next]_vars PROVE Careful'
  OBVIOUS
<1> USE DEF Careful, Untouched, Gated
<1>1. CASE MainStep
  BY <1>1, MainCareful
<1>2. CASE \/ Goroutine(LoopStep) \/ Goroutine(ServerFails)
           \/ Goroutine(RecRuns) \/ Goroutine(RecReturns) \/ Goroutine(Setup)
  BY <1>2, GoroutineCareful DEF Goroutine, sessionVars
<1>3. CASE CtrlC
  BY <1>3 DEF CtrlC, storeVars, fwVars, recVars
<1>4. CASE Killed
  BY <1>4 DEF Killed, ProcessGone, TickEnds, storeVars
<1>5. CASE Done \/ UNCHANGED vars
  BY <1>5 DEF Done, vars, storeVars, fwVars, recVars, sessionVars
<1>6. CASE LogStep
  BY <1>6 DEF LogStep, storeVars, fwVars, recVars, sessionVars
<1>7. QED BY <1>1, <1>2, <1>3, <1>4, <1>5, <1>6 DEF Next

\* A test session never touches the firewall's policy or the browsers of a
\* machine before a password has been saved.
THEOREM UntouchedHolds == Spec => []Untouched
<1>1. Careful => Untouched
  BY DEF Careful
<1>2. QED BY <1>1, InitCareful, NextCareful, PTL DEF Spec

-----------------------------------------------------------------------------
(* The console                                                             *)

\* A line has one end in the file, and the next one comes behind it.
FileOrder ==
  \A k \in DOMAIN file :
    /\ file[k].line <= lines
    /\ file[k].line > 0 \/ (k = 1 /\ file[k].end)
    /\ k = Len(file) /\ ~file[k].end => file[k].line = lines
    /\ k > 1 /\ file[k].head => file[k - 1].end
    /\ \A j \in DOMAIN file : j < k /\ file[j].end => file[j].line < file[k].line

\* What is shown has been read to its end ...
ShownWasRead ==
  \A i \in DOMAIN shown :
    shown[i] > 0 /\ \E k \in 1 .. pos : file[k].end /\ file[k].line = shown[i]

\* ... and what has been read whole is shown.
ReadIsShown ==
  tail = "streaming" =>
    \A k \in from + 1 .. pos :
      file[k].head /\ file[k].end => \E i \in DOMAIN shown : shown[i] = file[k].line

Console == /\ LogTypeOK /\ FileOrder /\ ShownWasRead /\ ReadIsShown /\ StreamOrder
           /\ tail = "streaming" => pos > 0
           /\ tail \in {"none", "opening"} => shown = << >> /\ pos = 0 /\ from = 0

LEMMA ConsoleInit == LogInit => Console
<1> SUFFICES ASSUME LogInit PROVE Console
  OBVIOUS
<1> USE MaxLinesAssumption DEF LogInit, Whole
<1> DEFINE w == Whole(0)
<1>1. w \in Piece /\ w.line = 0 /\ w.end
  BY DEF Piece
<1> HIDE DEF w
<1>2. ASSUME file = << >> PROVE LogTypeOK /\ FileOrder
  BY <1>2 DEF LogTypeOK, FileOrder
<1>3. ASSUME file = <<w>> PROVE LogTypeOK /\ FileOrder
  <2>1. file \in Seq(Piece) /\ Len(file) = 1 /\ file[1] = w
    BY <1>1, <1>3
  <2> QED
    BY <1>1, <2>1 DEF LogTypeOK, FileOrder
<1>4. LogTypeOK /\ FileOrder
  BY <1>2, <1>3 DEF w
<1> QED
  BY <1>4 DEF Console, ShownWasRead, ReadIsShown, StreamOrder

LEMMA AppendPiece ==
  ASSUME NEW S, NEW s \in Seq(S), NEW e \in S
  PROVE  LET t == Append(s, e)
         IN  /\ t \in Seq(S) /\ Len(s) \in Nat /\ Len(t) = Len(s) + 1
             /\ DOMAIN s = 1 .. Len(s) /\ DOMAIN t = 1 .. Len(s) + 1
             /\ \A i \in 1 .. Len(s) : t[i] = s[i]
             /\ t[Len(s) + 1] = e
OBVIOUS

\* The file grows at its end, where nothing has been read.
LEMMA WritesConsole == ASSUME Console, Writes PROVE Console'
<1> DEFINE n == Len(file)
<1> USE MaxLinesAssumption
<1>1. /\ LogTypeOK /\ FileOrder /\ n \in Nat /\ DOMAIN file = 1 .. n
      /\ \A k \in 1 .. n : file[k] \in Piece
      /\ UNCHANGED <<logging, tail, pos, from, shown>>
  BY DEF Console, LogTypeOK, Writes
<1>2. PICK e \in Piece :
        /\ file' = Append(file, e)
        /\ lines' \in 0 .. MaxLines /\ lines <= lines' /\ e.line = lines' /\ e.line > 0
        /\ e.head => lines' = lines + 1 /\ (n > 0 => file[n].end)
        /\ ~e.head => n > 0 /\ ~file[n].end /\ lines' = lines /\ e.end
  <2>1. CASE /\ ~InMidLine /\ lines < MaxLines /\ lines' = lines + 1
             /\ \E whole \in BOOLEAN :
                  file' = Append(file, [line |-> lines + 1, head |-> TRUE, end |-> whole])
    <3>1. PICK whole \in BOOLEAN :
            file' = Append(file, [line |-> lines + 1, head |-> TRUE, end |-> whole])
      BY <2>1
    <3> DEFINE e == [line |-> lines + 1, head |-> TRUE, end |-> whole]
    <3>2. e \in Piece /\ e.line = lines + 1 /\ e.head
      BY <1>1, <2>1 DEF LogTypeOK, Piece
    <3> HIDE DEF e
    <3>3. lines \in Nat /\ lines' \in 0 .. MaxLines /\ lines' > 0 /\ lines <= lines'
      BY <1>1, <2>1 DEF LogTypeOK
    <3>4. n > 0 => file[n].end
      BY <2>1 DEF InMidLine
    <3>5. file' = Append(file, e)
      BY <3>1 DEF e
    <3> QED
      BY <2>1, <3>2, <3>3, <3>4, <3>5
  <2>2. CASE /\ InMidLine /\ UNCHANGED lines
             /\ file' = Append(file, [line |-> lines, head |-> FALSE, end |-> TRUE])
    <3> DEFINE e == [line |-> lines, head |-> FALSE, end |-> TRUE]
    <3>1. e \in Piece /\ e.line = lines /\ ~e.head /\ e.end
      BY <1>1 DEF LogTypeOK, Piece
    <3>2. n > 0 /\ ~file[n].end
      BY <1>1, <2>2 DEF InMidLine
    <3>3. n \in DOMAIN file /\ file[n].line = lines
      BY <1>1, <3>2 DEF FileOrder
    <3>4. lines > 0
      BY <1>1, <3>2, <3>3 DEF FileOrder
    <3>5. lines' = lines /\ lines \in 0 .. MaxLines /\ lines <= lines
      BY <1>1, <2>2 DEF LogTypeOK
    <3>6. file' = Append(file, e)
      BY <2>2
    <3> HIDE DEF e
    <3> QED
      BY <3>1, <3>2, <3>4, <3>5, <3>6
  <2> QED
    BY <2>1, <2>2 DEF Writes
<1>3. /\ file' \in Seq(Piece) /\ Len(file') = n + 1 /\ DOMAIN file' = 1 .. n + 1
      /\ \A k \in 1 .. n : file'[k] = file[k]
      /\ file'[n + 1] = e
  BY <1>1, <1>2, AppendPiece DEF LogTypeOK
<1> HIDE DEF n
<1>4. LogTypeOK'
  BY <1>1, <1>2, <1>3 DEF LogTypeOK, n
<1>5. FileOrder'
  <2> SUFFICES ASSUME NEW k \in 1 .. n + 1
               PROVE  /\ file'[k].line <= lines'
                      /\ file'[k].line > 0 \/ (k = 1 /\ file'[k].end)
                      /\ k = n + 1 /\ ~file'[k].end => file'[k].line = lines'
                      /\ k > 1 /\ file'[k].head => file'[k - 1].end
                      /\ \A j \in 1 .. n + 1 : j < k /\ file'[j].end => file'[j].line < file'[k].line
    BY <1>3 DEF FileOrder
  <2>1. ASSUME NEW j \in 1 .. n PROVE file[j].line \in Nat /\ file[j].line <= lines
    <3>1. file[j] \in Piece /\ j \in DOMAIN file
      BY <1>1
    <3>2. file[j].line \in 0 .. MaxLines
      BY <3>1 DEF Piece
    <3>3. file[j].line <= lines
      BY <1>1, <3>1 DEF FileOrder
    <3> QED
      BY <3>2, <3>3
  <2>2. CASE k \in 1 .. n
    <3>1. /\ file[k].line <= lines
          /\ file[k].line > 0 \/ (k = 1 /\ file[k].end)
          /\ k > 1 /\ file[k].head => file[k - 1].end
          /\ \A j \in 1 .. n : j < k /\ file[j].end => file[j].line < file[k].line
      BY <1>1, <2>2 DEF FileOrder
    <3>2. file'[k] = file[k] /\ k # n + 1
      BY <1>1, <1>3, <2>2
    <3>3. file[k].line \in Nat /\ lines \in Nat /\ lines' \in Nat /\ lines <= lines'
      BY <1>1, <1>2, <2>1, <2>2 DEF LogTypeOK
    <3>4. file'[k].line <= lines'
      BY <3>1, <3>2, <3>3
    <3>5. k > 1 /\ file'[k].head => file'[k - 1].end
      <4> SUFFICES ASSUME k > 1, file[k].head PROVE file'[k - 1].end
        BY <3>2
      <4>1. k - 1 \in 1 .. n
        BY <1>1, <2>2
      <4> QED
        BY <1>3, <3>1, <4>1
    <3>6. ASSUME NEW j \in 1 .. n + 1, j < k, file'[j].end PROVE file'[j].line < file'[k].line
      <4>1. j \in 1 .. n
        BY <1>1, <2>2, <3>6
      <4>2. file'[j] = file[j]
        BY <1>3, <4>1
      <4> QED
        BY <3>1, <3>2, <3>6, <4>1, <4>2
    <3> QED
      BY <3>1, <3>2, <3>4, <3>5, <3>6
  <2>3. CASE k = n + 1
    <3>1. ASSUME NEW j \in 1 .. n, file[j].end PROVE file[j].line < e.line
      <4>1. CASE e.head
        BY <1>1, <1>2, <2>1, <4>1 DEF LogTypeOK
      <4>2. CASE ~e.head
        <5>1. n \in DOMAIN file /\ file[n].line = lines /\ j < n
          BY <1>1, <1>2, <3>1, <4>2 DEF FileOrder, n
        <5> QED
          BY <1>1, <1>2, <3>1, <4>2, <5>1 DEF FileOrder
      <4> QED
        BY <4>1, <4>2
    <3>2. file'[k] = e /\ e.line = lines' /\ e.line > 0 /\ lines' \in Nat
      BY <1>1, <1>2, <1>3, <2>3
    <3>3. k > 1 /\ file'[k].head => file'[k - 1].end
      <4> SUFFICES ASSUME k > 1, e.head PROVE file'[k - 1].end
        BY <3>2
      <4>1. n > 0 /\ n \in 1 .. n /\ k - 1 = n
        BY <1>1, <2>3
      <4> QED
        BY <1>2, <1>3, <4>1
    <3>4. ASSUME NEW j \in 1 .. n + 1, j < k, file'[j].end PROVE file'[j].line < file'[k].line
      <4>1. j \in 1 .. n
        BY <1>1, <2>3, <3>4
      <4>2. file'[j] = file[j]
        BY <1>3, <4>1
      <4> QED
        BY <3>1, <3>2, <3>4, <4>1, <4>2
    <3> QED
      BY <3>2, <3>3, <3>4
  <2> QED
    BY <1>1, <2>2, <2>3
<1>6. pos \in 0 .. n /\ from \in 0 .. n
  BY <1>1 DEF LogTypeOK, n
<1>7. ShownWasRead' /\ ReadIsShown'
  <2>1. ASSUME NEW k \in 1 .. pos PROVE file'[k] = file[k]
    BY <1>1, <1>3, <1>6
  <2>2. ASSUME NEW k \in from + 1 .. pos PROVE file'[k] = file[k]
    BY <1>1, <1>3, <1>6
  <2>3. ShownWasRead'
    BY <1>1, <2>1 DEF Console, ShownWasRead
  <2>4. ReadIsShown'
    BY <1>1, <2>2 DEF Console, ReadIsShown
  <2> QED
    BY <2>3, <2>4
<1> QED
  BY <1>1, <1>4, <1>5, <1>7 DEF Console, StreamOrder

\* Reading goes on behind what has been read, to the next end of a line.
LEMMA ReadsConsole == ASSUME Console, TailReads PROVE Console'
<1> DEFINE n == Len(file)
           m == Len(shown)
<1>1. /\ LogTypeOK /\ FileOrder /\ n \in Nat /\ DOMAIN file = 1 .. n
      /\ \A k \in 1 .. n : file[k] \in Piece
      /\ UNCHANGED <<logging, file, lines, tail, from>> /\ tail = "streaming"
      /\ pos \in 0 .. n /\ from \in 0 .. n /\ pos > 0
      /\ m \in Nat /\ DOMAIN shown = 1 .. m
  BY DEF Console, LogTypeOK, TailReads
<1>2. CASE ReadEOF
  <2>1. pos' = n /\ UNCHANGED shown /\ \A k \in pos + 1 .. n : ~file[k].end
    BY <1>2 DEF ReadEOF, NoNextEnd
  <2> HIDE DEF n
  <2>2. ShownWasRead'
    BY <1>1, <2>1 DEF Console, ShownWasRead
  <2>3. ReadIsShown'
    BY <1>1, <2>1 DEF Console, ReadIsShown
  <2>4. LogTypeOK' /\ FileOrder' /\ StreamOrder' /\ pos' > 0
    BY <1>1, <2>1 DEF Console, LogTypeOK, FileOrder, StreamOrder, n
  <2> QED
    BY <1>1, <2>2, <2>3, <2>4 DEF Console
<1>3. CASE ReadLine
  <2>1. PICK k \in pos + 1 .. n :
          /\ file[k].end /\ \A j \in pos + 1 .. k - 1 : ~file[j].end
          /\ pos' = k
          /\ \/ shown' = Append(shown, file[k].line)
             \/ ~file[pos + 1].head /\ UNCHANGED shown
    BY <1>3 DEF ReadLine, IsNextEnd
  <2> DEFINE l == file[k].line
  <2> HIDE DEF n
  <2>2. k \in 1 .. n /\ k > pos /\ k > 1 /\ l \in 0 .. MaxLines /\ l > 0 /\ file[k].end
    <3>1. k \in 1 .. n /\ k > pos /\ k > 1
      BY <1>1, <2>1
    <3>2. file[k] \in Piece /\ k \in DOMAIN file
      BY <1>1, <3>1
    <3>3. l \in 0 .. MaxLines
      BY <3>2 DEF Piece
    <3>4. file[k].line > 0
      BY <1>1, <3>1, <3>2 DEF FileOrder
    <3> QED
      BY <2>1, <3>1, <3>3, <3>4
  <2> HIDE DEF l
  <2>3. \A i \in 1 .. m : shown[i] < l
    <3> SUFFICES ASSUME NEW i \in 1 .. m PROVE shown[i] < l
      OBVIOUS
    <3>1. PICK j \in 1 .. pos : file[j].end /\ file[j].line = shown[i]
      BY <1>1 DEF Console, ShownWasRead
    <3>2. j \in DOMAIN file /\ k \in DOMAIN file /\ j < k
      BY <1>1, <2>2, <3>1
    <3> QED
      BY <1>1, <3>1, <3>2 DEF FileOrder, l
  <2>4. LogTypeOK' /\ FileOrder' /\ pos' > 0
    <3>1. shown' \in Seq(0 .. MaxLines)
      <4>1. shown \in Seq(0 .. MaxLines)
        BY <1>1 DEF LogTypeOK
      <4>2. Append(shown, l) \in Seq(0 .. MaxLines)
        BY <2>2, <4>1, AppendPiece
      <4> QED
        BY <2>1, <4>1, <4>2 DEF l
    <3> QED
      BY <1>1, <2>1, <2>2, <3>1 DEF LogTypeOK, FileOrder, n
  <2>5. ASSUME NEW j \in from + 1 .. k, j > pos, file[j].head, file[j].end
        PROVE  j = k /\ k = pos + 1
    <3>1. j = k
      BY <1>1, <2>1, <2>2, <2>5
    <3>2. k - 1 \notin pos + 1 .. k - 1
      <4>1. file[k - 1].end
        BY <1>1, <2>2, <2>5, <3>1 DEF FileOrder
      <4> QED
        BY <2>1, <4>1
    <3> QED
      BY <1>1, <2>2, <3>1, <3>2
  <2>6. CASE shown' = Append(shown, l)
    <3>1. shown \in Seq(0 .. MaxLines)
      BY <1>1 DEF LogTypeOK
    <3>2. /\ DOMAIN shown' = 1 .. m + 1 /\ shown'[m + 1] = l
          /\ \A i \in 1 .. m : shown'[i] = shown[i]
      BY <2>2, <2>6, <3>1, AppendPiece
    <3> HIDE DEF m
    <3>3. StreamOrder'
      <4>1. \A i \in 1 .. m : shown[i] > 0
        BY <1>1 DEF Console, StreamOrder
      <4>2. \A i, j \in 1 .. m : i < j => shown[i] < shown[j]
        BY <1>1 DEF Console, StreamOrder
      <4> QED
        BY <1>1, <2>2, <2>3, <3>2, <4>1, <4>2 DEF StreamOrder
    <3>4. ShownWasRead'
      <4> SUFFICES ASSUME NEW i \in 1 .. m + 1
                   PROVE  shown'[i] > 0 /\ \E j \in 1 .. k : file[j].end /\ file[j].line = shown'[i]
        BY <1>1, <2>1, <3>2 DEF ShownWasRead
      <4>1. CASE i \in 1 .. m
        <5>1. shown[i] > 0 /\ \E j \in 1 .. pos : file[j].end /\ file[j].line = shown[i]
          BY <1>1, <4>1 DEF Console, ShownWasRead
        <5> QED
          BY <1>1, <2>2, <3>2, <4>1, <5>1
      <4>2. CASE i = m + 1
        BY <1>1, <2>2, <3>2, <4>2 DEF l
      <4> QED
        BY <1>1, <4>1, <4>2
    <3>5. ReadIsShown'
      <4> SUFFICES ASSUME NEW j \in from + 1 .. k, file[j].head, file[j].end
                   PROVE  \E i \in 1 .. m + 1 : shown'[i] = file[j].line
        BY <1>1, <2>1, <3>2 DEF ReadIsShown
      <4>1. CASE j > pos
        BY <1>1, <2>5, <3>2, <4>1 DEF l
      <4>2. CASE j \in from + 1 .. pos
        <5>1. \E i \in 1 .. m : shown[i] = file[j].line
          BY <1>1, <4>2 DEF Console, ReadIsShown
        <5> QED
          BY <1>1, <3>2, <5>1
      <4> QED
        BY <1>1, <4>1, <4>2
    <3> QED
      BY <1>1, <2>4, <3>3, <3>4, <3>5 DEF Console
  <2>7. CASE ~file[pos + 1].head /\ UNCHANGED shown
    <3>1. StreamOrder'
      BY <2>7 DEF Console, StreamOrder
    <3>2. ShownWasRead'
      <4> SUFFICES ASSUME NEW i \in DOMAIN shown
                   PROVE  shown[i] > 0 /\ \E j \in 1 .. k : file[j].end /\ file[j].line = shown[i]
        BY <1>1, <2>1, <2>7 DEF ShownWasRead
      <4>1. shown[i] > 0 /\ \E j \in 1 .. pos : file[j].end /\ file[j].line = shown[i]
        BY DEF Console, ShownWasRead
      <4> QED
        BY <1>1, <2>2, <4>1
    <3>3. ReadIsShown'
      <4> SUFFICES ASSUME NEW j \in from + 1 .. k, file[j].head, file[j].end
                   PROVE  \E i \in 1 .. m : shown[i] = file[j].line
        BY <1>1, <2>1, <2>7 DEF ReadIsShown
      <4>1. j \in from + 1 .. pos
        BY <1>1, <2>2, <2>5, <2>7
      <4> QED
        BY <1>1, <4>1 DEF Console, ReadIsShown
    <3> QED
      BY <1>1, <2>4, <3>1, <3>2, <3>3 DEF Console
  <2> QED
    BY <2>1, <2>6, <2>7 DEF l
<1> QED
  BY <1>2, <1>3 DEF TailReads

\* The tailer is started once, by RunTest.
NotYetTailing == main \in {"helpers", "open", "wait", "apply", "log"} => tail = "none"

LEMMA NotYetTailingStep == NotYetTailing /\ [Next]_vars => NotYetTailing'
BY DEF NotYetTailing, Next, MainStep, AddHelpers, OpenAndSpawn, WaitForPassword, ApplyDefaultDeny,
       EnableLogging, Leave, RevertPolicy, DeleteHelpers, DisableLogging, Exit, ReturnTo,
       Goroutine, LogStep, Writes, TailOpens, TailReads, TailReturns, CtrlC, Killed, TailGone,
       Done, vars, sessionVars, logVars

LEMMA ConsoleStep == Console /\ NotYetTailing /\ [Next]_vars => Console'
<1> SUFFICES ASSUME Console, NotYetTailing, [Next]_vars PROVE Console'
  OBVIOUS
<1>1. CASE UNCHANGED logVars
  BY <1>1 DEF logVars, Console, LogTypeOK, FileOrder, ShownWasRead, ReadIsShown, StreamOrder
<1>2. ASSUME logging' \subseteq Decision, tail' \in {tail, "opening", "none", "returned"},
             tail' = "opening" => tail \in {"none", "opening"},
             tail' = "none" => tail = "none",
             UNCHANGED <<file, lines, pos, from, shown>>
      PROVE  Console'
  BY <1>2 DEF Console, LogTypeOK, FileOrder, ShownWasRead, ReadIsShown, StreamOrder
<1>3. CASE TailGone
  <2>1. UNCHANGED <<logging, file, lines>> /\ tail' = "none" /\ pos' = 0 /\ from' = 0 /\ shown' = << >>
    BY <1>3 DEF TailGone
  <2> QED
    BY <2>1 DEF Console, LogTypeOK, FileOrder, ShownWasRead, ReadIsShown, StreamOrder
<1>4. CASE TailOpens
  <2>1. /\ UNCHANGED <<logging, file, lines, shown>>
        /\ pos' = Len(file) /\ from' = Len(file) /\ tail' = "streaming"
        /\ shown = << >> /\ file # << >>
    BY <1>4 DEF TailOpens, Console
  <2>2. Len(file) \in Nat /\ Len(file) > 0
    BY <2>1 DEF Console, LogTypeOK
  <2> QED
    BY <2>1, <2>2 DEF Console, LogTypeOK, FileOrder, ShownWasRead, ReadIsShown, StreamOrder
<1>5. CASE LogStep
  BY <1>2, <1>4, <1>5, WritesConsole, ReadsConsole DEF LogStep, TailReturns, Console, LogTypeOK
<1>6. CASE EnableLogging
  <2>1. /\ logging' \subseteq Decision /\ tail' = "opening" /\ tail = "none"
        /\ UNCHANGED <<file, lines, pos, from, shown>>
    BY <1>6 DEF EnableLogging, NotYetTailing
  <2> QED
    BY <1>2, <2>1
<1>7. CASE DisableLogging
  BY <1>2, <1>7 DEF DisableLogging, Console, LogTypeOK
<1>8. CASE Next /\ ~LogStep /\ ~EnableLogging /\ ~DisableLogging
  BY <1>1, <1>3, <1>8
  DEF Next, MainStep, AddHelpers, OpenAndSpawn, WaitForPassword, ApplyDefaultDeny, Leave,
      RevertPolicy, DeleteHelpers, Exit, Goroutine, CtrlC, Killed, Done, vars
<1> QED
  BY <1>1, <1>5, <1>6, <1>7, <1>8 DEF vars

LEMMA ConsoleInv == Spec => []Console
<1>1. Init => Console /\ NotYetTailing
  BY ConsoleInit DEF Init, LogInit, NotYetTailing
<1> QED
  BY <1>1, ConsoleStep, NotYetTailingStep, PTL DEF Spec

\* The console shows lines of this session, in order and none twice, however
\* many there are and wherever they are cut.  (firewall_log.go:121-147)
THEOREM StreamOrderHolds == Spec => []StreamOrder
<1>1. Console => StreamOrder
  BY DEF Console
<1> QED
  BY <1>1, ConsoleInv, PTL

\* And misses only lines that Windows wrote in two pieces.
\* (firewall_log.go:136-146)
THEOREM NothingElseLostHolds == Spec => []NothingElseLost
<1>1. Console => NothingElseLost
  BY DEF Console, ReadIsShown, NothingElseLost
<1> QED
  BY <1>1, ConsoleInv, PTL

-----------------------------------------------------------------------------
(* The session and its loop                                                *)

SessionTypeOK == /\ main \in {"helpers", "open", "wait", "apply", "log", "running",
                              "revert", "unhelp", "unlog", "exit", "exited"}
                 /\ applied \in BOOLEAN
                 /\ signalled \in BOOLEAN
                 /\ helpers \subseteq Helper

LEMMA SessionFaults ==
  ASSUME MainStep \/ CtrlC \/ Killed
  PROVE  MayFail
<1>1. CASE AddHelpers \/ OpenAndSpawn \/ WaitForPassword \/ ApplyDefaultDeny \/ EnableLogging
  BY <1>1 DEF AddHelpers, OpenAndSpawn, WaitForPassword, ApplyDefaultDeny, EnableLogging, MayFail, fwVars
<1>2. CASE Leave \/ RevertPolicy \/ DeleteHelpers \/ DisableLogging \/ Exit
  BY <1>2 DEF Leave, RevertPolicy, DeleteHelpers, DisableLogging, Exit, MayFail, fwVars
<1>3. CASE CtrlC \/ Killed
  BY <1>3 DEF CtrlC, Killed, MayFail, fwVars
<1> QED
  BY <1>1, <1>2, <1>3 DEF MainStep

\* What RunTest itself changes of the machine.
LEMMA MainTyped ==
  ASSUME Typed, SessionTypeOK, MainStep \/ CtrlC \/ Killed
  PROVE  Typed' /\ SessionTypeOK'
<1>1. CASE Exit \/ Killed
  <2>1. /\ ProcessGone /\ UNCHANGED <<storeVars, fw, policy, keys>>
        /\ UNCHANGED <<applied, signalled, helpers>> /\ main' = "exited"
    BY <1>1 DEF Exit, Killed
  <2>2. Typed'
    BY <2>1, ProcessGoneTyped, SessionFaults
  <2> QED
    BY <2>1, <2>2 DEF SessionTypeOK
<1>2. CASE \/ AddHelpers \/ OpenAndSpawn \/ WaitForPassword \/ ApplyDefaultDeny \/ EnableLogging
           \/ Leave \/ RevertPolicy \/ DeleteHelpers \/ DisableLogging \/ CtrlC
  <2> USE DEF AddHelpers, OpenAndSpawn, WaitForPassword, ApplyDefaultDeny, EnableLogging, Leave,
              RevertPolicy, DeleteHelpers, DisableLogging, CtrlC, ReturnTo,
              storeVars, fwVars, recVars, loopVars
  <2>1. UNCHANGED <<rules, lastId, passwordSet, fw, call, recPc, want, repairs, sweeps, keys, healthy>>
    BY <1>2
  <2>2. /\ policy' \in {policy, "allow", "block"}
        /\ loop' \in {loop, "starting"} /\ ctx' \in {ctx, TRUE} /\ recUp' = recUp
    BY <1>2
  <2>3. SessionTypeOK'
    BY <1>2 DEF SessionTypeOK, Helper
  <2> HIDE DEF AddHelpers, OpenAndSpawn, WaitForPassword, ApplyDefaultDeny, EnableLogging, Leave,
              RevertPolicy, DeleteHelpers, DisableLogging, CtrlC, ReturnTo,
              storeVars, fwVars, recVars, loopVars
  <2>4. faults' \in 0 .. MaxFaults
    BY SessionFaults, FaultsFall DEF Typed, FwTypeOK
  <2>5. StoreTypeOK' /\ RecTypeOK' /\ TickNames'
    BY <2>1 DEF Typed, StoreTypeOK, RecTypeOK, TickNames
  <2>6. FwTypeOK' /\ LoopTypeOK'
    BY <2>1, <2>2, <2>4 DEF Typed, FwTypeOK, LoopTypeOK
  <2> QED
    BY <2>3, <2>5, <2>6 DEF Typed
<1> QED
  BY <1>1, <1>2 DEF MainStep

\* RunTest blocks the machine only when it has waited for the password.
LEMMA MainGating ==
  ASSUME Careful, Gating, MainStep \/ CtrlC \/ Killed
  PROVE  Gating'
<1>1. CASE Exit \/ Killed
  BY <1>1, ProcessGoneGating DEF Exit, Killed
<1>2. CASE ~Exit /\ ~Killed
  <2>1. /\ UNCHANGED <<passwordSet, recPc, recUp>>
        /\ loop' \in {loop, "starting"}
        /\ policy' \in {policy, "allow"} \/ main = "apply"
    BY <1>2 DEF MainStep, AddHelpers, OpenAndSpawn, WaitForPassword, ApplyDefaultDeny, EnableLogging,
                Leave, RevertPolicy, DeleteHelpers, DisableLogging, CtrlC, ReturnTo,
                storeVars, fwVars, recVars, loopVars
  <2>2. passwordSet \/ policy' = policy \/ policy' = "allow"
    BY <2>1 DEF Careful, Gated
  <2> QED
    BY <2>1, <2>2 DEF Gating
<1> QED
  BY <1>1, <1>2

Sound == Typed /\ SessionTypeOK /\ Gating

LEMMA SoundInit == Init => Sound
<1> SUFFICES ASSUME Init PROVE Sound
  OBVIOUS
<1> USE DEF Init
<1>1. StoreTypeOK
  BY MaxIdAssumption DEF StoreTypeOK
<1>2. FwTypeOK
  BY MaxIdAssumption, MaxFaultsAssumption DEF FwTypeOK, NoCall, Call, Name
<1>3. RecTypeOK /\ LoopTypeOK /\ TickNames /\ SessionTypeOK
  BY DEF RecTypeOK, NoWant, LoopInit, LoopTypeOK, TickNames, SessionTypeOK, Helper
<1>4. Gating
  BY DEF Gating, LoopInit
<1> QED
  BY <1>1, <1>2, <1>3, <1>4 DEF Sound, Typed

LEMMA SoundStep == Sound /\ Careful /\ [Next]_vars => Sound'
<1> SUFFICES ASSUME Sound, Careful, [Next]_vars PROVE Sound'
  OBVIOUS
<1> USE DEF Sound
<1>1. CASE MainStep \/ CtrlC \/ Killed
  BY <1>1, MainTyped, MainGating
<1>2. CASE \/ Goroutine(LoopStep) \/ Goroutine(ServerFails)
           \/ Goroutine(RecRuns) \/ Goroutine(RecReturns) \/ Goroutine(Setup)
  <2>1. Typed' /\ Gating'
    BY <1>2, RecRunsTyped, LoopTyped, RecRunsGating, LoopGating DEF Goroutine
  <2>2. SessionTypeOK'
    BY <1>2 DEF Goroutine, sessionVars, SessionTypeOK
  <2> QED
    BY <2>1, <2>2
<1>3. CASE LogStep \/ Done \/ UNCHANGED vars
  <2>1. UNCHANGED <<rules, lastId, passwordSet, fw, policy, call, faults,
                    recPc, want, repairs, sweeps, keys, healthy, loop, ctx, recUp,
                    main, applied, signalled, helpers>>
    BY <1>3 DEF LogStep, Done, vars, storeVars, fwVars, recVars, loopVars, sessionVars
  <2> QED
    BY <2>1 DEF Typed, StoreTypeOK, FwTypeOK, RecTypeOK, LoopTypeOK, TickNames, SessionTypeOK, Gating
<1> QED
  BY <1>1, <1>2, <1>3 DEF Next

LEMMA SoundInv == Spec => []Sound
BY InitCareful, NextCareful, SoundInit, SoundStep, PTL DEF Spec

\* Every variable keeps its type, nothing is touched before a password, and no
\* tick is under way without its goroutine and its gate: whatever fails or is
\* interrupted in a test session.  (test.go:101-116, service.go:131-138)
THEOREM Invariance == Spec => []IInv
<1>1. Sound /\ Careful /\ Console => IInv
  BY DEF Sound, Careful, Console, IInv, TypeOK, Typed, SessionTypeOK, Gating
<1> QED
  BY <1>1, SoundInv, InitCareful, NextCareful, ConsoleInv, PTL DEF Spec

-----------------------------------------------------------------------------
(* Helper rules and the log, up to the netsh runs that have failed         *)

\* Parts of what a session adds or turns on can be counted.
LEMMA SmallSets ==
  /\ \A S \in SUBSET Helper : Cardinality(S) \in Nat
  /\ \A S \in SUBSET Decision : Cardinality(S) \in Nat
<1>1. Helper = {"loopback"} \cup {"program"} \cup {"preserve"} /\ Decision = {"DROP"} \cup {"ALLOW"}
  BY DEF Helper, Decision
<1>2. IsFiniteSet(Helper) /\ IsFiniteSet(Decision)
  BY <1>1, FS_Singleton, FS_Union
<1> QED
  BY <1>2, FS_Subset, FS_CardinalityType

\* ReachableWhileBlocked is not inductive: the policy may be blocked at any
\* time in the middle of the session, so the rules have to be there before.
Surrounded ==
  main \in {"open", "wait", "apply", "log", "running", "revert"}
    => Cardinality(Helper \ helpers) <= MaxFaults - faults

\* A disturbance only adds to what may be missing.
LEMMA FaultsOnlyFall ==
  ASSUME Sound, [Next]_vars
  PROVE  /\ faults \in 0 .. MaxFaults /\ faults' \in 0 .. MaxFaults
         /\ faults' <= faults
<1>1. faults \in 0 .. MaxFaults
  BY DEF Sound, Typed, FwTypeOK
<1>2. ASSUME \/ Goroutine(LoopStep) \/ Goroutine(ServerFails)
             \/ Goroutine(RecRuns) \/ Goroutine(RecReturns) \/ Goroutine(Setup)
      PROVE  MayFail
  BY <1>2, RecRunsFaults, LoopFaults DEF Goroutine
<1>3. ASSUME LogStep \/ Done \/ UNCHANGED vars PROVE MayFail
  BY <1>3 DEF LogStep, Done, vars, fwVars, MayFail
<1>4. MayFail
  BY <1>2, <1>3, SessionFaults DEF Next
<1> QED
  BY <1>1, <1>4, FaultsFall

LEMMA SurroundedStep == Sound /\ Surrounded /\ [Next]_vars => Surrounded'
<1> SUFFICES ASSUME Sound, Surrounded, [Next]_vars PROVE Surrounded'
  OBVIOUS
<1>1. /\ faults \in 0 .. MaxFaults /\ faults' \in 0 .. MaxFaults
      /\ faults' <= faults /\ MaxFaults \in Nat
  BY FaultsOnlyFall, MaxFaultsAssumption
<1>2. CASE AddHelpers
  <2>1. CASE helpers' = Helper
    <3>1. Helper \ helpers' = {}
      BY <2>1
    <3>2. Cardinality(Helper \ helpers') = 0
      BY <3>1, FewOrNone
    <3> QED
      BY <1>1, <3>2, NoneMissing DEF Surrounded
  <2>2. CASE Fault("netsh") /\ \E h \in Helper : helpers' = Helper \ {h}
    <3>1. PICK h \in Helper : helpers' = Helper \ {h}
      BY <2>2
    <3>2. Helper \ helpers' = {h}
      BY <3>1
    <3>3. Cardinality(Helper \ helpers') = 1
      BY <3>2, FewOrNone
    <3>4. faults' = faults - 1
      BY <2>2 DEF Fault
    <3> QED
      BY <1>1, <3>3, <3>4 DEF Surrounded
  <2> QED
    BY <1>2, <2>1, <2>2 DEF AddHelpers
<1>3. CASE DeleteHelpers \/ DisableLogging \/ Exit \/ Killed
  BY <1>3 DEF DeleteHelpers, DisableLogging, Exit, Killed, Surrounded
<1>4. CASE UNCHANGED helpers /\ (main' = main \/ main \notin {"helpers", "unhelp", "unlog", "exit", "exited"})
  <2>1. \/ main' \notin {"open", "wait", "apply", "log", "running", "revert"}
        \/ main \in {"open", "wait", "apply", "log", "running", "revert"}
    BY <1>4 DEF Sound, SessionTypeOK
  <2>2. ASSUME Cardinality(Helper \ helpers) <= MaxFaults - faults
        PROVE  Cardinality(Helper \ helpers) <= MaxFaults - faults'
    <3>1. Cardinality(Helper \ helpers) \in Nat
      BY SmallSets
    <3> QED
      BY <1>1, <2>2, <3>1
  <2> QED
    BY <1>4, <2>1, <2>2 DEF Surrounded
<1> QED
  BY <1>2, <1>3, <1>4
  DEF Next, MainStep, OpenAndSpawn, WaitForPassword, ApplyDefaultDeny, EnableLogging, Leave,
      RevertPolicy, ReturnTo, CtrlC, Goroutine, LogStep, Done, vars, sessionVars

\* While the machine is blocked, the dashboard, the resolver and the remote
\* session are reachable up to the netsh runs that have failed, for any number
\* of failures.  (test.go:42-68, 84-85)
THEOREM ReachableWhileBlockedHolds == Spec => []ReachableWhileBlocked
<1>1. Init => Surrounded
  BY DEF Init, Surrounded
<1>2. Surrounded => ReachableWhileBlocked
  BY DEF Surrounded, ReachableWhileBlocked
<1> QED
  BY <1>1, <1>2, SurroundedStep, SoundInv, PTL DEF Spec

LEMMA LoggingEndsStep == Sound /\ Console /\ LoggingEnds /\ [Next]_vars => LoggingEnds'
<1> SUFFICES ASSUME Sound, Console, LoggingEnds, [Next]_vars, main' = "exit"
             PROVE  Cardinality(logging') <= MaxFaults - faults'
  BY DEF LoggingEnds
<1>1. /\ faults \in 0 .. MaxFaults /\ faults' \in 0 .. MaxFaults
      /\ faults' <= faults /\ MaxFaults \in Nat
  BY FaultsOnlyFall, MaxFaultsAssumption
<1>2. CASE DisableLogging
  <2>1. CASE logging' = {}
    BY <1>1, <2>1, FewOrNone
  <2>2. CASE Fault("netsh") /\ \E d \in Decision : logging' = logging \cap {d}
    <3>1. PICK d \in Decision : logging' = logging \cap {d}
      BY <2>2
    <3>2. logging' = {} \/ logging' = {d}
      BY <3>1
    <3>3. Cardinality(logging') \in {0, 1}
      BY <3>2, FewOrNone
    <3>4. faults' = faults - 1
      BY <2>2 DEF Fault
    <3> QED
      BY <1>1, <3>3, <3>4
  <2> QED
    BY <1>2, <2>1, <2>2 DEF DisableLogging
<1>3. CASE main = "exit" /\ UNCHANGED <<main, logging>>
  <2>1. Cardinality(logging) <= MaxFaults - faults /\ Cardinality(logging) \in Nat
    BY <1>3, SmallSets DEF LoggingEnds, Console, LogTypeOK
  <2> QED
    BY <1>1, <1>3, <2>1
<1> QED
  BY <1>2, <1>3
  DEF Next, MainStep, AddHelpers, OpenAndSpawn, WaitForPassword, ApplyDefaultDeny, EnableLogging, Leave,
      RevertPolicy, DeleteHelpers, ReturnTo, Exit, CtrlC, Killed, Goroutine, LogStep, Writes, TailOpens,
      TailReads, TailReturns, Done, vars, sessionVars, logVars

\* A session that comes to its end has turned the log off, up to the netsh
\* runs that have failed.  (firewall_log.go:44-48, test.go:84-88)
THEOREM LoggingEndsHolds == Spec => []LoggingEnds
<1>1. Init => LoggingEnds
  BY DEF Init, LoggingEnds
<1> QED
  BY <1>1, LoggingEndsStep, SoundInv, ConsoleInv, PTL DEF Spec

=============================================================================
