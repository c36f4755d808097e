------------------------------ MODULE LogTail ------------------------------
(***************************************************************************)
(* The firewall log of a -test session: Windows writes pfirewall.log, and  *)
(* tailFirewallLog follows it and shows the decisions on the console.      *)
(*                                                                         *)
(* The file is a sequence of pieces.  A piece is what Windows writes at a  *)
(* time: a line, or one end of a line that it writes in two.  The lines of *)
(* the session are numbered; line 0 is one of an earlier session.  Only    *)
(* lines of outbound decisions are in the model: the others, and the       *)
(* file's header, are read and not shown.  What a shown line says (colour, *)
(* the domain of its address) and the rotation of the file are left out.   *)
(***************************************************************************)
EXTENDS Naturals, Sequences, FiniteSets

CONSTANT MaxLines   \* bound: lines that are written in the session

ASSUME MaxLinesAssumption == MaxLines \in Nat

VARIABLES logging,  \* the decisions that Windows logs
          file,     \* pfirewall.log; empty when there is none yet
          lines,    \* lines of the session that have been begun
          tail,     \* where tailFirewallLog is
          pos,      \* what it has read
          from,     \* auxiliary: where it began to read
          shown     \* lines on the console

logVars == <<logging, file, lines, tail, pos, from, shown>>

Decision == {"DROP", "ALLOW"}
Piece == [line : 0 .. MaxLines, head : BOOLEAN, end : BOOLEAN]

LogTypeOK == /\ logging \subseteq Decision
             /\ file \in Seq(Piece)
             /\ lines \in 0 .. MaxLines
             /\ tail \in {"none", "opening", "streaming", "returned"}
             /\ pos \in 0 .. Len(file) /\ from \in 0 .. Len(file)
             /\ shown \in Seq(0 .. MaxLines)

Whole(n) == [line |-> n, head |-> TRUE, end |-> TRUE]

\* Windows logs nothing unless it is told to.
LogInit == /\ logging = {}
           /\ file \in {<< >>, <<Whole(0)>>}
           /\ lines = 0
           /\ tail = "none" /\ pos = 0 /\ from = 0
           /\ shown = << >>

-----------------------------------------------------------------------------

InMidLine == Len(file) > 0 /\ ~file[Len(file)].end

\* Windows logs a decision, in one piece or two.
Writes ==
  /\ \/ /\ logging # {} /\ ~InMidLine /\ lines < MaxLines
        /\ lines' = lines + 1
        /\ \E whole \in BOOLEAN :
             file' = Append(file, [line |-> lines + 1, head |-> TRUE, end |-> whole])
     \/ /\ InMidLine
        /\ file' = Append(file, [line |-> lines, head |-> FALSE, end |-> TRUE])
        /\ UNCHANGED lines
  /\ UNCHANGED <<logging, tail, pos, from, shown>>

\* Mutant: whatever is in the file already is shown, too.
TailOpens_NoSeek ==
  /\ tail = "opening" /\ file # << >>
  /\ tail' = "streaming"
  /\ UNCHANGED <<logging, file, lines, pos, from, shown>>

\* The file exists by now; Seek to its end.
TailOpens ==
  /\ tail = "opening" /\ file # << >>
  /\ tail' = "streaming"
  /\ pos' = Len(file) /\ from' = Len(file)
  /\ UNCHANGED <<logging, file, lines, shown>>

\* The first newline that has not been read.
IsNextEnd(k) == /\ k \in pos + 1 .. Len(file) /\ file[k].end
                /\ \A j \in pos + 1 .. k - 1 : ~file[j].end

NoNextEnd == \A k \in pos + 1 .. Len(file) : ~file[k].end

\* Mutant: a new bufio.Reader for every line, and what the old one had read
\* beyond its line is lost.
ReadLine_NewReader ==
  /\ \E k \in pos + 1 .. Len(file) : IsNextEnd(k) /\ shown' = Append(shown, file[k].line)
  /\ pos' = Len(file)

\* ReadString up to a newline.  What is left of a line whose beginning was
\* dropped has too few fields to be shown, unless only a part of its date is
\* missing.
ReadLine ==
  \E k \in pos + 1 .. Len(file) :
    /\ IsNextEnd(k)
    /\ pos' = k
    /\ \/ shown' = Append(shown, file[k].line)
       \/ ~file[pos + 1].head /\ UNCHANGED shown

\* ReadString up to the end of the file: the part of a line that comes with
\* io.EOF is dropped.
ReadEOF == NoNextEnd /\ pos' = Len(file) /\ UNCHANGED shown

TailReads == /\ tail = "streaming"
             /\ ReadLine \/ ReadEOF
             /\ UNCHANGED <<logging, file, lines, tail, from>>

TailReturns ==
  /\ tail \in {"opening", "streaming"}
  /\ tail' = "returned"
  /\ UNCHANGED <<logging, file, lines, pos, from, shown>>

\* The process ends, and with it the goroutine and the console.
TailGone ==
  /\ tail' = "none" /\ pos' = 0 /\ from' = 0 /\ shown' = << >>
  /\ UNCHANGED <<logging, file, lines>>

-----------------------------------------------------------------------------

\* The console shows lines of this session only, in their order, and none of
\* them twice.  (firewall_log.go:121-147)
StreamOrder == /\ \A i \in DOMAIN shown : shown[i] > 0
               /\ \A i, j \in DOMAIN shown : i < j => shown[i] < shown[j]

\* And it misses none: a tailer that has read the file to its end has shown
\* every line that came after it began, unless Windows wrote it in two pieces.
\* (firewall_log.go:136-146)
NothingElseLost ==
  tail = "streaming" /\ pos = Len(file)
    => \A k \in from + 1 .. Len(file) :
         file[k].head /\ file[k].end => \E i \in DOMAIN shown : shown[i] = file[k].line

=============================================================================
