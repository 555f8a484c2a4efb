--------------------------- MODULE ReadinessParser ---------------------------
(***************************************************************************)
(* parseStdout of internal/harness/readiness.go: the reader goroutine of   *)
(* Start goes through the harness's output line by line, until READY, an   *)
(* error or the end of the output.                                         *)
(***************************************************************************)
EXTENDS Readiness

CONSTANT Outputs     \* the outputs a harness may produce, as sequences of lines

ASSUME OutputsAssumption == Outputs \subseteq Seq(Lines)

VARIABLES lines,     \* the output
          pos,       \* how many lines have been scanned
          filled,    \* the Readiness filled in so far
          verdict    \* "reading", "ready" or "failed"

parserVars == <<lines, pos, filled, verdict>>

ParserInit ==
  /\ lines \in Outputs
  /\ pos = 0
  /\ filled = Nothing
  /\ verdict = "reading"

(* Mutant: the first announcement of a field wins.                         *)
KeepFirst(l) ==
  filled' = IF l.key \in Fields /\ filled[l.key] # 0 THEN filled ELSE Announce(filled, l)
Fill(l) == filled' = Announce(filled, l)

ScanLine ==
  /\ verdict = "reading"
  /\ pos < Len(lines)
  /\ pos' = pos + 1
  /\ verdict' = Verdict(filled, lines[pos + 1])
  /\ Fill(lines[pos + 1])
  /\ UNCHANGED lines

(* "stdout closed before READY".                                           *)
EndOfOutput ==
  /\ verdict = "reading"
  /\ pos = Len(lines)
  /\ verdict' = "failed"
  /\ UNCHANGED <<lines, pos, filled>>

ParserNext == ScanLine \/ EndOfOutput

ParserSpec == ParserInit /\ [][ParserNext]_parserVars
-----------------------------------------------------------------------------
(* READY is accepted only if the contract accepts it: what was announced   *)
(* before the first READY is complete and readable, and what the caller    *)
(* gets is the last announcement of each field.  A harness is refused only *)
(* if the contract does not accept it, or else at a line of 64 KiB, which  *)
(* the contract ignores and the code does not (parseStdout).               *)
VerdictRight ==
  /\ verdict = "ready" =>
       /\ pos \in 1..Len(lines) /\ AnnouncedAt(lines, pos)
       /\ \A k \in Fields : Latest(lines, k, pos, filled[k])
  /\ verdict = "failed" /\ Announced(lines) => pos > 0 /\ lines[pos].key = "TooLong"
=============================================================================
