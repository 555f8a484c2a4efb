--------------------------- MODULE ReadinessProofs ---------------------------
(***************************************************************************)
(* Lemmas about Readiness, which the reader of HarnessProcess needs too:   *)
(* how one more line changes what has been announced last, and when an     *)
(* announcement is accepted.  Then the theorems about ReadinessParser, for *)
(* every set of outputs: one pass over the lines reaches the contract's    *)
(* verdict, but for lines of 64 KiB.                                       *)
(***************************************************************************)
EXTENDS ReadinessParser, TLAPS

(* The lines before p end neither the reading nor the announcement.        *)
CleanUpTo(s, p) ==
  \A i \in 1..p : s[i].key \notin {"READY", "TooLong"} /\ ~Malformed(s[i])

Values(s, p) == {0} \cup {s[i].value : i \in 1..p}

-----------------------------------------------------------------------------
(* An announcement changes one field, to a number.                         *)
LEMMA AnnounceTypes ==
  ASSUME NEW a \in [Fields -> Int], NEW l \in Lines
  PROVE  Announce(a, l) \in [Fields -> Int]
  BY DEF Announce, Lines

LEMMA VerdictTypes ==
  ASSUME NEW a, NEW l
  PROVE  Verdict(a, l) \in {"reading", "ready", "failed"}
<1>1. CASE l.key = "TooLong" \/ Malformed(l)
  BY <1>1 DEF Verdict
<1>2. CASE ~(l.key = "TooLong" \/ Malformed(l)) /\ l.key = "READY" /\ Complete(a)
  BY <1>2 DEF Verdict
<1>3. CASE ~(l.key = "TooLong" \/ Malformed(l)) /\ l.key = "READY" /\ ~Complete(a)
  BY <1>3 DEF Verdict
<1>4. CASE ~(l.key = "TooLong" \/ Malformed(l)) /\ l.key # "READY"
  BY <1>4 DEF Verdict
<1> QED BY <1>1, <1>2, <1>3, <1>4

(* A field has one latest announcement.                                    *)
LEMMA LatestUnique ==
  ASSUME NEW s, NEW k, NEW p \in Nat, NEW v, NEW w, Latest(s, k, p, v), Latest(s, k, p, w)
  PROVE  v = w
<1>1. CASE Said(s, k, p) = {}
  BY <1>1 DEF Latest
<1>2. CASE Said(s, k, p) # {}
  <2>1. PICK i \in Said(s, k, p) : v = s[i].value /\ \A j \in Said(s, k, p) : j <= i
    BY <1>2 DEF Latest
  <2>2. PICK j \in Said(s, k, p) : w = s[j].value /\ \A h \in Said(s, k, p) : h <= j
    BY <1>2 DEF Latest
  <2>3. i \in Int /\ j \in Int /\ i <= j /\ j <= i
    BY <2>1, <2>2 DEF Said
  <2> QED BY <2>1, <2>2, <2>3
<1> QED BY <1>1, <1>2

(* A line about something else leaves the latest announcement as it was.   *)
LEMMA LatestKept ==
  ASSUME NEW s, NEW k, NEW p \in Nat, p # 0, NEW v, Latest(s, k, p, v), s[p].key # k
  PROVE  Latest(s, k, p + 1, v)
<1>1. Said(s, k, p + 1) = Said(s, k, p)
  BY DEF Said
<1> QED BY <1>1 DEF Latest

(* A line that announces the field is the latest to do so.                 *)
LEMMA LatestReplaced ==
  ASSUME NEW s, NEW k, NEW p \in Nat, p # 0, s[p].key = k
  PROVE  Latest(s, k, p + 1, s[p].value)
<1>1. p \in Said(s, k, p + 1) /\ \A j \in Said(s, k, p + 1) : j <= p
  BY DEF Said
<1> QED BY <1>1 DEF Latest

(* What ends the reading keeps the contract from accepting, unless it is   *)
(* the length of a line.                                                   *)
LEMMA NotAnnounced ==
  ASSUME NEW s \in Seq(Lines), NEW p \in 1..Len(s), CleanUpTo(s, p - 1),
         NEW a \in [Fields -> Int], \A k \in Fields : Latest(s, k, p, a[k]),
         Verdict(a, s[p]) = "failed", s[p].key # "TooLong"
  PROVE  ~Announced(s)
<1> SUFFICES ASSUME NEW q \in 1..Len(s), AnnouncedAt(s, q) PROVE FALSE
  BY DEF Announced
<1>1. Len(s) \in Nat /\ s[q].key = "READY"
  BY DEF AnnouncedAt
<1>2. q >= p
  BY <1>1 DEF CleanUpTo
<1>3. Malformed(s[p]) \/ (s[p].key = "READY" /\ ~Complete(a))
  BY DEF Verdict
<1>4. CASE q > p
  <2>1. s[p].key # "READY" /\ ~Malformed(s[p])
    BY <1>1, <1>4 DEF AnnouncedAt
  <2> QED BY <1>3, <2>1
<1>5. CASE q = p
  <2>1. ~Complete(a)
    BY <1>1, <1>3, <1>5 DEF Malformed, Fields
  <2>2. PICK b \in [Fields -> Values(s, p - 1)] :
          Complete(b) /\ \A k \in Fields : Latest(s, k, p, b[k])
    BY <1>5 DEF AnnouncedAt, Values
  <2>3. ASSUME NEW k \in Fields PROVE a[k] = b[k]
    <3>1. Latest(s, k, p, a[k]) /\ Latest(s, k, p, b[k]) /\ p \in Nat
      BY <1>1, <2>2
    <3> QED BY <3>1, LatestUnique
  <2>4. Complete(a)
    BY <2>2, <2>3 DEF Complete, Fields
  <2> QED BY <2>1, <2>4
<1> QED BY <1>1, <1>2, <1>4, <1>5

(* Accepting at READY, as the parser does, is what the contract asks for.   *)
LEMMA AcceptsAnnounced ==
  ASSUME NEW s, NEW p \in Nat \ {0}, CleanUpTo(s, p - 1),
         NEW a \in [Fields -> Values(s, p - 1)], \A k \in Fields : Latest(s, k, p, a[k]),
         Verdict(a, s[p]) = "ready"
  PROVE  AnnouncedAt(s, p) /\ Announce(a, s[p]) = a
<1>1. s[p].key = "READY" /\ Complete(a)
  BY DEF Verdict
<1>2. Announce(a, s[p]) = a
  BY <1>1 DEF Announce, Fields
<1>3. AnnouncedAt(s, p)
  BY <1>1 DEF AnnouncedAt, CleanUpTo, Values
<1> QED BY <1>2, <1>3

(* One more line that does not end the reading.                            *)
LEMMA ReadsOn ==
  ASSUME NEW s, NEW p \in Nat \ {0}, CleanUpTo(s, p - 1),
         NEW a \in [Fields -> Values(s, p - 1)], \A k \in Fields : Latest(s, k, p, a[k]),
         Verdict(a, s[p]) = "reading"
  PROVE  /\ CleanUpTo(s, p)
         /\ \A k \in Fields : Latest(s, k, p + 1, Announce(a, s[p])[k])
<1>1. s[p].key \notin {"READY", "TooLong"} /\ ~Malformed(s[p])
  BY DEF Verdict
<1>2. CleanUpTo(s, p)
  BY <1>1 DEF CleanUpTo
<1>3. ASSUME NEW k \in Fields
      PROVE  Latest(s, k, p + 1, Announce(a, s[p])[k])
  <2>1. CASE s[p].key # k
    <3>1. Announce(a, s[p])[k] = a[k]
      BY <2>1 DEF Announce
    <3> QED BY <2>1, <3>1, LatestKept
  <2>2. CASE s[p].key = k
    <3>1. Announce(a, s[p])[k] = s[p].value
      BY <1>1, <2>2 DEF Announce, Malformed
    <3> QED BY <2>2, <3>1, LatestReplaced
  <2> QED BY <2>1, <2>2
<1> QED BY <1>2, <1>3

(* r keeps to the values that have been announced.                         *)
LEMMA AnnounceValues ==
  ASSUME NEW s, NEW p \in Nat \ {0}, NEW a \in [Fields -> Values(s, p - 1)]
  PROVE  Announce(a, s[p]) \in [Fields -> Values(s, p)]
<1>1. a \in [Fields -> Values(s, p)] /\ s[p].value \in Values(s, p)
  BY DEF Values
<1> QED BY <1>1 DEF Announce

(* What has been announced does not depend on the lines after READY.       *)
LEMMA AnnouncedPrefix ==
  ASSUME NEW s \in Seq(Lines), NEW n \in 0..Len(s)
  PROVE  Announced(SubSeq(s, 1, n)) <=> \E p \in 1..n : AnnouncedAt(s, p)
<1>1. Len(SubSeq(s, 1, n)) = n /\ \A i \in 1..n : SubSeq(s, 1, n)[i] = s[i]
  OBVIOUS
<1>2. ASSUME NEW p \in 1..n
      PROVE  AnnouncedAt(SubSeq(s, 1, n), p) <=> AnnouncedAt(s, p)
  <2>1. \A k : Said(SubSeq(s, 1, n), k, p) = Said(s, k, p)
    BY <1>1 DEF Said
  <2>2. \A k, v : Latest(SubSeq(s, 1, n), k, p, v) <=> Latest(s, k, p, v)
    BY <1>1, <2>1 DEF Latest, Said
  <2>3. {SubSeq(s, 1, n)[i].value : i \in 1..(p - 1)} = {s[i].value : i \in 1..(p - 1)}
    BY <1>1
  <2>4. \A i \in 1..p : SubSeq(s, 1, n)[i] = s[i]
    BY <1>1
  <2>5. (\E r \in [Fields -> {0} \cup {SubSeq(s, 1, n)[i].value : i \in 1..(p - 1)}] :
           Complete(r) /\ \A k \in Fields : Latest(SubSeq(s, 1, n), k, p, r[k]))
        <=> (\E r \in [Fields -> {0} \cup {s[i].value : i \in 1..(p - 1)}] :
               Complete(r) /\ \A k \in Fields : Latest(s, k, p, r[k]))
    BY <2>2, <2>3, Zenon
  <2>6. SubSeq(s, 1, n)[p].key = s[p].key
    BY <2>4
  <2>7. \A i \in 1..(p - 1) : SubSeq(s, 1, n)[i] = s[i]
    BY <2>4
  <2> QED BY <2>5, <2>6, <2>7, Zenon DEF AnnouncedAt
<1> QED BY <1>1, <1>2 DEF Announced
-----------------------------------------------------------------------------
(* The parser.                                                             *)
ParserTypes ==
  /\ lines \in Outputs /\ pos \in 0..Len(lines)
  /\ filled \in [Fields -> Values(lines, pos)]
  /\ verdict \in {"reading", "ready", "failed"}

(* While it reads, the parser has met no end, and filled holds what each   *)
(* field was last announced as.                                            *)
Reading ==
  verdict = "reading" =>
    /\ CleanUpTo(lines, pos)
    /\ \A k \in Fields : Latest(lines, k, pos + 1, filled[k])

ParserInv == ParserTypes /\ Reading /\ VerdictRight
-----------------------------------------------------------------------------
LEMMA OutputLines ==
  ASSUME NEW s \in Outputs
  PROVE  s \in Seq(Lines) /\ Len(s) \in Nat /\ \A i \in 1..Len(s) : s[i] \in Lines
  BY OutputsAssumption DEF OutputsAssumption

-----------------------------------------------------------------------------
LEMMA ParserInitKeeps == ParserInit => ParserInv
<1> SUFFICES ASSUME ParserInit PROVE ParserInv
  OBVIOUS
<1>1. ParserTypes
  <2>1. Len(lines) \in Nat
    BY OutputLines DEF ParserInit
  <2> QED BY <2>1 DEF ParserInit, ParserTypes, Values, Nothing
<1>2. Reading
  <2>1. \A k \in Fields : Said(lines, k, 1) = {}
    BY DEF Said
  <2> QED BY <2>1 DEF ParserInit, Reading, CleanUpTo, Latest, Nothing
<1>3. VerdictRight
  BY DEF ParserInit, VerdictRight
<1> QED BY <1>1, <1>2, <1>3 DEF ParserInv

(* What the lemmas above ask of the line that is scanned.                  *)
LEMMA Scanning ==
  ASSUME ParserInv, ScanLine
  PROVE  /\ lines' = lines /\ pos' = pos + 1 /\ lines \in Seq(Lines)
         /\ pos + 1 \in 1..Len(lines) /\ pos + 1 \in Nat \ {0}
         /\ filled \in [Fields -> Values(lines, (pos + 1) - 1)]
         /\ CleanUpTo(lines, (pos + 1) - 1)
         /\ \A k \in Fields : Latest(lines, k, pos + 1, filled[k])
         /\ verdict' = Verdict(filled, lines[pos + 1])
         /\ filled' = Announce(filled, lines[pos + 1])
<1>1. pos \in Nat /\ (pos + 1) - 1 = pos /\ lines \in Seq(Lines)
  BY OutputLines DEF ParserInv, ParserTypes
<1>2. lines' = lines /\ pos' = pos + 1 /\ pos + 1 \in 1..Len(lines)
  BY <1>1, OutputLines DEF ParserInv, ParserTypes, ScanLine
<1>3. CleanUpTo(lines, pos) /\ \A k \in Fields : Latest(lines, k, pos + 1, filled[k])
  BY DEF ParserInv, Reading, ScanLine
<1> QED BY <1>1, <1>2, <1>3 DEF ParserInv, ParserTypes, ScanLine, Fill

(* One more line: what filled may hold, and whether the verdict is right.  *)
LEMMA ScanKeeps ==
  ASSUME ParserInv, ScanLine
  PROVE  ParserInv'
<1>1. ParserTypes'
  <2>1. filled' \in [Fields -> Values(lines, pos + 1)]
    BY Scanning, AnnounceValues
  <2>2. verdict' \in {"reading", "ready", "failed"}
    BY Scanning, VerdictTypes
  <2> QED BY <2>1, <2>2, Scanning, OutputLines DEF ParserInv, ParserTypes
<1>2. Reading'
  <2> SUFFICES ASSUME verdict' = "reading" PROVE Reading'
    BY DEF Reading
  <2>1. /\ CleanUpTo(lines, pos + 1)
        /\ \A k \in Fields : Latest(lines, k, (pos + 1) + 1, Announce(filled, lines[pos + 1])[k])
    BY Scanning, ReadsOn
  <2> QED BY <2>1, Scanning DEF Reading
<1>3. CASE verdict' = "ready"
  <2>1. AnnouncedAt(lines, pos + 1) /\ filled' = filled
    BY <1>3, Scanning, AcceptsAnnounced
  <2> QED BY <1>1, <1>2, <1>3, <2>1, Scanning DEF ParserInv, VerdictRight
<1>4. CASE verdict' = "failed"
  <2>1. filled \in [Fields -> Int]
    BY Scanning DEF Values, Lines
  <2>2. CASE lines[pos + 1].key = "TooLong"
    <3>1. pos' > 0 /\ lines'[pos'].key = "TooLong"
      BY <2>2, Scanning
    <3> QED BY <1>1, <1>2, <1>4, <3>1 DEF ParserInv, VerdictRight
  <2>3. CASE lines[pos + 1].key # "TooLong"
    <3>1. ~Announced(lines)
      BY <1>4, <2>1, <2>3, Scanning, NotAnnounced
    <3>2. ~Announced(lines')
      BY <3>1, Scanning
    <3> QED BY <1>1, <1>2, <1>4, <3>2 DEF ParserInv, VerdictRight
  <2> QED BY <2>2, <2>3
<1>5. CASE verdict' \notin {"ready", "failed"}
  BY <1>1, <1>2, <1>5 DEF ParserInv, VerdictRight
<1> QED BY <1>3, <1>4, <1>5

(* The end of the output, without a READY.                                 *)
LEMMA EndKeeps ==
  ASSUME ParserInv, EndOfOutput
  PROVE  ParserInv'
<1>1. UNCHANGED <<lines, pos, filled>> /\ verdict' = "failed" /\ pos = Len(lines) /\ CleanUpTo(lines, pos)
  BY DEF EndOfOutput, ParserInv, Reading
<1>2. ~Announced(lines)
  BY <1>1 DEF Announced, AnnouncedAt, CleanUpTo
<1>3. ParserTypes'
  BY <1>1 DEF ParserInv, ParserTypes
<1> QED BY <1>1, <1>2, <1>3 DEF ParserInv, Reading, VerdictRight
-----------------------------------------------------------------------------
(* The inductive invariant of parseStdout: while it reads, no line so far  *)
(* ends the announcement and filled holds the latest value of every field. *)
THEOREM ParserInvariant == ParserSpec => []ParserInv
<1>1. ParserInv /\ [ParserNext]_parserVars => ParserInv'
  <2> SUFFICES ASSUME ParserInv, [ParserNext]_parserVars PROVE ParserInv'
    OBVIOUS
  <2>1. CASE ScanLine
    BY <2>1, ScanKeeps
  <2>2. CASE EndOfOutput
    BY <2>2, EndKeeps
  <2>3. CASE UNCHANGED parserVars
    BY <2>3 DEF parserVars, ParserInv, ParserTypes, Reading, VerdictRight
  <2> QED BY <2>1, <2>2, <2>3 DEF ParserNext
<1> QED BY <1>1, ParserInitKeeps, PTL DEF ParserSpec

(* One pass over the lines accepts only complete announcements, with the   *)
(* last value given to each field, and of these it refuses only what has a *)
(* line of 64 KiB (parseStdout, validate).                                 *)
THEOREM ParserRight == ParserSpec => []VerdictRight
<1>1. ParserInv => VerdictRight
  BY DEF ParserInv
<1> QED BY <1>1, ParserInvariant, PTL
=============================================================================
