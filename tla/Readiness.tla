------------------------------ MODULE Readiness ------------------------------
(***************************************************************************)
(* The announcement a harness makes on its standard output,                *)
(* internal/harness/readiness.go.                                          *)
(*                                                                         *)
(* A line is [key, value, ok]: ok tells whether strconv.Atoi accepts the   *)
(* value.  READY, and lines that announce nothing, have the value 0.  A    *)
(* line longer than bufio.Scanner's buffer of 64 KiB is TooLong, whatever  *)
(* it holds.                                                               *)
(***************************************************************************)
EXTENDS Integers, Sequences

Fields == {"Version", "X509Port", "JWTPort", "ControlPort"}

(* The keys of parseLine, named by the field of Readiness each one sets.   *)
Keys == Fields \cup {"READY", "log", "TooLong"}

Lines == {l \in [key : Keys, value : Int, ok : BOOLEAN] : ~l.ok => l.value = 0}

Nothing == [f \in Fields |-> 0]     \* the zero value of Readiness

(* parseLine: the effect of an announcement on the Readiness read so far.  *)
Malformed(l) == l.key \in Fields /\ ~l.ok

Announce(r, l) ==
  IF l.key \in Fields /\ l.ok THEN [r EXCEPT ![l.key] = l.value] ELSE r

(* validate.                                                               *)
Complete(r) ==
  /\ r["Version"] \in {0, 1}
  /\ r["X509Port"] # 0
  /\ r["Version"] = 0 => r["JWTPort"] # 0
  /\ r["Version"] = 1 => r["ControlPort"] # 0

(* Mutant: READY is believed without validate.                             *)
VerdictUnchecked(r, l) ==
  IF l.key = "TooLong" \/ Malformed(l) THEN "failed"
  ELSE IF l.key = "READY" THEN "ready" ELSE "reading"

(* What parseStdout makes of one more line: read on, accept or fail.       *)
Verdict(r, l) ==
  CASE l.key = "TooLong"                 -> "failed"
    [] Malformed(l)                      -> "failed"
    [] l.key = "READY" /\ Complete(r)    -> "ready"
    [] l.key = "READY" /\ ~Complete(r)   -> "failed"
    [] OTHER                             -> "reading"
-----------------------------------------------------------------------------
(* The contract's reading of the same lines, without going through them in *)
(* order: an announcement is the last value given before READY.  "Any other *)
(* stdout lines are ignored" (HARNESS_CONTRACT.md), however long they are. *)

Said(lines, k, p) == {i \in 1..(p - 1) : lines[i].key = k}

Latest(lines, k, p, v) ==
  \/ Said(lines, k, p) = {} /\ v = 0
  \/ \E i \in Said(lines, k, p) :
       v = lines[i].value /\ \A j \in Said(lines, k, p) : j <= i

(* The first READY is at p, every announcement before it is a number, and  *)
(* what has been announced is complete for the declared version.           *)
AnnouncedAt(lines, p) ==
  /\ lines[p].key = "READY"
  /\ \A i \in 1..(p - 1) : lines[i].key # "READY" /\ ~Malformed(lines[i])
  /\ \E r \in [Fields -> {0} \cup {lines[i].value : i \in 1..(p - 1)}] :
       Complete(r) /\ \A k \in Fields : Latest(lines, k, p, r[k])

Announced(lines) == \E p \in 1..Len(lines) : AnnouncedAt(lines, p)

(* One of the first n lines is one that the code does not ignore.          *)
Overlong(lines, n) == \E i \in 1..n : lines[i].key = "TooLong"
=============================================================================
