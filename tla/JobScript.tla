----------------------------- MODULE JobScript -----------------------------
(***************************************************************************)
(* gpu_queue/jobscript.py: the #GQ directives of a job script, and sizes.  *)
(*                                                                         *)
(* A script is a sequence of lines: blank, a comment (`#GQ' with nothing   *)
(* behind it is one, too), a directive with the key=value pairs found on   *)
(* it, in their order and with the keys in lower case, or body.  A text    *)
(* is a decimal number and the word that follows it; a word alone is       *)
(* [number |-> 0, unit |-> the word].                                      *)
(***************************************************************************)
EXTENDS Integers, SequencesExt

KNOWN_KEYS == {"gpus", "name", "workdir", "vram"}

GiBUnits == {"g", "gib", "gb"}
MiBUnits == {"m", "mib", "mb", ""}

ParsesAsSize_Zero(text) == text.number >= 0 /\ text.unit \in GiBUnits \cup MiBUnits

\* parse_size: when it raises nothing, ...
ParsesAsSize(text) == text.number > 0 /\ text.unit \in GiBUnits \cup MiBUnits

\* ... and what it returns.
Mebibytes(text) == IF text.unit \in GiBUnits THEN 1024 * text.number ELSE text.number

-----------------------------------------------------------------------------
WellFormed(pairs) == pairs # <<>> /\ \A i \in DOMAIN pairs : pairs[i].key \in KNOWN_KEYS

\* out[key] = value: a later value replaces an earlier one.
Assign(out, pair) ==
    [key \in DOMAIN out \cup {pair.key} |-> IF key = pair.key THEN pair.value ELSE out[key]]

\* `out' with the pairs of one more line.
Set(out, pairs) == FoldLeft(Assign, out, pairs)

Scan_PastBody(p, line) ==
    IF p.over \/ line.kind # "directive" THEN p
    ELSE IF WellFormed(line.pairs) THEN [p EXCEPT !.out = Set(@, line.pairs)]
    ELSE [p EXCEPT !.over = TRUE, !.failed = TRUE]

\* One turn of the loop over the lines.
Scan(p, line) ==
    IF p.over \/ line.kind \in {"blank", "comment"} THEN p
    ELSE IF line.kind = "body" THEN [p EXCEPT !.over = TRUE]
    ELSE IF WellFormed(line.pairs) THEN [p EXCEPT !.out = Set(@, line.pairs)]
    ELSE [p EXCEPT !.over = TRUE, !.failed = TRUE]

GpusIsNatural(out) == "gpus" \in DOMAIN out => out["gpus"].unit = "" /\ out["gpus"].number >= 0

\* parse_directives: the settings, or failed for a JobScriptError.
ParseDirectives(script) ==
    LET p == FoldLeft(Scan, [over |-> FALSE, failed |-> FALSE, out |-> <<>>], script)
    IN [failed |-> p.failed \/ ~GpusIsNatural(p.out), out |-> p.out]
=============================================================================
