------------------------------ MODULE Scanner ------------------------------
(***************************************************************************)
(* What becomes of a response line on its way to the host: the cut of      *)
(* apply_size_limit and truncate_utf8 (crates/mcparmor-broker/src/proxy.rs)*)
(* and the redaction of crates/mcparmor-core/src/scanner.rs.               *)
(*                                                                         *)
(* A line is the sequence of its bytes as UTF-8 sees them: "lead" begins a *)
(* character, "cont" continues one.  In the redacted text a byte is its    *)
(* position in the line, and the label of pattern t is the tokens 0 and -t.*)
(* A detection is its pattern and a range of bytes, [start, end).          *)
(***************************************************************************)
EXTENDS Integers, SequencesExt

IsLine(s) == s = <<>> \/ s[1] = "lead"

(* is_char_boundary(b)                                                     *)
Boundary(s, b) == b \notin {0, Len(s)} => s[b + 1] = "lead"

(* truncate_utf8: the bytes that are kept, stepping back to a boundary.    *)
TruncateUtf8(s, max) ==
  IF Len(s) <= max THEN Len(s)
  ELSE LET back[b \in 0..max] == IF Boundary(s, b) THEN b ELSE back[b - 1] IN back[max]

(* apply_size_limit; a negative limit is none.                             *)
ApplySizeLimit(s, max) ==
  IF max < 0 THEN s ELSE SubSeq(s, 1, TruncateUtf8(s, max))

(* scan: the detections of one pattern after those of another.             *)
Scan(found) == FlattenSeq(found)

(* sort_by_key on the start, which is stable.                              *)
Before(detections, i, j) ==
  \/ detections[i].start < detections[j].start
  \/ detections[i].start = detections[j].start /\ i < j
ByStart(detections) ==
  CHOOSE order \in Surjection(DOMAIN detections, DOMAIN detections) :
    \A p, q \in DOMAIN detections : p < q => Before(detections, order[p], order[q])

(* Mutant: the last start decides where a merged span ends.                *)
ExtendLastEnd(spans, d) ==
  IF spans # <<>> /\ d.start <= Last(spans).end
  THEN [spans EXCEPT ![Len(spans)].end = d.end]
  ELSE Append(spans, d)

(* A detection that overlaps or touches the last span extends it, and the  *)
(* span keeps the pattern of its first detection.                          *)
Extend(spans, d) ==
  IF spans # <<>> /\ d.start <= Last(spans).end
  THEN [spans EXCEPT ![Len(spans)].end = Max({@, d.end})]
  ELSE Append(spans, d)

MergeDetections(detections) ==
  LET order == ByStart(detections)
      merged[n \in 0..Len(detections)] ==
        IF n = 0 THEN <<>> ELSE Extend(merged[n - 1], detections[order[n]])
  IN  merged[Len(detections)]

Label(type) == <<0, -type>>

(* The spans are replaced from the last to the first.                      *)
Replace(text, span) ==
  SubSeq(text, 1, span.start) \o Label(span.type) \o SubSeq(text, span.end + 1, Len(text))

Redact(text, detections) ==
  LET spans == MergeDetections(detections)
      redacted[k \in 0..Len(spans)] ==
        IF k = 0 THEN text ELSE Replace(redacted[k - 1], spans[Len(spans) + 1 - k])
  IN  redacted[Len(spans)]

(* process_response: what is forwarded, or the block of strict mode.       *)
ProcessResponse(s, found, mode) ==
  LET text == [i \in 1..Len(s) |-> i]
      detections == Scan(found)
  IN  CASE mode = "disabled" -> [verdict |-> "forward", text |-> text]
        [] mode = "redact" -> [verdict |-> "forward", text |-> Redact(text, detections)]
        [] mode = "strict" /\ detections = <<>> -> [verdict |-> "forward", text |-> text]
        [] OTHER -> [verdict |-> "block", text |-> Label(detections[1].type)]
=============================================================================
