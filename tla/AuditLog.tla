------------------------------ MODULE AuditLog ------------------------------
(***************************************************************************)
(* The audit log on disk: AuditWriter of crates/mcparmor-broker/src/       *)
(* audit_writer.rs and `mcparmor audit --prune` of broker.rs.              *)
(*                                                                         *)
(* The two forwarding tasks of a broker share one AuditWriter without a    *)
(* lock, and every broker of a user writes the same default path, so each  *)
(* system call is a step.  Names are kept apart from files: a rename moves *)
(* a name, and a writer that opened a file before goes on writing to it.   *)
(*                                                                         *)
(* A file is a sequence of chunks, an entry's text or a newline: writeln!  *)
(* on an unbuffered file is one write for each.                            *)
(***************************************************************************)
EXTENDS Naturals, SequencesExt

CONSTANTS
  Writers,       \* threads and processes that write the log
  MaxWrites,     \* bound on the entries of one writer
  MaxRotations,  \* MAX_ROTATIONS, 5 in the code
  SizeLimit,     \* audit.max_size_mb, in chunks, where it is set
  Crashes,       \* who may be killed between two steps: "writer", "pruner"
  Prunes,        \* the operator runs `audit --prune` once
  PruneTools     \* the writers whose entries pass --tool

ASSUME AuditLogAssumption ==
  /\ IsFiniteSet(Writers) /\ Writers # {}
  /\ MaxWrites \in Nat /\ MaxRotations \in Nat \ {0} /\ SizeLimit \in Nat
  /\ Prunes \in BOOLEAN /\ PruneTools \subseteq Writers
  /\ Crashes \subseteq {"writer", "pruner"}

VARIABLES
  content,   \* the files ever created, by inode
  name,      \* the inode behind each name (0 the active log, n its .n), or NoFile
  pc, slot, file, count,  \* per writer: its step, rotation index, handle, entries begun
  limited,   \* audit.max_size_mb is set
  written,   \* history: the entries whose text is in a file, in order
  done,      \* history: the entries whose write returned Ok
  raced,     \* history: a write overlapped with a rotation
  exposed,   \* history: the entries no pruner can be asked to spare: on a line with
             \* another when it comes to read them, or not finished before it reads
  prune,     \* the step of the pruner
  kept,      \* the chunks it will write
  pruneFile  \* its handle

writerVars == <<pc, slot, file, count>>
pruneVars == <<prune, kept, pruneFile>>
history == <<written, done, raced, exposed>>
vars == <<content, name, writerVars, limited, history, pruneVars>>

NoFile == 0
Slot == 0..MaxRotations
NL == <<>>
Old == <<"old", 0>>   \* an entry from before the retention period
Entry == {Old} \cup (Writers \X (1..MaxWrites))
Chunks == {NL} \cup Entry

TypeOK ==
  /\ content \in Seq(Seq(Chunks))
  /\ name \in [Slot -> 0..Len(content)]
  /\ pc \in [Writers -> {"idle", "shift", "rename", "open", "text", "newline"}]
  /\ slot \in [Writers -> Slot] /\ file \in [Writers -> 0..Len(content)]
  /\ count \in [Writers -> 0..MaxWrites]
  /\ limited \in BOOLEAN /\ raced \in BOOLEAN
  /\ written \in Seq(Entry) /\ done \subseteq Entry /\ exposed \subseteq Entry
  /\ prune \in {"idle", "read", "truncated", "done", "killed"}
  /\ kept \in Seq(Chunks) /\ pruneFile \in 0..Len(content)

Init ==
  /\ content = << <<Old, NL>> >>
  /\ name = [n \in Slot |-> IF n = 0 THEN 1 ELSE NoFile]
  /\ pc = [w \in Writers |-> "idle"] /\ slot = [w \in Writers |-> 0]
  /\ file = [w \in Writers |-> NoFile] /\ count = [w \in Writers |-> 0]
  /\ limited \in BOOLEAN
  /\ written = <<Old>> /\ done = {Old} /\ raced = FALSE /\ exposed = {}
  /\ prune = "idle" /\ kept = <<>> /\ pruneFile = NoFile

-----------------------------------------------------------------------------
(* AuditWriter::write                                                      *)

Goto(w, label) == pc' = [pc EXCEPT ![w] = label]
Exists(n) == name[n] # NoFile

(* current_file_size is 0 for a file that does not exist.                  *)
FileSize(n) == IF Exists(n) THEN Len(content[name[n]]) ELSE 0

(* Mutant: the limit is read in the wrong unit.                            *)
OverDoubleLimit == limited /\ FileSize(0) > 2 * SizeLimit
OverLimit == limited /\ FileSize(0) > SizeLimit

(* Mutant: the rotation begins one index too low.                          *)
SecondHighest == MaxRotations - 2
Highest == MaxRotations - 1

Rotating(w) == pc[w] \in {"shift", "rename"}
Overlap(w) ==
  \E v \in Writers \ {w} : Rotating(v) \/ (OverLimit /\ pc[v] # "idle")

(* rotate_if_needed: a size at the limit is not over it.                   *)
CheckSize(w) ==
  /\ pc[w] = "idle" /\ count[w] < MaxWrites
  /\ count' = [count EXCEPT ![w] = @ + 1]
  /\ IF OverLimit
       THEN Goto(w, "shift") /\ slot' = [slot EXCEPT ![w] = Highest]
       ELSE Goto(w, "open") /\ UNCHANGED slot
  /\ raced' = (raced \/ Overlap(w))
  /\ exposed' = IF prune \in {"read", "truncated"} THEN exposed \cup {<<w, count'[w]>>}
                                                  ELSE exposed
  /\ UNCHANGED <<content, name, file, limited, written, done, pruneVars>>

(* Mutant: the loop over the indexes does not end at 0.                    *)
CheckNext(w) ==
  /\ pc[w] = "shift"
  /\ IF Exists(slot[w])
       THEN Goto(w, "rename") /\ UNCHANGED slot
       ELSE slot' = [slot EXCEPT ![w] = @ - 1] /\ UNCHANGED pc
  /\ UNCHANGED <<content, name, file, count, limited, history, pruneVars>>

(* rotate_files, from the highest index down to the active log (0).        *)
CheckExists(w) ==
  /\ pc[w] = "shift"
  /\ IF Exists(slot[w])
       THEN Goto(w, "rename") /\ UNCHANGED slot
       ELSE IF slot[w] = 0
         THEN Goto(w, "open") /\ UNCHANGED slot
         ELSE slot' = [slot EXCEPT ![w] = @ - 1] /\ UNCHANGED pc
  /\ UNCHANGED <<content, name, file, count, limited, history, pruneVars>>

Rename(w) ==
  /\ pc[w] = "rename" /\ Exists(slot[w])
  /\ name' = [name EXCEPT ![slot[w] + 1] = name[slot[w]], ![slot[w]] = NoFile]
  /\ IF slot[w] = 0
       THEN Goto(w, "open") /\ UNCHANGED slot
       ELSE Goto(w, "shift") /\ slot' = [slot EXCEPT ![w] = @ - 1]
  /\ UNCHANGED <<content, file, count, limited, history, pruneVars>>

(* The name has gone since it was looked at: write returns the error, and  *)
(* the broker logs it and forgets the entry.                               *)
RenameFails(w) ==
  /\ pc[w] = "rename" /\ ~Exists(slot[w])
  /\ Goto(w, "idle")
  /\ UNCHANGED <<content, name, slot, file, count, limited, history, pruneVars>>

(* Opens for append, creating the file when the name is free.              *)
OpenActive(handle) ==
  IF Exists(0)
    THEN handle = name[0] /\ UNCHANGED name
    ELSE handle = Len(content) + 1 /\ name' = [name EXCEPT ![0] = handle]

(* How fs::write opens a file (and a mutant of the writer), and how the    *)
(* writer does.                                                            *)
OpenTruncated(handle) ==
  content' = IF handle > Len(content) THEN Append(content, <<>>)
                                      ELSE [content EXCEPT ![handle] = <<>>]
OpenToAppend(handle) ==
  content' = IF handle > Len(content) THEN Append(content, <<>>) ELSE content

OpenLog(w) ==
  /\ pc[w] = "open"
  /\ \E handle \in 1..(Len(content) + 1) :
       /\ OpenActive(handle)
       /\ OpenToAppend(handle)
       /\ file' = [file EXCEPT ![w] = handle]
  /\ Goto(w, "text")
  /\ UNCHANGED <<slot, count, limited, history, pruneVars>>

(* The line that an entry appended to a file would share, if it is not     *)
(* finished: a text without its newline.                                   *)
OpenLine(f) == IF content[f] = <<>> THEN {} ELSE {Last(content[f])} \ {NL}

WriteText(w) ==
  /\ pc[w] = "text"
  /\ content' = [content EXCEPT ![file[w]] = Append(@, <<w, count[w]>>)]
  /\ written' = Append(written, <<w, count[w]>>)
  /\ exposed' = IF prune = "idle" /\ OpenLine(file[w]) # {}
                  THEN exposed \cup OpenLine(file[w]) \cup {<<w, count[w]>>}
                  ELSE exposed
  /\ Goto(w, "newline")
  /\ UNCHANGED <<name, slot, file, count, limited, done, raced, pruneVars>>

WriteNewline(w) ==
  /\ pc[w] = "newline"
  /\ content' = [content EXCEPT ![file[w]] = Append(@, NL)]
  /\ done' = done \cup {<<w, count[w]>>}
  /\ Goto(w, "idle")
  /\ UNCHANGED <<name, slot, file, count, limited, written, raced, exposed, pruneVars>>

(* A broker is killed inside a write; another one uses the log later.      *)
Crash(w) ==
  /\ "writer" \in Crashes /\ pc[w] # "idle"
  /\ Goto(w, "idle")
  /\ UNCHANGED <<content, name, slot, file, count, limited, history, pruneVars>>

-----------------------------------------------------------------------------
(* audit --prune                                                           *)

(* Mutant: the first line of the file is passed over.                      *)
ReadableAfterFirst(chunks, i) ==
  /\ chunks[i] # NL
  /\ i > 1 /\ chunks[i - 1] = NL
  /\ i = Len(chunks) \/ chunks[i + 1] = NL

(* An entry is read back when it is a line of its own (parse_audit_row).   *)
ReadableAt(chunks, i) ==
  /\ chunks[i] # NL
  /\ i = 1 \/ chunks[i - 1] = NL
  /\ i = Len(chunks) \/ chunks[i + 1] = NL

(* row_matches_filters, with the default --since                           *)
Matches(entry) == entry # Old /\ entry[1] \in PruneTools

(* The chunks of prune_audit_log: the readable entries that match, each    *)
(* followed by a newline; a newline alone if there are none.               *)
Nth(places, k) == CHOOSE i \in places : Cardinality({j \in places : j =< i}) = k
Rewritten(chunks) ==
  LET keeps == {i \in DOMAIN chunks : ReadableAt(chunks, i) /\ Matches(chunks[i])}
  IN IF keeps = {} THEN <<NL>>
     ELSE [k \in 1..(2 * Cardinality(keeps)) |->
             IF k % 2 = 0 THEN NL ELSE chunks[Nth(keeps, (k + 1) \div 2)]]

PruneRead ==
  /\ Prunes /\ prune = "idle" /\ Exists(0)
  /\ kept' = Rewritten(content[name[0]])
  /\ exposed' = exposed \cup {<<w, count[w]>> : w \in {v \in Writers : pc[v] # "idle"}}
  /\ prune' = "read"
  /\ UNCHANGED <<content, name, writerVars, limited, written, done, raced, pruneFile>>

(* fs::write: the file is truncated when it is opened, then written.       *)
PruneTruncate ==
  /\ prune = "read"
  /\ \E handle \in 1..(Len(content) + 1) :
       /\ OpenActive(handle)
       /\ OpenTruncated(handle)
       /\ pruneFile' = handle
  /\ prune' = "truncated"
  /\ UNCHANGED <<writerVars, limited, history, kept>>

(* The pruner's handle does not append: it writes from the beginning.      *)
PruneWrite ==
  /\ prune = "truncated"
  /\ content' = [content EXCEPT ![pruneFile] = kept \o SubSeq(@, Len(kept) + 1, Len(@))]
  /\ prune' = "done"
  /\ UNCHANGED <<name, writerVars, limited, history, kept, pruneFile>>

PruneCrash ==
  /\ "pruner" \in Crashes /\ prune \in {"read", "truncated"}
  /\ prune' = "killed"
  /\ UNCHANGED <<content, name, writerVars, limited, history, kept, pruneFile>>

-----------------------------------------------------------------------------
Write(w) ==
  \/ CheckSize(w) \/ CheckExists(w) \/ Rename(w) \/ RenameFails(w)
  \/ OpenLog(w) \/ WriteText(w) \/ WriteNewline(w) \/ Crash(w)

Next ==
  \/ \E w \in Writers : Write(w)
  \/ PruneRead \/ PruneTruncate \/ PruneWrite \/ PruneCrash

Spec == Init /\ [][Next]_vars

-----------------------------------------------------------------------------
(* Properties                                                              *)

Rewrote == prune \notin {"idle", "read"}

(* The log in the order of the rotations, from the oldest file to the      *)
(* active one.                                                             *)
Places(n) == 1..FileSize(n)
Chunk(n, i) == content[name[n]][i]
Before(n, i, m, j) == m < n \/ (m = n /\ i < j)
InLog(k) == \E n \in Slot : \E i \in Places(n) : Chunk(n, i) = written[k]

AllWritten ==
  \A n \in Slot : \A i \in Places(n) :
    Chunk(n, i) # NL => \E k \in DOMAIN written : Chunk(n, i) = written[k]
InOrder ==
  \A n \in Slot : \A i \in Places(n) : \A k \in DOMAIN written : Chunk(n, i) = written[k] =>
    \A m \in Slot : \A j \in Places(m) : Before(n, i, m, j) =>
      \A l \in DOMAIN written : Chunk(m, j) = written[l] => k < l
OldestGone == \A k, l \in DOMAIN written : InLog(k) /\ k < l => InLog(l)
FullIfGone == (\E k \in DOMAIN written : ~InLog(k)) => Exists(MaxRotations)

(* Read in the order of the rotations, the log is the recent part of what  *)
(* was written, each entry once and in order: nothing is missing but the   *)
(* oldest entries, and those only once all MAX_ROTATIONS names are taken,  *)
(* also in the middle of a rotation, after a crash in it, and with writers *)
(* that race to append, as long as no write overlaps with another writer's *)
(* rotation.                                                               *)
OnlyOldestDiscarded ==
  ~raced /\ ~Rewrote => AllWritten /\ InOrder /\ OldestGone /\ FullIfGone

(* The same without the condition (rotate_files, "highest first to avoid   *)
(* overwriting"; "the oldest is discarded").                               *)
RotationNeverOverwrites == ~Rewrote => FullIfGone

(* max_size_mb bounds every file, with as many writers racing between      *)
(* their look at the size and their write as there are: each of them may   *)
(* add one line to a file that is full, until a pruner writes the log.     *)
SizeBounded ==
  limited /\ ~Rewrote => \A n \in Slot : FileSize(n) =< SizeLimit + 2 * Cardinality(Writers)

(* `audit --prune` costs no entry that it is not asked to drop: an entry   *)
(* that was finished, on a line of its own, before the pruner read the log *)
(* and that passes the filters is in some file of the log, whatever the    *)
(* rotations, the writers and the kills between the system calls of the    *)
(* pruner, unless it was rotated away.  Between the pruner's truncation    *)
(* and its write, and for ever if it is killed there, nothing is promised. *)
HalfPruned == prune \in {"truncated", "killed"} /\ pruneFile # NoFile
Found(e) == \E n \in Slot : \E i \in Places(n) : Chunk(n, i) = e
PruneSparesRest ==
  ~raced /\ ~HalfPruned =>
    \A e \in done \ exposed :
      (prune = "done" => Matches(e)) => Found(e) \/ Exists(MaxRotations)
=============================================================================
