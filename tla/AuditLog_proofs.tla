-------------------------- MODULE AuditLog_proofs --------------------------
(***************************************************************************)
(* Proofs about module AuditLog, for any number of threads and processes,  *)
(* in any order of their system calls, with crashes: max_size_mb bounds    *)
(* the files of the log; the log is the recent part of what was written,   *)
(* unless a write overlaps with a rotation; and the pruner costs no entry  *)
(* that it was not asked to drop.                                          *)
(***************************************************************************)
EXTENDS AuditLog, SequenceTheorems, FiniteSetTheorems, TLAPS

(* Until a pruner rewrites the log.                                        *)
LogType ==
  /\ content \in Seq(Seq(Chunks))
  /\ name \in [Slot -> 0..Len(content)]
  /\ pc \in [Writers -> {"idle", "shift", "rename", "open", "text", "newline"}]
  /\ slot \in [Writers -> Slot] /\ file \in [Writers -> 0..Len(content)]
  /\ count \in [Writers -> 0..MaxWrites] /\ limited \in BOOLEAN
  /\ \A w \in Writers : pc[w] # "idle" => count[w] # 0
  /\ \A w \in Writers : pc[w] \in {"shift", "rename"} => slot[w] =< Highest
  /\ \A w \in Writers : pc[w] \in {"text", "newline"} => file[w] # NoFile

(* Who will still add a newline to a file without looking at its size, and *)
(* who a text before it.  A writer that is to open the log counts for the  *)
(* file that is the active log now.                                        *)
Opening(f) == {w \in Writers : pc[w] = "open" /\ name[0] = f}
TextDue(f) == Opening(f) \cup {w \in Writers : pc[w] = "text" /\ file[w] = f}
NewlineDue(f) == TextDue(f) \cup {w \in Writers : pc[w] = "newline" /\ file[w] = f}

Cap == SizeLimit + 2 * Cardinality(Writers)
Fits(f) == Len(content[f]) + Cardinality(TextDue(f)) + Cardinality(NewlineDue(f)) =< Cap

RoomLeft == limited => \A f \in DOMAIN content : Fits(f)

(* A file that is full is never the active log again once it was renamed,  *)
(* so whoever looks at the size of the log after that does not write to    *)
(* it: what is due to a file only shrinks, or is due to one within limits. *)
RoomInv == Rewrote \/ (LogType /\ RoomLeft)

LEMMA DueCounts ==
  ASSUME NEW f
  PROVE  /\ IsFiniteSet(TextDue(f)) /\ IsFiniteSet(NewlineDue(f))
         /\ Cardinality(TextDue(f)) \in 0..Cardinality(Writers)
         /\ Cardinality(NewlineDue(f)) \in 0..Cardinality(Writers)
         /\ Cardinality(Writers) \in Nat
<1>1. TextDue(f) \in SUBSET Writers /\ NewlineDue(f) \in SUBSET Writers
  BY DEF TextDue, NewlineDue, Opening
<1>2. /\ IsFiniteSet(TextDue(f)) /\ Cardinality(TextDue(f)) =< Cardinality(Writers)
      /\ IsFiniteSet(NewlineDue(f)) /\ Cardinality(NewlineDue(f)) =< Cardinality(Writers)
  BY <1>1, FS_Subset, AuditLogAssumption
<1>3. /\ Cardinality(TextDue(f)) \in Nat /\ Cardinality(NewlineDue(f)) \in Nat
      /\ Cardinality(Writers) \in Nat
  BY <1>2, FS_CardinalityType, AuditLogAssumption
<1> QED BY <1>2, <1>3

(* A file within the limit has room for a line of everyone.                *)
LEMMA RoomForAll ==
  ASSUME LogType', NEW f \in (DOMAIN content)', Len(content'[f]) =< SizeLimit
  PROVE  Fits(f)'
<1>1. Len(content'[f]) \in Nat
  BY DEF LogType
<1>2. /\ TextDue(f)' \in SUBSET Writers /\ NewlineDue(f)' \in SUBSET Writers
  BY DEF TextDue, NewlineDue, Opening
<1>3. /\ IsFiniteSet(TextDue(f)') /\ Cardinality(TextDue(f)') =< Cardinality(Writers)
      /\ IsFiniteSet(NewlineDue(f)') /\ Cardinality(NewlineDue(f)') =< Cardinality(Writers)
  BY <1>2, FS_Subset, AuditLogAssumption
<1>4. /\ Cardinality(TextDue(f)') \in Nat /\ Cardinality(NewlineDue(f)') \in Nat
      /\ Cardinality(Writers) \in Nat
  BY <1>3, FS_CardinalityType, AuditLogAssumption
<1> QED BY <1>1, <1>3, <1>4, AuditLogAssumption DEF Fits, Cap

(* A file that is left alone, and for which no one is newly due.           *)
LEMMA StillFits ==
  ASSUME LogType, NEW f \in DOMAIN content, Fits(f),
         f \in DOMAIN content', content'[f] = content[f],
         TextDue(f)' \subseteq TextDue(f), NewlineDue(f)' \subseteq NewlineDue(f)
  PROVE  Fits(f)'
<1>1. Len(content[f]) \in Nat
  BY DEF LogType
<1>2. /\ Cardinality(TextDue(f)') =< Cardinality(TextDue(f))
      /\ Cardinality(NewlineDue(f)') =< Cardinality(NewlineDue(f))
  BY DueCounts, FS_Subset
<1>3. Cardinality(TextDue(f)') \in Nat /\ Cardinality(NewlineDue(f)') \in Nat
  BY DueCounts, FS_Subset, FS_CardinalityType
<1> QED BY <1>1, <1>2, <1>3, DueCounts, AuditLogAssumption DEF Fits, Cap

-----------------------------------------------------------------------------
(* The types.                                                              *)

LEMMA OpenType ==
  ASSUME LogType, NEW w \in Writers, OpenLog(w)
  PROVE  LogType'
<1>1. PICK handle \in 1..(Len(content) + 1) :
        /\ OpenActive(handle) /\ OpenToAppend(handle)
        /\ file' = [file EXCEPT ![w] = handle]
  BY DEF OpenLog
<1>2. content' \in Seq(Seq(Chunks)) /\ Len(content) =< Len(content') /\ handle =< Len(content')
  BY <1>1 DEF LogType, OpenToAppend
<1>3. /\ Len(content) \in Nat /\ Len(content') \in Nat
  BY <1>2 DEF LogType
<1>4. name' \in [Slot -> 0..Len(content')]
  <2>1. 0 \in Slot
    BY AuditLogAssumption DEF Slot
  <2>2. CASE Exists(0)
    BY <1>1, <1>3, <1>2, <2>2 DEF LogType, OpenActive
  <2>3. CASE ~Exists(0)
    <3>1. name' = [name EXCEPT ![0] = handle] /\ handle \in 0..Len(content')
      BY <1>1, <1>2, <1>3, <2>3 DEF OpenActive
    <3> QED BY <1>2, <1>3, <2>1, <3>1 DEF LogType
  <2> QED BY <2>2, <2>3
<1>5. file' \in [Writers -> 0..Len(content')]
  BY <1>1, <1>2, <1>3 DEF LogType
<1> QED BY <1>1, <1>2, <1>4, <1>5 DEF LogType, OpenLog, Goto, NoFile

LEMMA LogTypeNext ==
  ASSUME LogType, NEW w \in Writers, Write(w)
  PROVE  LogType'
<1>0. /\ Highest \in Nat /\ Highest + 1 \in Slot /\ 0 \in Slot /\ Highest \in Slot
      /\ Slot = 0..MaxRotations /\ MaxRotations \in Nat /\ Highest = MaxRotations - 1
  BY AuditLogAssumption DEF Highest, Slot
<1>1. CASE CheckSize(w)
  <2>1. count' \in [Writers -> 0..MaxWrites] /\ count'[w] # 0
        /\ \A v \in Writers \ {w} : count'[v] = count[v]
    BY <1>1, AuditLogAssumption DEF LogType, CheckSize
  <2>2. CASE OverLimit
    <3>1. pc' = [pc EXCEPT ![w] = "shift"] /\ slot' = [slot EXCEPT ![w] = Highest]
      BY <1>1, <2>2 DEF CheckSize, Goto
    <3>2. /\ slot' \in [Writers -> Slot] /\ pc' \in [Writers -> {"idle", "shift", "rename", "open", "text", "newline"}]
          /\ \A v \in Writers : pc'[v] \in {"shift", "rename"} => slot'[v] =< Highest
      BY <1>0, <3>1 DEF LogType
    <3>3. /\ \A v \in Writers : pc'[v] # "idle" => count'[v] # 0
          /\ \A v \in Writers : pc'[v] \in {"text", "newline"} => file[v] # NoFile
      BY <2>1, <3>1 DEF LogType
    <3> QED BY <1>1, <2>1, <3>2, <3>3 DEF LogType, CheckSize
  <2>3. CASE ~OverLimit
    <3>1. pc' = [pc EXCEPT ![w] = "open"] /\ slot' = slot
      BY <1>1, <2>3 DEF CheckSize, Goto
    <3> QED BY <1>1, <2>1, <3>1 DEF LogType, CheckSize
  <2> QED BY <2>2, <2>3
<1>2. CASE CheckExists(w)
  <2>1. slot[w] \in 0..Highest
    BY <1>0, <1>2 DEF LogType, CheckExists
  <2>2. CASE Exists(slot[w])
    <3>1. pc' = [pc EXCEPT ![w] = "rename"] /\ slot' = slot
      BY <1>2, <2>2 DEF CheckExists, Goto
    <3> QED BY <1>2, <2>1, <3>1 DEF LogType, CheckExists
  <2>3. CASE ~Exists(slot[w]) /\ slot[w] = 0
    <3>1. pc' = [pc EXCEPT ![w] = "open"] /\ slot' = slot
      BY <1>2, <2>3 DEF CheckExists, Goto
    <3> QED BY <1>2, <3>1 DEF LogType, CheckExists
  <2>4. CASE ~Exists(slot[w]) /\ slot[w] # 0
    <3>1. pc' = pc /\ slot' = [slot EXCEPT ![w] = slot[w] - 1]
      BY <1>2, <2>4 DEF CheckExists
    <3>2. slot[w] - 1 \in Slot /\ slot[w] - 1 =< Highest
      BY <1>0, <2>1, <2>4
    <3> QED BY <1>2, <3>1, <3>2 DEF LogType, CheckExists
  <2> QED BY <2>2, <2>3, <2>4
<1>3. CASE Rename(w)
  <2>1. slot[w] \in 0..Highest
    BY <1>0, <1>3 DEF LogType, Rename
  <2>2. slot[w] + 1 \in Slot /\ slot[w] \in Slot
    BY <1>0, <2>1
  <2>3. name' \in [Slot -> 0..Len(content)] /\ content' = content
    <3>1. name' = [name EXCEPT ![slot[w] + 1] = name[slot[w]], ![slot[w]] = NoFile]
          /\ name[slot[w]] \in 0..Len(content) /\ NoFile \in 0..Len(content)
      BY <1>3, <2>2 DEF LogType, Rename, NoFile
    <3> QED BY <1>3, <2>2, <3>1 DEF LogType, Rename
  <2>4. /\ slot' \in [Writers -> Slot]
        /\ \A v \in Writers : pc'[v] \in {"shift", "rename"} => slot'[v] =< Highest
    <3>1. CASE slot[w] = 0
      <4>1. pc' = [pc EXCEPT ![w] = "open"] /\ slot' = slot
        BY <1>3, <3>1 DEF Rename, Goto
      <4> QED BY <1>3, <4>1 DEF LogType, Rename
    <3>2. CASE slot[w] # 0
      <4>1. pc' = [pc EXCEPT ![w] = "shift"] /\ slot' = [slot EXCEPT ![w] = slot[w] - 1]
        BY <1>3, <3>2 DEF Rename, Goto
      <4>2. slot[w] - 1 \in Slot /\ slot[w] - 1 =< Highest
        BY <1>0, <2>1, <3>2
      <4> QED BY <1>3, <4>1, <4>2 DEF LogType
    <3> QED BY <3>1, <3>2
  <2> QED BY <1>3, <2>3, <2>4 DEF LogType, Rename, Goto
<1>4. CASE RenameFails(w)
  BY <1>4 DEF LogType, RenameFails, Goto
<1>5. CASE OpenLog(w)
  BY <1>5, OpenType
<1>6. CASE WriteText(w)
  <2>1. content[file[w]] \in Seq(Chunks) /\ file[w] \in DOMAIN content
    BY <1>6 DEF LogType, WriteText, NoFile
  <2>2. <<w, count[w]>> \in Chunks
    BY <1>6, AuditLogAssumption DEF LogType, WriteText, Chunks, Entry
  <2>3. content' \in Seq(Seq(Chunks)) /\ Len(content') = Len(content)
    BY <1>6, <2>1, <2>2 DEF LogType, WriteText
  <2> QED BY <1>6, <2>3 DEF LogType, WriteText, Goto
<1>7. CASE WriteNewline(w)
  <2>1. content[file[w]] \in Seq(Chunks) /\ file[w] \in DOMAIN content
    BY <1>7 DEF LogType, WriteNewline, NoFile
  <2>2. content' \in Seq(Seq(Chunks)) /\ Len(content') = Len(content)
    BY <1>7, <2>1 DEF LogType, WriteNewline, Chunks
  <2> QED BY <1>7, <2>2 DEF LogType, WriteNewline, Goto
<1>8. CASE Crash(w)
  BY <1>8 DEF LogType, Crash, Goto
<1> QED BY <1>1, <1>2, <1>3, <1>4, <1>5, <1>6, <1>7, <1>8 DEF Write
-----------------------------------------------------------------------------
(* The room.                                                               *)

LEMMA SizeChecked ==
  ASSUME LogType, LogType', RoomLeft, NEW w \in Writers, CheckSize(w)
  PROVE  RoomLeft'
<1>1. ASSUME limited, NEW f \in DOMAIN content
      PROVE  Fits(f)'
  <2>1. CASE OverLimit \/ name[0] # f
    <3>1. TextDue(f)' \subseteq TextDue(f) /\ NewlineDue(f)' \subseteq NewlineDue(f)
      <4>1. pc[w] = "idle" /\ pc' = [pc EXCEPT ![w] = IF OverLimit THEN "shift" ELSE "open"]
            /\ name' = name /\ file' = file
        BY DEF CheckSize, Goto
      <4>2. CASE OverLimit
        BY <4>1, <4>2 DEF TextDue, NewlineDue, Opening, LogType
      <4>3. CASE ~OverLimit
        BY <2>1, <4>1, <4>3 DEF TextDue, NewlineDue, Opening, LogType
      <4> QED BY <4>2, <4>3
    <3> QED BY <3>1, <1>1, StillFits DEF CheckSize, RoomLeft
  <2>2. CASE ~OverLimit /\ name[0] = f
    <3>1. Len(content[f]) \in Nat /\ ~(Len(content[f]) > SizeLimit) /\ f # 0
      BY <2>2, <1>1 DEF OverLimit, FileSize, Exists, NoFile, LogType
    <3>2. Len(content'[f]) =< SizeLimit /\ f \in DOMAIN content'
      BY <3>1, AuditLogAssumption DEF CheckSize
    <3> QED BY <3>2, RoomForAll
  <2> QED BY <2>1, <2>2
<1> QED BY <1>1 DEF CheckSize, RoomLeft

(* A rotation takes the name of the active log away before it opens one.   *)
LEMMA Rotated ==
  ASSUME LogType, LogType', RoomLeft, NEW w \in Writers,
         CheckExists(w) \/ Rename(w) \/ RenameFails(w) \/ Crash(w)
  PROVE  RoomLeft'
<1>1. 0 \in Slot /\ Slot = 0..MaxRotations /\ MaxRotations \in Nat
  BY AuditLogAssumption DEF Slot
<1>2. ASSUME NEW f \in DOMAIN content
      PROVE  TextDue(f)' \subseteq TextDue(f) /\ NewlineDue(f)' \subseteq NewlineDue(f)
  <2>0. f # NoFile
    BY <1>2 DEF LogType, NoFile
  <2>1. CASE CheckExists(w)
    <3>1. name' = name /\ file' = file /\ pc[w] = "shift"
          /\ (pc' = [pc EXCEPT ![w] = "rename"] \/ pc' = pc
              \/ (~Exists(0) /\ pc' = [pc EXCEPT ![w] = "open"]))
      BY <2>1 DEF CheckExists, Goto
    <3>2. CASE pc' = [pc EXCEPT ![w] = "rename"] \/ pc' = pc
      BY <3>1, <3>2 DEF TextDue, NewlineDue, Opening, LogType
    <3>3. CASE ~Exists(0) /\ pc' = [pc EXCEPT ![w] = "open"]
      BY <2>0, <3>1, <3>3 DEF TextDue, NewlineDue, Opening, LogType, Exists
    <3> QED BY <3>1, <3>2, <3>3
  <2>2. CASE Rename(w)
    <3>1. slot[w] \in Nat /\ slot[w] + 1 # 0
      BY <1>1 DEF LogType
    <3>2. CASE slot[w] = 0
      <4>1. name'[0] = NoFile /\ pc' = [pc EXCEPT ![w] = "open"] /\ file' = file
        BY <1>1, <2>2, <3>1, <3>2 DEF Rename, Goto, LogType
      <4> QED BY <2>0, <2>2, <4>1 DEF TextDue, NewlineDue, Opening, LogType, Rename
    <3>3. CASE slot[w] # 0
      <4>1. name'[0] = name[0] /\ pc' = [pc EXCEPT ![w] = "shift"] /\ file' = file
        BY <1>1, <2>2, <3>1, <3>3 DEF Rename, Goto, LogType
      <4> QED BY <4>1 DEF TextDue, NewlineDue, Opening, LogType
    <3> QED BY <3>2, <3>3
  <2>3. CASE RenameFails(w) \/ Crash(w)
    BY <2>3 DEF TextDue, NewlineDue, Opening, RenameFails, Crash, Goto, LogType
  <2> QED BY <2>1, <2>2, <2>3
<1>3. content' = content /\ limited' = limited
  BY DEF CheckExists, Rename, RenameFails, Crash
<1> QED BY <1>2, <1>3, StillFits DEF RoomLeft

(* The writer is due to the file it opened, as it was before.              *)
LEMMA Opened ==
  ASSUME LogType, LogType', RoomLeft, NEW w \in Writers, OpenLog(w)
  PROVE  RoomLeft'
<1>1. PICK handle \in 1..(Len(content) + 1) :
        /\ OpenActive(handle) /\ OpenToAppend(handle)
        /\ file' = [file EXCEPT ![w] = handle]
  BY DEF OpenLog
<1>2. pc[w] = "open" /\ pc' = [pc EXCEPT ![w] = "text"] /\ limited' = limited
  BY DEF OpenLog, Goto
<1>3. 0 \in Slot /\ name[0] \in 0..Len(content) /\ Len(content) \in Nat
  BY AuditLogAssumption DEF Slot, LogType
<1>4. CASE Exists(0)
  <2>1. handle = name[0] /\ name' = name /\ content' = content
    BY <1>1, <1>3, <1>4 DEF OpenActive, OpenToAppend
  <2>2. ASSUME NEW f \in DOMAIN content
        PROVE  TextDue(f)' \subseteq TextDue(f) /\ NewlineDue(f)' \subseteq NewlineDue(f)
    BY <1>1, <1>2, <2>1 DEF TextDue, NewlineDue, Opening, LogType
  <2> QED BY <1>2, <2>1, <2>2, StillFits DEF RoomLeft
<1>5. CASE ~Exists(0)
  <2>1. handle = Len(content) + 1 /\ name' = [name EXCEPT ![0] = handle]
        /\ content' = Append(content, <<>>) /\ name[0] = 0
    BY <1>1, <1>3, <1>5 DEF OpenActive, OpenToAppend, Exists, NoFile
  <2>2. name'[0] = handle
    BY <1>3, <2>1 DEF LogType
  <2>3. DOMAIN content' = DOMAIN content \cup {handle}
    BY <2>1 DEF LogType
  <2>4. ASSUME NEW f \in DOMAIN content
        PROVE  /\ content'[f] = content[f]
               /\ TextDue(f)' \subseteq TextDue(f) /\ NewlineDue(f)' \subseteq NewlineDue(f)
    <3>1. f # handle /\ f # 0 /\ content'[f] = content[f]
      BY <2>1, <2>4 DEF LogType
    <3> QED BY <1>1, <1>2, <2>2, <3>1 DEF TextDue, NewlineDue, Opening, LogType
  <2>5. ASSUME limited, NEW f \in DOMAIN content PROVE Fits(f)'
    BY <2>3, <2>4, <2>5, StillFits DEF RoomLeft
  <2>6. Fits(handle)'
    <3>1. Len(content'[handle]) =< SizeLimit
      BY <2>1, AuditLogAssumption DEF LogType
    <3> QED BY <2>3, <3>1, RoomForAll
  <2> QED BY <1>2, <2>3, <2>5, <2>6 DEF RoomLeft
<1> QED BY <1>4, <1>5

(* A chunk more in a file, and one less due to it.                         *)
LEMMA Wrote ==
  ASSUME LogType, LogType', RoomLeft, NEW w \in Writers, WriteText(w) \/ WriteNewline(w)
  PROVE  RoomLeft'
<1>1. /\ file[w] \in DOMAIN content /\ DOMAIN content' = DOMAIN content
      /\ Len(content[file[w]]) \in Nat /\ Len(content'[file[w]]) = Len(content[file[w]]) + 1
      /\ \A f \in DOMAIN content \ {file[w]} : content'[f] = content[f]
  BY DEF LogType, WriteText, WriteNewline, NoFile, Chunks
<1>2. /\ limited' = limited /\ file' = file /\ name' = name
  BY DEF WriteText, WriteNewline
<1>3. ASSUME NEW f \in DOMAIN content
      PROVE  /\ TextDue(f)' \subseteq TextDue(f) /\ NewlineDue(f)' \subseteq NewlineDue(f)
  BY <1>2 DEF TextDue, NewlineDue, Opening, WriteText, WriteNewline, Goto, LogType
<1>4. ASSUME NEW f \in DOMAIN content, f = file[w], Fits(f)
      PROVE  Fits(f)'
  <2>1. /\ Cardinality(TextDue(f)) \in Nat /\ Cardinality(NewlineDue(f)) \in Nat
        /\ Len(content[f]) \in Nat /\ Cap \in Nat
    <3>1. /\ Cardinality(TextDue(f)) \in Nat /\ Cardinality(NewlineDue(f)) \in Nat
          /\ Cardinality(Writers) \in Nat
      BY DueCounts
    <3>2. Len(content[f]) \in Nat
      BY <1>1, <1>4
    <3>3. Cap \in Nat
      BY <3>1, AuditLogAssumption DEF Cap
    <3> QED BY <3>1, <3>2, <3>3
  <2>2. /\ Len(content[f]) + Cardinality(TextDue(f)) + Cardinality(NewlineDue(f)) =< Cap
        /\ Fits(f)' <=> Len(content[f]) + 1 + Cardinality(TextDue(f)') + Cardinality(NewlineDue(f)') =< Cap
    BY <1>1, <1>4 DEF Fits, Cap
  <2>3. CASE WriteText(w)
    <3>1. w \in TextDue(f) /\ TextDue(f)' \subseteq TextDue(f) \ {w}
      BY <2>3, <1>2, <1>4 DEF TextDue, Opening, WriteText, Goto, LogType
    <3>2. /\ Cardinality(TextDue(f)') =< Cardinality(TextDue(f)) - 1
          /\ Cardinality(TextDue(f)') \in Nat
      BY <3>1, DueCounts, FS_RemoveElement, FS_Subset, FS_CardinalityType
    <3>3. /\ Cardinality(NewlineDue(f)') =< Cardinality(NewlineDue(f))
          /\ Cardinality(NewlineDue(f)') \in Nat
      BY <1>1, <1>3, DueCounts, FS_Subset, FS_CardinalityType
    <3> QED BY <2>1, <2>2, <3>2, <3>3
  <2>4. CASE WriteNewline(w)
    <3>1. w \in NewlineDue(f) /\ NewlineDue(f)' \subseteq NewlineDue(f) \ {w}
      BY <2>4, <1>2, <1>4 DEF NewlineDue, TextDue, Opening, WriteNewline, Goto, LogType
    <3>2. /\ Cardinality(NewlineDue(f)') =< Cardinality(NewlineDue(f)) - 1
          /\ Cardinality(NewlineDue(f)') \in Nat
      BY <3>1, DueCounts, FS_RemoveElement, FS_Subset, FS_CardinalityType
    <3>3. /\ Cardinality(TextDue(f)') =< Cardinality(TextDue(f))
          /\ Cardinality(TextDue(f)') \in Nat
      BY <1>1, <1>3, DueCounts, FS_Subset, FS_CardinalityType
    <3> QED BY <2>1, <2>2, <3>2, <3>3
  <2> QED BY <2>3, <2>4
<1> QED BY <1>1, <1>2, <1>3, <1>4, StillFits DEF RoomLeft

LEMMA RoomNext ==
  ASSUME RoomInv, [Next]_vars
  PROVE  RoomInv'
<1>1. CASE Rewrote
  BY <1>1 DEF RoomInv, Rewrote, Next, Write, CheckSize, CheckExists, Rename, RenameFails, OpenLog,
              WriteText, WriteNewline, Crash, PruneRead, PruneTruncate, PruneWrite, PruneCrash,
              pruneVars, vars
<1>2. CASE LogType /\ RoomLeft
  <2>1. ASSUME NEW w \in Writers, Write(w) PROVE RoomInv'
    <3>1. LogType'
      BY <1>2, <2>1, LogTypeNext
    <3>2. RoomLeft'
      BY <1>2, <2>1, <3>1, SizeChecked, Rotated, Opened, Wrote DEF Write
    <3> QED BY <3>1, <3>2 DEF RoomInv
  <2>2. CASE PruneRead \/ UNCHANGED vars
    <3>1. UNCHANGED <<content, name, pc, slot, file, count, limited>>
      BY <2>2 DEF PruneRead, vars, writerVars
    <3>2. LogType'
      BY <1>2, <3>1 DEF LogType
    <3>3. \A f : TextDue(f)' = TextDue(f) /\ NewlineDue(f)' = NewlineDue(f)
      BY <3>1 DEF TextDue, NewlineDue, Opening
    <3>4. RoomLeft'
      BY <1>2, <3>1, <3>3, StillFits DEF RoomLeft
    <3> QED BY <3>2, <3>4 DEF RoomInv
  <2>3. CASE PruneTruncate \/ PruneWrite \/ PruneCrash
    BY <2>3 DEF RoomInv, Rewrote, PruneTruncate, PruneWrite, PruneCrash
  <2> QED BY <2>1, <2>2, <2>3 DEF Next
<1> QED BY <1>1, <1>2 DEF RoomInv

(* Any number of brokers and threads, killed or not, exceed max_size_mb    *)
(* together by no more than a line each (AuditWriter::write, rotate_files).*)
THEOREM SizeCorrect == Spec => []SizeBounded
<1>1. Init => RoomInv
  <2> SUFFICES ASSUME Init PROVE RoomInv
    OBVIOUS
  <2>1. LogType
    BY AuditLogAssumption DEF Init, LogType, Chunks, Entry, Slot, NoFile
  <2>2. \A f : TextDue(f) = {} /\ NewlineDue(f) = {}
    BY DEF Init, TextDue, NewlineDue, Opening
  <2>3. Cardinality(Writers) \in Nat \ {0}
    BY AuditLogAssumption, FS_CardinalityType, FS_EmptySet
  <2>4. DOMAIN content = {1} /\ Len(content[1]) = 2
    BY DEF Init
  <2>5. Fits(1)
    BY <2>2, <2>3, <2>4, FS_EmptySet, AuditLogAssumption DEF Fits, Cap
  <2> QED BY <2>1, <2>4, <2>5 DEF RoomInv, RoomLeft
<1>2. RoomInv => SizeBounded
  <2> SUFFICES ASSUME RoomInv, limited, ~Rewrote, NEW n \in Slot
               PROVE  FileSize(n) =< SizeLimit + 2 * Cardinality(Writers)
    BY DEF SizeBounded
  <2>1. Cardinality(Writers) \in Nat /\ SizeLimit \in Nat
    BY DueCounts, AuditLogAssumption
  <2>2. CASE Exists(n)
    <3>1. name[n] \in DOMAIN content /\ Len(content[name[n]]) \in Nat /\ Fits(name[n])
      BY <2>2 DEF RoomInv, RoomLeft, LogType, Exists, NoFile
    <3> QED BY <2>1, <2>2, <3>1, DueCounts DEF FileSize, Fits, Cap
  <2>3. CASE ~Exists(n)
    BY <2>1, <2>3 DEF FileSize
  <2> QED BY <2>2, <2>3
<1> QED BY <1>1, <1>2, RoomNext, PTL DEF Spec

-----------------------------------------------------------------------------
(* The pruner.                                                             *)

(* The rank of an element tells it from the others: the n-th is unique.    *)
LEMMA NthIs ==
  ASSUME NEW places \in SUBSET Nat, IsFiniteSet(places), NEW i \in places
  PROVE  Nth(places, Cardinality({j \in places : j =< i})) = i
<1> DEFINE Upto(k) == {j \in places : j =< k}
<1>1. ASSUME NEW a \in places, NEW b \in places, a < b
      PROVE  Cardinality(Upto(a)) # Cardinality(Upto(b))
  <2>0. a \in Nat /\ b \in Nat /\ \A j \in Nat : j =< a => j =< b
    BY <1>1
  <2>1. Upto(b) \in SUBSET places /\ Upto(a) \in SUBSET Upto(b)
    BY <2>0
  <2>2. b \in Upto(b) /\ b \notin Upto(a)
    BY <1>1
  <2>3. IsFiniteSet(Upto(b))
    BY <2>1, FS_Subset
  <2> QED BY <2>1, <2>2, <2>3, FS_Subset
<1>2. \A a \in places : Cardinality(Upto(a)) = Cardinality(Upto(i)) => a = i
  <2> SUFFICES ASSUME NEW a \in places, a # i PROVE Cardinality(Upto(a)) # Cardinality(Upto(i))
    OBVIOUS
  <2>1. a < i \/ i < a
    OBVIOUS
  <2> QED BY <2>1, <1>1
<1> QED BY <1>2 DEF Nth

(* There is an element of every rank.                                      *)
LEMMA NthExists ==
  ASSUME NEW places \in SUBSET Nat, IsFiniteSet(places),
         NEW k \in 1..Cardinality(places)
  PROVE  Nth(places, k) \in places
<1> DEFINE Upto(i) == {j \in places : j =< i}
           ranks == [i \in places |-> Cardinality(Upto(i))]
<1>1. ASSUME NEW i \in places
      PROVE  Cardinality(Upto(i)) \in 1..Cardinality(places) /\ Nth(places, Cardinality(Upto(i))) = i
  <2>1. Upto(i) \in SUBSET places /\ i \in Upto(i)
    OBVIOUS
  <2>2. IsFiniteSet(Upto(i)) /\ Cardinality(Upto(i)) =< Cardinality(places)
    BY <2>1, FS_Subset
  <2>3. Cardinality(Upto(i)) \in Nat \ {0} /\ Cardinality(places) \in Nat
    BY <2>1, <2>2, FS_CardinalityType, FS_EmptySet
  <2> QED BY <2>2, <2>3, NthIs
<1>2. ranks \in Injection(places, 1..Cardinality(places))
  <2>1. ranks \in [places -> 1..Cardinality(places)]
    BY <1>1
  <2>2. \A a, b \in places : ranks[a] = ranks[b] => a = b
    BY <1>1
  <2> QED BY <2>1, <2>2 DEF Injection, IsInjective
<1>3. Cardinality(places) \in Nat
  BY FS_CardinalityType
<1>4. IsFiniteSet(1..Cardinality(places)) /\ Cardinality(1..Cardinality(places)) = Cardinality(places)
  BY <1>3, FS_Interval
<1>5. ranks \in Surjection(places, 1..Cardinality(places))
  BY <1>2, <1>4, FS_Injection
<1>6. PICK i \in places : ranks[i] = k
  BY <1>5 DEF Surjection
<1> QED BY <1>1, <1>6

Keeps(chunks) == {i \in DOMAIN chunks : ReadableAt(chunks, i) /\ Matches(chunks[i])}

LEMMA KeepsFinite ==
  ASSUME NEW chunks \in Seq(Chunks)
  PROVE  /\ Keeps(chunks) \in SUBSET Nat /\ IsFiniteSet(Keeps(chunks))
         /\ Keeps(chunks) \in SUBSET (DOMAIN chunks)
         /\ Cardinality(Keeps(chunks)) \in Nat
<1>0. DOMAIN chunks = 1..Len(chunks) /\ Len(chunks) \in Nat
  OBVIOUS
<1>1. Keeps(chunks) \in SUBSET (1..Len(chunks)) /\ Len(chunks) \in Nat
  BY <1>0 DEF Keeps
<1>2. IsFiniteSet(1..Len(chunks))
  BY <1>1, FS_Interval
<1>3. IsFiniteSet(Keeps(chunks))
  BY <1>1, <1>2, FS_Subset
<1> QED BY <1>0, <1>1, <1>3, FS_CardinalityType

LEMMA RewrittenType ==
  ASSUME NEW chunks \in Seq(Chunks)
  PROVE  Rewritten(chunks) \in Seq(Chunks)
<1> DEFINE keeps == Keeps(chunks)
           new == [k \in 1..(2 * Cardinality(keeps)) |->
                     IF k % 2 = 0 THEN NL ELSE chunks[Nth(keeps, (k + 1) \div 2)]]
<1>1. Rewritten(chunks) = IF keeps = {} THEN <<NL>> ELSE new
  BY DEF Rewritten, Keeps
<1>2. NL \in Chunks
  BY DEF Chunks
<1>3. ASSUME NEW k \in 1..(2 * Cardinality(keeps)), k % 2 # 0
      PROVE  chunks[Nth(keeps, (k + 1) \div 2)] \in Chunks
  <2>1. (k + 1) \div 2 \in 1..Cardinality(keeps)
    <3> HIDE DEF keeps
    <3>1. Cardinality(keeps) \in Nat
      BY KeepsFinite DEF keeps
    <3> DEFINE c == Cardinality(keeps)
    <3>2. c \in Nat /\ k \in 1..(2 * c)
      BY <3>1
    <3> HIDE DEF c
    <3> QED BY <3>2 DEF c
  <2>2. Nth(keeps, (k + 1) \div 2) \in DOMAIN chunks
    BY <2>1, KeepsFinite, NthExists
  <2> QED BY <2>2
<1>4. new \in [1..(2 * Cardinality(keeps)) -> Chunks]
  BY <1>2, <1>3
<1>5. new \in Seq(Chunks)
  <2>1. 2 * Cardinality(keeps) \in Nat
    BY KeepsFinite
  <2> HIDE DEF new, keeps
  <2> QED BY <1>4, <2>1
<1> QED BY <1>1, <1>2, <1>5

(* A readable entry that matches is written back, on a line of its own.    *)
LEMMA RewrittenKeeps ==
  ASSUME NEW chunks \in Seq(Chunks), NEW i \in Keeps(chunks)
  PROVE  \E k \in DOMAIN Rewritten(chunks) :
           Rewritten(chunks)[k] = chunks[i] /\ Rewritten(chunks)[k + 1] = NL
<1> DEFINE keeps == Keeps(chunks)
           rank == Cardinality({j \in keeps : j =< i})
           n == Cardinality(keeps)
           new == [k \in 1..(2 * n) |->
                     IF k % 2 = 0 THEN NL ELSE chunks[Nth(keeps, (k + 1) \div 2)]]
<1>1. Rewritten(chunks) = new
  BY DEF Rewritten, Keeps
<1>2. keeps \in SUBSET Nat /\ IsFiniteSet(keeps) /\ n \in Nat
  BY KeepsFinite
<1>3. rank \in 1..n
  <2>1. i \in {j \in keeps : j =< i} /\ {j \in keeps : j =< i} \in SUBSET keeps
    BY <1>2
  <2>2. IsFiniteSet({j \in keeps : j =< i}) /\ rank =< n
    BY <1>2, <2>1, FS_Subset
  <2>3. rank \in Nat \ {0}
    BY <2>1, <2>2, FS_CardinalityType, FS_EmptySet
  <2> QED BY <1>2, <2>2, <2>3
<1>4. Nth(keeps, rank) = i
  BY <1>2, NthIs
<1> HIDE DEF keeps, rank, n
<1>5. DEFINE k == 2 * rank - 1
<1>6. k \in 1..(2 * n) /\ k + 1 \in 1..(2 * n) /\ k % 2 # 0 /\ (k + 1) % 2 = 0
      /\ (k + 1) \div 2 = rank
  BY <1>2, <1>3
<1> HIDE DEF k
<1>7. new[k] = chunks[i] /\ new[k + 1] = NL /\ k \in DOMAIN new
  BY <1>4, <1>6
<1> QED BY <1>1, <1>7

-----------------------------------------------------------------------------
(* The types, with a pruner.                                               *)

HistoryType ==
  /\ raced \in BOOLEAN /\ written \in Seq(Entry)
  /\ done \subseteq Entry /\ exposed \subseteq Entry
  /\ prune \in {"idle", "read", "truncated", "done", "killed"}
  /\ kept \in Seq(Chunks) /\ pruneFile \in 0..Len(content)
  /\ prune = "truncated" => pruneFile # NoFile

FullType == LogType /\ HistoryType

(* The unfinished line of a file is its last chunk.                        *)
LEMMA OpenLineIs ==
  ASSUME NEW f, NEW chunks \in Seq(Chunks), content[f] = chunks
  PROVE  /\ OpenLine(f) \subseteq Entry
         /\ \A e \in Entry : (chunks # <<>> /\ chunks[Len(chunks)] = e) => e \in OpenLine(f)
         /\ OpenLine(f) = {} => chunks = <<>> \/ chunks[Len(chunks)] = NL
<1>1. CASE chunks = <<>>
  <2>1. OpenLine(f) = {}
    BY <1>1 DEF OpenLine
  <2> QED BY <1>1, <2>1
<1>2. CASE chunks # <<>>
  <2>1. Len(chunks) \in 1..Len(chunks) /\ chunks[Len(chunks)] \in Chunks
    BY <1>2
  <2>2. OpenLine(f) = {chunks[Len(chunks)]} \ {NL}
    BY <1>2 DEF OpenLine, Last
  <2>3. NL \notin Entry
    BY DEF NL, Entry, Old
  <2> QED BY <2>1, <2>2, <2>3 DEF Chunks
<1> QED BY <1>1, <1>2

(* No step takes a file away.                                              *)
LEMMA FilesGrow ==
  ASSUME FullType, [Next]_vars
  PROVE  Len(content) \in Nat /\ Len(content') \in Nat /\ Len(content) =< Len(content')
<1>0. Len(content) \in Nat
  BY DEF FullType, LogType
<1>1. ASSUME NEW w \in Writers, OpenLog(w)
      PROVE  Len(content') \in Nat /\ Len(content) =< Len(content')
  BY <1>0, <1>1 DEF OpenLog, OpenToAppend, FullType, LogType
<1>2. ASSUME PruneTruncate
      PROVE  Len(content') \in Nat /\ Len(content) =< Len(content')
  BY <1>0, <1>2 DEF PruneTruncate, OpenTruncated, FullType, LogType
<1>3. ASSUME NEW w \in Writers, WriteText(w) \/ WriteNewline(w)
      PROVE  Len(content') = Len(content)
  BY <1>3 DEF WriteText, WriteNewline, FullType, LogType
<1>4. ASSUME PruneWrite
      PROVE  Len(content') = Len(content)
  BY <1>4 DEF PruneWrite, FullType, LogType
<1>5. ASSUME NEW w \in Writers, CheckSize(w) \/ CheckExists(w) \/ Rename(w) \/ RenameFails(w) \/ Crash(w)
      PROVE  content' = content
  BY <1>5 DEF CheckSize, CheckExists, Rename, RenameFails, Crash
<1>6. ASSUME PruneRead \/ PruneCrash \/ UNCHANGED vars
      PROVE  content' = content
  BY <1>6 DEF PruneRead, PruneCrash, vars
<1> QED BY <1>0, <1>1, <1>2, <1>3, <1>4, <1>5, <1>6 DEF Next, Write

LEMMA HistoryTypeNext ==
  ASSUME FullType, [Next]_vars
  PROVE  HistoryType'
<1>0. /\ Len(content) \in Nat /\ Len(content') \in Nat /\ Len(content) =< Len(content')
      /\ 0..Len(content) \subseteq 0..Len(content')
  BY FilesGrow
<1>1. ASSUME NEW w \in Writers, CheckSize(w) \/ CheckExists(w) \/ Rename(w) \/ RenameFails(w)
                                \/ OpenLog(w) \/ Crash(w)
      PROVE  HistoryType'
  <2>1. /\ UNCHANGED <<written, done, pruneVars>>
        /\ raced' \in BOOLEAN
    BY <1>1 DEF CheckSize, CheckExists, Rename, RenameFails, OpenLog, Crash, Overlap, OverLimit,
                history, FullType, HistoryType
  <2>2. exposed' \subseteq Entry
    <3>1. CASE CheckSize(w)
      <4>1. <<w, count'[w]>> \in Entry
        BY <3>1, AuditLogAssumption DEF CheckSize, FullType, LogType, Entry
      <4> QED BY <3>1, <4>1 DEF CheckSize, FullType, HistoryType
    <3>2. CASE ~CheckSize(w)
      BY <1>1, <3>2 DEF CheckExists, Rename, RenameFails, OpenLog, Crash, history,
                        FullType, HistoryType
    <3> QED BY <3>1, <3>2
  <2> QED BY <1>0, <2>1, <2>2 DEF FullType, HistoryType, pruneVars
<1>2. ASSUME NEW w \in Writers, WriteText(w) \/ WriteNewline(w)
      PROVE  HistoryType'
  <2>1. <<w, count[w]>> \in Entry
    BY <1>2, AuditLogAssumption DEF FullType, LogType, WriteText, WriteNewline, Entry
  <2>2. /\ written' \in Seq(Entry) /\ done' \subseteq Entry /\ exposed' \subseteq Entry
        /\ raced' = raced /\ pruneVars' = pruneVars
    <3>1. written \in Seq(Entry) /\ done \subseteq Entry /\ exposed \subseteq Entry
      BY DEF FullType, HistoryType
    <3>2. CASE WriteText(w)
      <4>1. content[file[w]] \in Seq(Chunks)
        BY <3>2 DEF FullType, LogType, WriteText, NoFile
      <4>2. OpenLine(file[w]) \subseteq Entry
        BY <4>1, OpenLineIs
      <4>3. exposed' \subseteq exposed \cup OpenLine(file[w]) \cup {<<w, count[w]>>}
        BY <3>2 DEF WriteText
      <4>4. exposed' \subseteq Entry
        BY <2>1, <3>1, <4>2, <4>3
      <4> QED BY <2>1, <3>1, <3>2, <4>4 DEF WriteText
    <3>3. CASE WriteNewline(w)
      BY <2>1, <3>1, <3>3 DEF WriteNewline
    <3> QED BY <1>2, <3>2, <3>3
  <2> QED BY <1>0, <2>2 DEF FullType, HistoryType, pruneVars
<1>3. CASE PruneRead
  <2>1. 0 \in Slot
    BY AuditLogAssumption DEF Slot
  <2>2. content[name[0]] \in Seq(Chunks)
    BY <1>3, <2>1 DEF PruneRead, FullType, LogType, Exists, NoFile
  <2>3. kept' \in Seq(Chunks) /\ prune' = "read" /\ UNCHANGED <<raced, written, done, pruneFile, content>>
    BY <1>3, <2>2, RewrittenType DEF PruneRead
  <2>4. \A w \in Writers : pc[w] # "idle" => <<w, count[w]>> \in Entry
    BY AuditLogAssumption DEF FullType, LogType, Entry
  <2>5. exposed' \subseteq Entry
    BY <1>3, <2>4 DEF PruneRead, FullType, HistoryType
  <2> QED BY <2>3, <2>5 DEF FullType, HistoryType
<1>4. CASE PruneTruncate
  <2>1. PICK handle \in 1..(Len(content) + 1) : OpenTruncated(handle) /\ pruneFile' = handle
    BY <1>4 DEF PruneTruncate
  <2>2. handle \in 0..Len(content') /\ handle # 0
    BY <2>1, <1>0 DEF OpenTruncated, FullType, LogType
  <2>3. prune' = "truncated" /\ UNCHANGED <<raced, exposed, written, done, kept>>
    BY <1>4 DEF PruneTruncate, history
  <2> QED BY <2>1, <2>2, <2>3 DEF FullType, HistoryType, NoFile
<1>5. CASE PruneWrite \/ PruneCrash
  <2>1. prune' \in {"done", "killed"} /\ UNCHANGED <<raced, exposed, written, done, kept, pruneFile>>
    BY <1>5 DEF PruneWrite, PruneCrash, history
  <2> QED BY <1>0, <2>1 DEF FullType, HistoryType
<1>6. CASE UNCHANGED vars
  BY <1>6 DEF FullType, HistoryType, vars, history, pruneVars
<1> QED BY <1>1, <1>2, <1>3, <1>4, <1>5, <1>6 DEF Next, Write

LEMMA FullTypeNext ==
  ASSUME FullType, [Next]_vars
  PROVE  FullType'
<1> SUFFICES LogType'
  BY HistoryTypeNext DEF FullType
<1>0. /\ Len(content) \in Nat /\ Len(content') \in Nat /\ Len(content) =< Len(content')
      /\ 0..Len(content) \subseteq 0..Len(content')
  BY FilesGrow
<1>1. ASSUME NEW w \in Writers, Write(w) PROVE LogType'
  BY <1>1, LogTypeNext DEF FullType
<1>2. CASE PruneRead \/ PruneCrash \/ UNCHANGED vars
  <2>1. UNCHANGED <<content, name, pc, slot, file, count, limited>>
    BY <1>2 DEF PruneRead, PruneCrash, vars, writerVars
  <2>2. LogType
    BY DEF FullType
  <2> QED BY <2>1, <2>2 DEF LogType
<1>3. CASE PruneTruncate
  <2>1. PICK handle \in 1..(Len(content) + 1) : OpenActive(handle) /\ OpenTruncated(handle)
    BY <1>3 DEF PruneTruncate
  <2>2. UNCHANGED <<pc, slot, file, count, limited>>
    BY <1>3 DEF PruneTruncate, writerVars
  <2>3. <<>> \in Seq(Chunks) /\ content \in Seq(Seq(Chunks))
    BY DEF FullType, LogType
  <2>4. content' \in Seq(Seq(Chunks))
    BY <2>1, <2>3 DEF OpenTruncated
  <2>5. handle \in 0..Len(content')
    BY <2>1, <2>3, <1>0 DEF OpenTruncated
  <2>6. name' \in [Slot -> 0..Len(content')]
    <3>1. name \in [Slot -> 0..Len(content')]
      BY <1>0 DEF FullType, LogType
    <3>2. name' = name \/ name' = [name EXCEPT ![0] = handle]
      BY <2>1 DEF OpenActive
    <3> QED BY <2>5, <3>1, <3>2
  <2>7. file' \in [Writers -> 0..Len(content')]
    BY <1>0, <2>2 DEF FullType, LogType
  <2>8. LogType
    BY DEF FullType
  <2> QED BY <2>2, <2>4, <2>6, <2>7, <2>8 DEF LogType
<1>4. CASE PruneWrite
  <2>1. content[pruneFile] \in Seq(Chunks) /\ pruneFile \in DOMAIN content /\ kept \in Seq(Chunks)
    BY <1>4 DEF PruneWrite, FullType, LogType, HistoryType, NoFile
  <2>2. ASSUME NEW s \in Seq(Chunks)
        PROVE  kept \o SubSeq(s, Len(kept) + 1, Len(s)) \in Seq(Chunks)
    <3>1. Len(kept) \in Nat /\ Len(s) \in Nat
      BY <2>1
    <3>2. SubSeq(s, Len(kept) + 1, Len(s)) \in Seq(Chunks)
      BY <3>1, SubSeqProperties
    <3> QED BY <2>1, <3>2
  <2>3. content' \in Seq(Seq(Chunks)) /\ Len(content') = Len(content)
    BY <1>4, <2>1, <2>2 DEF PruneWrite, FullType, LogType
  <2>4. UNCHANGED <<name, pc, slot, file, count, limited>>
    BY <1>4 DEF PruneWrite, writerVars
  <2>5. LogType
    BY DEF FullType
  <2> QED BY <2>3, <2>4, <2>5 DEF LogType
<1> QED BY <1>1, <1>2, <1>3, <1>4 DEF Next

LEMMA FullTypeInit == Init => FullType
<1> SUFFICES ASSUME Init PROVE FullType
  OBVIOUS
<1>1. Old \in Entry /\ NL \in Chunks /\ Entry \subseteq Chunks
  BY DEF Entry, Chunks
<1>2. content \in Seq(Seq(Chunks)) /\ Len(content) = 1
  <2>1. <<Old, NL>> \in Seq(Chunks)
    BY <1>1
  <2> QED BY <2>1 DEF Init
<1>3. LogType
  BY <1>2, AuditLogAssumption DEF Init, LogType, Slot, NoFile
<1>4. HistoryType
  <2>1. written \in Seq(Entry)
    BY <1>1 DEF Init
  <2>2. done \subseteq Entry /\ exposed \subseteq Entry
    BY <1>1 DEF Init
  <2>3. kept \in Seq(Chunks)
    BY DEF Init
  <2>4. /\ raced \in BOOLEAN /\ pruneFile = 0
        /\ prune \in {"idle", "read", "truncated", "done", "killed"} /\ prune # "truncated"
    BY DEF Init, NoFile
  <2>5. pruneFile \in 0..Len(content)
    BY <1>2, <2>4
  <2> QED BY <2>1, <2>2, <2>3, <2>4, <2>5 DEF HistoryType
<1> QED BY <1>3, <1>4 DEF FullType

(* The variables of the log have their types, a pruner included.           *)
THEOREM LogTypeCorrect == Spec => []TypeOK
<1>1. FullType => TypeOK
  BY DEF FullType, LogType, HistoryType, TypeOK
<1> QED BY <1>1, FullTypeInit, FullTypeNext, PTL DEF Spec

-----------------------------------------------------------------------------
(* The order of the log.                                                   *)

(* As long as no write overlaps with a rotation, who rotates is alone.     *)
Alone == \A w \in Writers : Rotating(w) => \A v \in Writers \ {w} : pc[v] = "idle"

(* Who writes, writes to the active log.                                   *)
ToActive == \A w \in Writers : pc[w] \in {"text", "newline"} => file[w] = name[0]

(* The name that a rotation moves a file to is free, but for the oldest.   *)
FreeAbove == \A w \in Writers : Rotating(w) /\ slot[w] < Highest => ~Exists(slot[w] + 1)

Distinct == \A m, n \in Slot : m # n /\ Exists(m) => name[m] # name[n]

(* An entry that is still to be written is not in the history.             *)
Fresh ==
  \A k \in DOMAIN written : \A w \in Writers : \A c \in Nat \ {0} : written[k] = <<w, c>> =>
    c =< count[w] /\ (pc[w] \notin {"idle", "newline"} => c < count[w])

(* Who acts, and on what.                                                  *)
Apart == Alone /\ ToActive /\ FreeAbove /\ Distinct /\ Fresh

(* What the log then is, until a pruner rewrites it.                       *)
LogOrdered == AllWritten /\ InOrder /\ OldestGone /\ FullIfGone

OrderInv == FullType /\ (raced \/ (Apart /\ (Rewrote \/ LogOrdered)))

LEMMA EntryIsText == NL \notin Entry
BY DEF NL, Entry, Old

(* A step that leaves the files behind the names alone.                    *)
LEMMA SameLog ==
  ASSUME LogOrdered, written' = written,
         Exists(MaxRotations) => Exists(MaxRotations)',
         \A n \in Slot : Places(n)' = Places(n),
         \A n \in Slot : \A i \in Places(n) : Chunk(n, i)' = Chunk(n, i)
  PROVE  LogOrdered'
<1>1. \A k : InLog(k)' <=> InLog(k)
  BY DEF InLog
<1>2. AllWritten'
  BY DEF LogOrdered, AllWritten
<1>3. InOrder'
  BY DEF LogOrdered, InOrder, Before
<1>4. OldestGone' /\ FullIfGone'
  BY <1>1 DEF LogOrdered, OldestGone, FullIfGone
<1> QED BY <1>2, <1>3, <1>4 DEF LogOrdered

(* A rename moves one file up and keeps the order; what it overwrites is   *)
(* the oldest file, and nothing if that is not the last of the names.      *)
LEMMA RenamedLog ==
  ASSUME FullType, LogOrdered, NEW w \in Writers, Rename(w),
         slot[w] < Highest => ~Exists(slot[w] + 1)
  PROVE  LogOrdered'
<1>s. PICK s : s = slot[w]
  OBVIOUS
<1>0. /\ Highest \in Nat /\ Slot = 0..MaxRotations /\ MaxRotations \in Nat /\ Highest = MaxRotations - 1
  BY AuditLogAssumption DEF Highest, Slot
<1>1. s \in 0..Highest /\ s \in Slot /\ s + 1 \in Slot
  <2>1. s \in Slot /\ s =< Highest
    BY <1>s DEF FullType, LogType, Rename
  <2> QED BY <1>0, <2>1
<1>2. /\ written' = written /\ content' = content
      /\ Exists(s)
      /\ name' = [name EXCEPT ![s + 1] = name[s], ![s] = NoFile]
  BY <1>s DEF Rename, history
<1>3. /\ name'[s + 1] = name[s] /\ name'[s] = NoFile
      /\ \A n \in Slot \ {s, s + 1} : name'[n] = name[n]
  <2>1. name \in [Slot -> 0..Len(content)] /\ s # s + 1
    BY <1>0, <1>1 DEF FullType, LogType
  <2> QED BY <1>1, <1>2, <2>1
<1> DEFINE From(n) == IF n = s + 1 THEN s ELSE n
<1>4. Places(s)' = {}
  BY <1>3 DEF Places, FileSize, Exists
<1>5. \A n \in Slot \ {s} : Places(n)' = Places(From(n))
  BY <1>2, <1>3 DEF Places, FileSize, Exists
<1>6. \A n \in Slot \ {s} : \A i : Chunk(n, i)' = Chunk(From(n), i)
  BY <1>2, <1>3 DEF Chunk
<1>7. \A n \in Slot \ {s} : From(n) \in Slot
  BY <1>1
<1>8. \A m, n \in Slot \ {s} : \A i, j : Before(n, i, m, j) => Before(From(n), i, From(m), j)
  BY <1>0, <1>1 DEF Before
<1>9. AllWritten'
  BY <1>2, <1>4, <1>5, <1>6, <1>7 DEF LogOrdered, AllWritten
<1>10. InOrder'
  <2> SUFFICES ASSUME NEW n \in Slot, NEW i \in Places(n)', NEW k \in DOMAIN written,
                      Chunk(n, i)' = written[k],
                      NEW m \in Slot, NEW j \in Places(m)', Before(n, i, m, j),
                      NEW l \in DOMAIN written, Chunk(m, j)' = written[l]
               PROVE  k < l
    BY <1>2 DEF InOrder, Before
  <2>1. n \in Slot \ {s} /\ m \in Slot \ {s}
    BY <1>4
  <2>2. /\ i \in Places(From(n)) /\ j \in Places(From(m))
        /\ Chunk(From(n), i) = written[k] /\ Chunk(From(m), j) = written[l]
        /\ Before(From(n), i, From(m), j) /\ From(n) \in Slot /\ From(m) \in Slot
    BY <1>5, <1>6, <1>7, <1>8, <2>1
  <2> QED BY <2>2 DEF LogOrdered, InOrder
<1>11. \A k : InLog(k)' <=> \E n \in Slot \ {s + 1} : \E i \in Places(n) : Chunk(n, i) = written[k]
  <2> SUFFICES ASSUME NEW k
               PROVE  InLog(k)' <=> \E n \in Slot \ {s + 1} : \E i \in Places(n) : Chunk(n, i) = written[k]
    OBVIOUS
  <2>1. ASSUME InLog(k)'
        PROVE  \E n \in Slot \ {s + 1} : \E i \in Places(n) : Chunk(n, i) = written[k]
    <3>1. PICK n \in Slot : \E i \in Places(n)' : Chunk(n, i)' = written[k]
      BY <1>2, <2>1 DEF InLog
    <3>2. n # s
      BY <1>4, <3>1
    <3>3. From(n) \in Slot \ {s + 1}
      BY <1>0, <1>1, <3>2
    <3> QED BY <1>5, <1>6, <3>1, <3>2, <3>3
  <2>2. ASSUME NEW n \in Slot \ {s + 1}, NEW i \in Places(n), Chunk(n, i) = written[k]
        PROVE  InLog(k)'
    <3>1. PICK m \in Slot \ {s} : From(m) = n
      <4>1. CASE n = s
        <5>1. s + 1 \in Slot \ {s}
          BY <1>0, <1>1
        <5> QED BY <4>1, <5>1
      <4>2. CASE n # s
        BY <4>2
      <4> QED BY <4>1, <4>2
    <3>2. i \in Places(m)' /\ Chunk(m, i)' = written'[k]
      BY <1>2, <1>5, <1>6, <2>2, <3>1
    <3> QED BY <3>2 DEF InLog
  <2> QED BY <2>1, <2>2
<1>12. OldestGone'
  <2> SUFFICES ASSUME NEW k \in DOMAIN written, NEW l \in DOMAIN written, InLog(k)', k < l
               PROVE  InLog(l)'
    BY <1>2 DEF OldestGone
  <2>1. PICK n \in Slot \ {s + 1} : \E i \in Places(n) : Chunk(n, i) = written[k]
    BY <1>11
  <2>2. PICK i \in Places(n) : Chunk(n, i) = written[k]
    BY <2>1
  <2>3. InLog(l)
    <3>1. InLog(k)
      BY <2>2 DEF InLog
    <3> QED BY <3>1 DEF LogOrdered, OldestGone
  <2>4. PICK m \in Slot : \E j \in Places(m) : Chunk(m, j) = written[l]
    BY <2>3 DEF InLog
  <2>5. PICK j \in Places(m) : Chunk(m, j) = written[l]
    BY <2>4
  <2>6. CASE m # s + 1
    BY <1>11, <2>5, <2>6
  <2>7. CASE m = s + 1
    <3>1. s + 1 = MaxRotations
      <4>1. FileSize(m) # 0
        BY <2>5 DEF Places
      <4>2. Exists(s + 1)
        BY <2>7, <4>1 DEF FileSize
      <4> QED BY <1>0, <1>1, <1>s, <4>2
    <3>2. Before(m, j, n, i)
      BY <1>0, <2>7, <3>1 DEF Before
    <3>3. l < k
      BY <2>2, <2>5, <3>2 DEF LogOrdered, InOrder
    <3>4. k \in Nat /\ l \in Nat
      BY DEF FullType, HistoryType
    <3> QED BY <3>3, <3>4
  <2> QED BY <2>6, <2>7
<1>13. FullIfGone'
  <2>1. CASE s = Highest
    BY <1>0, <1>2, <1>3, <2>1 DEF FullIfGone, Exists
  <2>2. CASE s # Highest
    <3>1. Places(s + 1) = {}
      <4>1. ~Exists(s + 1)
        BY <1>0, <1>1, <1>s, <2>2
      <4> QED BY <4>1 DEF Places, FileSize
    <3>2. \A k : InLog(k) => InLog(k)'
      BY <1>11, <3>1 DEF InLog
    <3>3. Exists(MaxRotations) => Exists(MaxRotations)'
      BY <1>0, <1>1, <1>3, <2>2 DEF Exists
    <3> QED BY <1>2, <3>2, <3>3 DEF LogOrdered, FullIfGone
  <2> QED BY <2>1, <2>2
<1> QED BY <1>9, <1>10, <1>12, <1>13 DEF LogOrdered

(* What a chunk that is appended to the active log does to the places.     *)
LEMMA AppendedPlaces ==
  ASSUME FullType, Distinct, NEW chunk, Exists(0), name' = name,
         content' = [content EXCEPT ![name[0]] = Append(@, chunk)],
         NEW new, new = FileSize(0) + 1
  PROVE  /\ FileSize(0) \in Nat /\ Chunk(0, new)' = chunk
         /\ Places(0)' = Places(0) \cup {new}
         /\ \A n \in Slot \ {0} : Places(n)' = Places(n)
         /\ \A n \in Slot : \A i \in Places(n) : Chunk(n, i)' = Chunk(n, i)
<1>0. 0 \in Slot
  BY AuditLogAssumption DEF Slot
<1>1. /\ name \in [Slot -> 0..Len(content)] /\ content \in Seq(Seq(Chunks)) /\ Len(content) \in Nat
      /\ DOMAIN content = 1..Len(content)
  BY DEF FullType, LogType
<1>2. name[0] \in DOMAIN content /\ content[name[0]] \in Seq(Chunks)
  BY <1>0, <1>1 DEF Exists, NoFile
<1>3. /\ FileSize(0) = Len(content[name[0]]) /\ FileSize(0) \in Nat
  BY <1>2 DEF FileSize
<1>4. content'[name[0]] = Append(content[name[0]], chunk)
  BY <1>1, <1>2
<1>5. \A n \in Slot \ {0} : Exists(n) => content'[name[n]] = content[name[n]]
  BY <1>0, <1>1 DEF Distinct, Exists
<1>6. /\ Len(content'[name[0]]) = FileSize(0) + 1
      /\ content'[name[0]][FileSize(0) + 1] = chunk
      /\ \A i \in 1..FileSize(0) : content'[name[0]][i] = content[name[0]][i]
  <2> DEFINE s == content[name[0]]
  <2>1. s \in Seq(Chunks) /\ Len(s) = FileSize(0)
    BY <1>2, <1>3
  <2> HIDE DEF s
  <2>2. /\ Len(Append(s, chunk)) = Len(s) + 1 /\ Append(s, chunk)[Len(s) + 1] = chunk
        /\ \A i \in 1..Len(s) : Append(s, chunk)[i] = s[i]
    BY <2>1
  <2> QED BY <1>4, <2>1, <2>2 DEF s
<1>7. FileSize(0)' = FileSize(0) + 1
  BY <1>6 DEF FileSize, Exists
<1>8. Places(0)' = Places(0) \cup {new}
  BY <1>3, <1>7 DEF Places
<1>9. \A n \in Slot \ {0} : Places(n)' = Places(n)
  BY <1>5 DEF Places, FileSize, Exists
<1>10. Chunk(0, new)' = chunk
  BY <1>6 DEF Chunk
<1>11. ASSUME NEW n \in Slot, NEW i \in Places(n)
       PROVE  Chunk(n, i)' = Chunk(n, i)
  <2>1. CASE n = 0
    BY <1>6, <1>11, <2>1 DEF Chunk, Places
  <2>2. CASE n # 0
    <3>1. Exists(n)
      BY <1>11 DEF Places, FileSize
    <3> QED BY <1>5, <2>2, <3>1 DEF Chunk
  <2> QED BY <2>1, <2>2
<1> QED BY <1>3, <1>8, <1>9, <1>10, <1>11

LEMMA NewlineLog ==
  ASSUME FullType, Distinct, LogOrdered, NEW w \in Writers, WriteNewline(w), ToActive
  PROVE  LogOrdered'
<1>1. /\ written' = written /\ name' = name /\ Exists(0)
      /\ content' = [content EXCEPT ![name[0]] = Append(@, NL)]
  BY DEF WriteNewline, ToActive, Exists, FullType, LogType
<1>2. PICK new : new = FileSize(0) + 1
  OBVIOUS
<1>3. /\ FileSize(0) \in Nat /\ Chunk(0, new)' = NL
      /\ Places(0)' = Places(0) \cup {new}
      /\ \A n \in Slot \ {0} : Places(n)' = Places(n)
      /\ \A n \in Slot : \A i \in Places(n) : Chunk(n, i)' = Chunk(n, i)
  BY <1>1, <1>2, AppendedPlaces
<1>4. \A k \in DOMAIN written : written[k] # NL
  BY EntryIsText DEF FullType, HistoryType
<1>5. ASSUME NEW n \in Slot, NEW i \in Places(n)', NEW k \in DOMAIN written, Chunk(n, i)' = written[k]
      PROVE  i \in Places(n) /\ Chunk(n, i) = written[k]
  <2>1. ~(n = 0 /\ i = new)
    BY <1>3, <1>2, <1>4, <1>5
  <2> QED BY <1>3, <1>2, <1>5, <2>1
<1>6. \A k \in DOMAIN written : InLog(k)' <=> InLog(k)
  <2>1. ASSUME NEW k \in DOMAIN written, InLog(k) PROVE InLog(k)'
    <3>1. PICK n \in Slot : \E i \in Places(n) : Chunk(n, i) = written[k]
      BY <2>1 DEF InLog
    <3>2. PICK i \in Places(n) : Chunk(n, i) = written[k]
      BY <3>1
    <3>3. i \in Places(n)' /\ Chunk(n, i)' = written'[k]
      BY <1>1, <1>3, <3>2
    <3> QED BY <3>3 DEF InLog
  <2>2. ASSUME NEW k \in DOMAIN written, InLog(k)' PROVE InLog(k)
    BY <1>1, <1>5, <2>2 DEF InLog
  <2> QED BY <2>1, <2>2
<1>7. AllWritten'
  <2> SUFFICES ASSUME NEW n \in Slot, NEW i \in Places(n)', Chunk(n, i)' # NL
               PROVE  \E k \in DOMAIN written : Chunk(n, i)' = written[k]
    BY <1>1 DEF AllWritten
  <2>1. i \in Places(n)
    BY <1>3
  <2> QED BY <1>3, <2>1 DEF LogOrdered, AllWritten
<1>8. InOrder'
  <2> SUFFICES ASSUME NEW n \in Slot, NEW i \in Places(n)', NEW k \in DOMAIN written,
                      Chunk(n, i)' = written[k],
                      NEW m \in Slot, NEW j \in Places(m)', Before(n, i, m, j),
                      NEW l \in DOMAIN written, Chunk(m, j)' = written[l]
               PROVE  k < l
    BY <1>1 DEF InOrder, Before
  <2>1. /\ i \in Places(n) /\ Chunk(n, i) = written[k]
        /\ j \in Places(m) /\ Chunk(m, j) = written[l]
    BY <1>5
  <2> QED BY <2>1 DEF LogOrdered, InOrder
<1>9. OldestGone'
  BY <1>1, <1>6 DEF LogOrdered, OldestGone
<1>10. FullIfGone'
  BY <1>1, <1>6 DEF LogOrdered, FullIfGone, Exists
<1> QED BY <1>7, <1>8, <1>9, <1>10 DEF LogOrdered

LEMMA TextLog ==
  ASSUME FullType, Distinct, LogOrdered, Fresh, NEW w \in Writers, WriteText(w), name[0] = file[w]
  PROVE  LogOrdered'
<1> DEFINE entry == <<w, count[w]>>
<1>0. 0 \in Slot /\ \A n \in Slot : n \in Nat
  BY AuditLogAssumption DEF Slot
<1>1. /\ name' = name /\ Exists(0)
      /\ content' = [content EXCEPT ![name[0]] = Append(@, entry)]
  BY DEF WriteText, Exists, FullType, LogType
<1>2. PICK e : e = entry
  OBVIOUS
<1>3. PICK new : new = FileSize(0) + 1
  OBVIOUS
<1>4. /\ FileSize(0) \in Nat /\ Chunk(0, new)' = e
      /\ Places(0)' = Places(0) \cup {new}
      /\ \A n \in Slot \ {0} : Places(n)' = Places(n)
      /\ \A n \in Slot : \A i \in Places(n) : Chunk(n, i)' = Chunk(n, i)
  BY <1>1, <1>2, <1>3, AppendedPlaces
<1>5. new \in Nat /\ \A i \in Places(0) : i < new
  BY <1>4, <1>3 DEF Places
<1>6. /\ written \in Seq(Entry) /\ written' = Append(written, e)
  BY <1>2 DEF WriteText, FullType, HistoryType
<1>7. PICK last : last = Len(written) + 1
  OBVIOUS
<1>8. /\ DOMAIN written' = DOMAIN written \cup {last} /\ written'[last] = e
      /\ \A k \in DOMAIN written : written'[k] = written[k] /\ k < last /\ k # last
      /\ last \in Nat /\ DOMAIN written \subseteq Nat
  BY <1>6, <1>7
<1>9. \A k \in DOMAIN written : written[k] # e
  <2> SUFFICES ASSUME NEW k \in DOMAIN written, written[k] = <<w, count[w]>>
               PROVE  FALSE
    BY <1>2
  <2>1. count[w] \in Nat \ {0} /\ pc[w] \notin {"idle", "newline"}
    BY AuditLogAssumption DEF WriteText, FullType, LogType
  <2>2. count[w] < count[w]
    BY <2>1 DEF Fresh
  <2> QED BY <2>1, <2>2
<1>10. e # NL
  BY <1>2 DEF NL
<1>11. ASSUME NEW n \in Slot, NEW i \in Places(n), NEW k \in DOMAIN written', Chunk(n, i)' = written'[k]
       PROVE  k \in DOMAIN written /\ Chunk(n, i) = written[k]
  <2>1. CASE k = last
    <3>1. Chunk(n, i) = e
      BY <1>4, <1>8, <1>11, <2>1
    <3>2. \E l \in DOMAIN written : Chunk(n, i) = written[l]
      BY <1>10, <3>1 DEF LogOrdered, AllWritten
    <3> QED BY <1>9, <3>1, <3>2
  <2>2. CASE k # last
    BY <1>4, <1>8, <1>11, <2>2
  <2> QED BY <2>1, <2>2
<1>12. \A n \in Slot : \A i \in Places(n)' : i \in Places(n) \/ (n = 0 /\ i = new)
  BY <1>4, <1>3
<1>13. Chunk(0, new)' = e /\ new \in Places(0)'
  BY <1>4, <1>3
<1>14. ASSUME NEW k \in DOMAIN written' PROVE InLog(k)' <=> (k = last \/ InLog(k))
  <2>1. ASSUME k \in DOMAIN written, InLog(k) PROVE InLog(k)'
    <3>1. PICK n \in Slot : \E i \in Places(n) : Chunk(n, i) = written[k]
      BY <2>1 DEF InLog
    <3>2. PICK i \in Places(n) : Chunk(n, i) = written[k]
      BY <3>1
    <3>3. i \in Places(n)' /\ Chunk(n, i)' = written'[k]
      BY <1>4, <1>8, <2>1, <3>2
    <3> QED BY <3>3 DEF InLog
  <2>2. ASSUME InLog(k)', k # last PROVE InLog(k)
    <3>1. PICK n \in Slot : \E i \in Places(n)' : Chunk(n, i)' = written'[k]
      BY <2>2 DEF InLog
    <3>2. PICK i \in Places(n)' : Chunk(n, i)' = written'[k]
      BY <3>1
    <3>3. i \in Places(n)
      BY <1>8, <1>9, <1>12, <1>13, <2>2, <3>2
    <3>4. Chunk(n, i) = written[k]
      BY <1>11, <3>2, <3>3
    <3> QED BY <3>3, <3>4 DEF InLog
  <2>3. InLog(last)'
    BY <1>0, <1>8, <1>13 DEF InLog
  <2> QED BY <1>8, <2>1, <2>2, <2>3
<1>15. AllWritten'
  <2> SUFFICES ASSUME NEW n \in Slot, NEW i \in Places(n)', Chunk(n, i)' # NL
               PROVE  \E k \in DOMAIN written' : Chunk(n, i)' = written'[k]
    BY DEF AllWritten
  <2>1. CASE i \in Places(n)
    <3>1. Chunk(n, i)' = Chunk(n, i)
      BY <1>4, <2>1
    <3>2. PICK k \in DOMAIN written : Chunk(n, i) = written[k]
      BY <2>1, <3>1 DEF LogOrdered, AllWritten
    <3> QED BY <1>8, <3>1, <3>2
  <2>2. CASE n = 0 /\ i = new
    BY <1>8, <1>13, <2>2
  <2> QED BY <1>12, <2>1, <2>2
<1>16. InOrder'
  <2> SUFFICES ASSUME NEW n \in Slot, NEW i \in Places(n)', NEW k \in DOMAIN written',
                      Chunk(n, i)' = written'[k],
                      NEW m \in Slot, NEW j \in Places(m)', Before(n, i, m, j),
                      NEW l \in DOMAIN written', Chunk(m, j)' = written'[l]
               PROVE  k < l
    BY DEF InOrder, Before
  <2>1. i \in Places(n)
    <3>1. CASE n = 0 /\ i = new
      <4>1. m = 0 /\ i < j
        BY <1>0, <3>1 DEF Before
      <4>2. j \in Places(0) \/ j = new
        BY <1>12, <4>1
      <4> QED BY <1>5, <3>1, <4>1, <4>2 DEF Places
    <3> QED BY <1>12, <3>1
  <2>2. k \in DOMAIN written /\ Chunk(n, i) = written[k]
    BY <1>11, <2>1
  <2>3. CASE j \in Places(m)
    <3>1. l \in DOMAIN written /\ Chunk(m, j) = written[l]
      BY <1>11, <2>3
    <3> QED BY <2>1, <2>2, <2>3, <3>1 DEF LogOrdered, InOrder
  <2>4. CASE m = 0 /\ j = new
    <3>1. l = last
      BY <1>8, <1>9, <1>13, <2>4
    <3> QED BY <1>8, <2>2, <3>1
  <2> QED BY <1>12, <2>3, <2>4
<1>17. OldestGone'
  <2> SUFFICES ASSUME NEW k \in DOMAIN written', NEW l \in DOMAIN written', InLog(k)', k < l
               PROVE  InLog(l)'
    BY DEF OldestGone
  <2>1. CASE l = last
    BY <1>14, <2>1
  <2>2. CASE l # last
    <3>1. k \in DOMAIN written /\ l \in DOMAIN written /\ k # last
      BY <1>8, <2>2
    <3>2. InLog(k)
      BY <1>14, <3>1
    <3>3. InLog(l)
      BY <3>1, <3>2 DEF LogOrdered, OldestGone
    <3> QED BY <1>14, <3>3
  <2> QED BY <2>1, <2>2
<1>18. FullIfGone'
  <2>1. ASSUME NEW k \in DOMAIN written', ~InLog(k)' PROVE k \in DOMAIN written /\ ~InLog(k)
    BY <1>8, <1>14, <2>1
  <2>2. Exists(MaxRotations)' <=> Exists(MaxRotations)
    BY <1>1 DEF Exists
  <2> QED BY <2>1, <2>2 DEF LogOrdered, FullIfGone
<1> QED BY <1>15, <1>16, <1>17, <1>18 DEF LogOrdered

(* A step that leaves the log alone.                                       *)
LEMMA QuietLog ==
  ASSUME LogOrdered, UNCHANGED <<content, name, written>>
  PROVE  LogOrdered'
<1>1. \A n : Places(n)' = Places(n) /\ (Exists(n)' <=> Exists(n))
  BY DEF Places, FileSize, Exists
<1>2. \A n, i : Chunk(n, i)' = Chunk(n, i)
  BY DEF Chunk
<1> QED BY <1>1, <1>2, SameLog

LEMMA SizeCheckedApart ==
  ASSUME FullType, Apart, NEW w \in Writers, CheckSize(w), ~raced'
  PROVE  Apart'
<1>0. Highest \in Nat
  BY AuditLogAssumption DEF Highest
<1>1. /\ pc[w] = "idle" /\ count' = [count EXCEPT ![w] = count[w] + 1]
      /\ UNCHANGED <<content, name, file, written>>
      /\ pc' = [pc EXCEPT ![w] = IF OverLimit THEN "shift" ELSE "open"]
      /\ OverLimit => slot' = [slot EXCEPT ![w] = Highest]
  BY DEF CheckSize, Goto
<1>2. \A v \in Writers \ {w} : ~Rotating(v) /\ (OverLimit => pc[v] = "idle")
  BY DEF CheckSize, Overlap
<1>3. pc \in [Writers -> {"idle", "shift", "rename", "open", "text", "newline"}]
      /\ slot \in [Writers -> Slot] /\ count \in [Writers -> 0..MaxWrites]
  BY DEF FullType, LogType
<1>4. \A v \in Writers \ {w} : pc'[v] = pc[v] /\ count'[v] = count[v]
  BY <1>1, <1>3
<1>5. pc'[w] = (IF OverLimit THEN "shift" ELSE "open") /\ count'[w] = count[w] + 1
      /\ (OverLimit => slot'[w] = Highest) /\ count[w] \in Nat
  BY <1>1, <1>3
<1>6. \A v \in Writers : Rotating(v)' => v = w /\ OverLimit
  BY <1>2, <1>4, <1>5 DEF Rotating
<1>7. Alone' /\ FreeAbove'
  <2>1. Alone'
    BY <1>2, <1>4, <1>6 DEF Alone
  <2>2. FreeAbove'
    BY <1>0, <1>5, <1>6 DEF FreeAbove
  <2> QED BY <2>1, <2>2
<1>8. ToActive'
  BY <1>1, <1>4, <1>5 DEF Apart, ToActive
<1>9. Distinct'
  BY <1>1 DEF Apart, Distinct, Exists
<1>10. Fresh'
  <2> SUFFICES ASSUME NEW k \in DOMAIN written, NEW v \in Writers, NEW c \in Nat \ {0},
                      written[k] = <<v, c>>
               PROVE  c =< count'[v] /\ (pc'[v] \notin {"idle", "newline"} => c < count'[v])
    BY <1>1 DEF Fresh
  <2>1. c =< count[v] /\ (pc[v] \notin {"idle", "newline"} => c < count[v])
    BY DEF Apart, Fresh
  <2>2. CASE v = w
    BY <1>5, <2>1, <2>2
  <2>3. CASE v # w
    BY <1>4, <2>1, <2>3
  <2> QED BY <2>2, <2>3
<1> QED BY <1>7, <1>8, <1>9, <1>10 DEF Apart

LEMMA ExistsCheckedApart ==
  ASSUME FullType, Apart, NEW w \in Writers, CheckExists(w)
  PROVE  Apart'
<1>0. Highest \in Nat /\ \A n \in Slot : n \in Nat
  BY AuditLogAssumption DEF Highest, Slot
<1>1. pc \in [Writers -> {"idle", "shift", "rename", "open", "text", "newline"}]
      /\ slot \in [Writers -> Slot] /\ slot[w] \in Nat /\ pc[w] = "shift"
  BY <1>0 DEF FullType, LogType, CheckExists
<1>2. UNCHANGED <<content, name, file, count, written>>
  BY DEF CheckExists, history
<1>3. /\ pc'[w] \in {"shift", "rename", "open"}
      /\ \A v \in Writers \ {w} : pc'[v] = pc[v] /\ slot'[v] = slot[v]
      /\ slot'[w] = slot[w] \/ (slot'[w] = slot[w] - 1 /\ ~Exists(slot[w]))
  <2>1. CASE Exists(slot[w])
    BY <1>1, <2>1 DEF CheckExists, Goto
  <2>2. CASE ~Exists(slot[w]) /\ slot[w] = 0
    BY <1>1, <2>2 DEF CheckExists, Goto
  <2>3. CASE ~Exists(slot[w]) /\ slot[w] # 0
    BY <1>1, <2>3 DEF CheckExists, Goto
  <2> QED BY <2>1, <2>2, <2>3
<1>4. \A v \in Writers \ {w} : pc[v] = "idle"
  BY <1>1 DEF Apart, Alone, Rotating
<1>5. Alone'
  BY <1>3, <1>4 DEF Alone, Rotating
<1>6. ToActive'
  BY <1>3, <1>4 DEF ToActive
<1>7. FreeAbove'
  <2> SUFFICES ASSUME slot'[w] < Highest PROVE ~Exists(slot'[w] + 1)
    BY <1>2, <1>3, <1>4 DEF FreeAbove, Rotating, Exists
  <2>1. CASE slot'[w] = slot[w]
    BY <1>1, <2>1 DEF Apart, FreeAbove, Rotating
  <2>2. CASE slot'[w] = slot[w] - 1 /\ ~Exists(slot[w])
    <3>1. slot'[w] + 1 = slot[w]
      BY <1>1, <2>2
    <3> QED BY <2>2, <3>1
  <2> QED BY <1>3, <2>1, <2>2
<1>8. Distinct'
  BY <1>2 DEF Apart, Distinct, Exists
<1>9. Fresh'
  BY <1>1, <1>2, <1>3, <1>4 DEF Apart, Fresh
<1> QED BY <1>5, <1>6, <1>7, <1>8, <1>9 DEF Apart

LEMMA RenamedApart ==
  ASSUME FullType, Apart, NEW w \in Writers, Rename(w)
  PROVE  Apart'
<1>s. PICK s : s = slot[w]
  OBVIOUS
<1>0. /\ Highest \in Nat /\ Slot = 0..MaxRotations /\ MaxRotations \in Nat /\ Highest = MaxRotations - 1
  BY AuditLogAssumption DEF Highest, Slot
<1>1. /\ pc \in [Writers -> {"idle", "shift", "rename", "open", "text", "newline"}]
      /\ slot \in [Writers -> Slot] /\ s \in 0..Highest /\ pc[w] = "rename"
      /\ name \in [Slot -> 0..Len(content)]
  BY <1>0, <1>s DEF FullType, LogType, Rename
<1>2. /\ UNCHANGED <<content, file, count, written>> /\ Exists(s)
      /\ name' = [name EXCEPT ![s + 1] = name[s], ![s] = NoFile]
  BY <1>s DEF Rename, history
<1>3. /\ name'[s + 1] = name[s] /\ name'[s] = NoFile /\ s + 1 \in Slot /\ s \in Slot /\ s # s + 1
      /\ \A n \in Slot \ {s, s + 1} : name'[n] = name[n]
  <2>1. s + 1 \in Slot /\ s \in Slot /\ s # s + 1
    BY <1>0, <1>1
  <2> QED BY <1>1, <1>2, <2>1
<1>4. /\ pc'[w] \in {"shift", "open"}
      /\ \A v \in Writers \ {w} : pc'[v] = pc[v]
      /\ pc'[w] = "shift" => slot'[w] = s - 1
  <2>1. CASE s = 0
    BY <1>1, <1>s, <2>1 DEF Rename, Goto
  <2>2. CASE s # 0
    BY <1>1, <1>s, <2>2 DEF Rename, Goto
  <2> QED BY <2>1, <2>2
<1>5. \A v \in Writers \ {w} : pc[v] = "idle"
  BY <1>1 DEF Apart, Alone, Rotating
<1>6. Alone'
  BY <1>4, <1>5 DEF Alone, Rotating
<1>7. ToActive'
  BY <1>4, <1>5 DEF ToActive
<1>8. FreeAbove'
  <2> SUFFICES ASSUME Rotating(w)' PROVE name'[slot'[w] + 1] = NoFile
    BY <1>4, <1>5 DEF FreeAbove, Rotating, Exists
  <2>1. slot'[w] + 1 = s
    BY <1>1, <1>4 DEF Rotating
  <2> QED BY <1>3, <2>1
<1>9. Distinct'
  <2> SUFFICES ASSUME NEW m \in Slot, NEW n \in Slot, m # n, name'[m] # NoFile
               PROVE  name'[m] # name'[n]
    BY DEF Distinct, Exists
  <2>1. \A a, b \in Slot : a # b /\ name[a] # NoFile => name[a] # name[b]
    BY DEF Apart, Distinct, Exists
  <2> QED BY <1>3, <2>1
<1>10. Fresh'
  BY <1>1, <1>2, <1>4, <1>5 DEF Apart, Fresh
<1> QED BY <1>6, <1>7, <1>8, <1>9, <1>10 DEF Apart

(* A write that ends early.                                                *)
LEMMA StoppedApart ==
  ASSUME FullType, Apart, NEW w \in Writers, RenameFails(w) \/ Crash(w)
  PROVE  Apart'
<1>1. /\ UNCHANGED <<content, name, slot, file, count, written>>
      /\ pc' = [pc EXCEPT ![w] = "idle"]
      /\ pc \in [Writers -> {"idle", "shift", "rename", "open", "text", "newline"}]
  BY DEF RenameFails, Crash, Goto, history, FullType, LogType
<1>2. pc'[w] = "idle" /\ \A v \in Writers \ {w} : pc'[v] = pc[v]
  BY <1>1
<1>3. Alone' /\ ToActive'
  BY <1>1, <1>2 DEF Apart, Alone, ToActive, Rotating
<1>4. FreeAbove' /\ Distinct'
  BY <1>1, <1>2 DEF Apart, FreeAbove, Rotating, Distinct, Exists
<1>5. Fresh'
  BY <1>1, <1>2 DEF Apart, Fresh
<1> QED BY <1>3, <1>4, <1>5 DEF Apart

LEMMA OpenedApart ==
  ASSUME FullType, Apart, NEW w \in Writers, OpenLog(w)
  PROVE  Apart'
<1>0. 0 \in Slot /\ MaxRotations # 0 /\ MaxRotations \in Slot
  BY AuditLogAssumption DEF Slot
<1>1. PICK handle \in 1..(Len(content) + 1) :
        /\ OpenActive(handle) /\ OpenToAppend(handle)
        /\ file' = [file EXCEPT ![w] = handle]
  BY DEF OpenLog
<1>2. /\ UNCHANGED <<slot, count, written>> /\ pc[w] = "open"
      /\ pc' = [pc EXCEPT ![w] = "text"]
      /\ pc \in [Writers -> {"idle", "shift", "rename", "open", "text", "newline"}]
      /\ file \in [Writers -> 0..Len(content)]
      /\ name \in [Slot -> 0..Len(content)]
      /\ content \in Seq(Seq(Chunks)) /\ Len(content) \in Nat
  BY DEF OpenLog, Goto, history, FullType, LogType
<1>3. /\ pc'[w] = "text" /\ file'[w] = handle
      /\ \A v \in Writers \ {w} : pc'[v] = pc[v] /\ file'[v] = file[v]
  BY <1>1, <1>2
<1>4. /\ handle = name'[0] /\ handle # NoFile
      /\ \A n \in Slot \ {0} : name'[n] = name[n]
      /\ Exists(0) => name'[0] = name[0] /\ content' = content
      /\ ~Exists(0) => handle = Len(content) + 1 /\ content' = Append(content, <<>>)
  <2>1. CASE Exists(0)
    <3>1. handle = name[0] /\ name' = name /\ handle =< Len(content)
      BY <1>0, <1>1, <1>2, <2>1 DEF OpenActive
    <3> QED BY <1>1, <1>2, <2>1, <3>1 DEF OpenToAppend, NoFile
  <2>2. CASE ~Exists(0)
    <3>1. handle = Len(content) + 1 /\ name' = [name EXCEPT ![0] = handle]
      BY <1>1, <2>2 DEF OpenActive
    <3> QED BY <1>0, <1>1, <1>2, <2>2, <3>1 DEF OpenToAppend, NoFile
  <2> QED BY <2>1, <2>2
<1>5. \A v \in Writers : ~Rotating(v)
  BY <1>2 DEF Apart, Alone, Rotating
<1>6. Alone' /\ FreeAbove'
  BY <1>3, <1>5 DEF Alone, FreeAbove, Rotating
<1>7. ToActive'
  <2>1. \A v \in Writers : pc[v] \in {"text", "newline"} => Exists(0)
    BY DEF Apart, ToActive, FullType, LogType, Exists
  <2>2. \A v \in Writers : pc[v] \in {"text", "newline"} => file[v] = name'[0]
    BY <1>4, <2>1 DEF Apart, ToActive
  <2> QED BY <1>3, <1>4, <2>2 DEF ToActive
<1>8. Distinct'
  <2> SUFFICES ASSUME NEW m \in Slot, NEW n \in Slot, m # n, name'[m] # NoFile
               PROVE  name'[m] # name'[n]
    BY DEF Distinct, Exists
  <2>1. \A a, b \in Slot : a # b /\ name[a] # NoFile => name[a] # name[b]
    BY DEF Apart, Distinct, Exists
  <2>2. \A a \in Slot : name[a] # Len(content) + 1
    BY <1>2
  <2>3. CASE name'[0] = name[0]
    BY <1>0, <1>4, <2>1, <2>3
  <2>4. CASE name'[0] = Len(content) + 1
    BY <1>0, <1>4, <2>1, <2>2, <2>4
  <2>5. name'[0] = name[0] \/ name'[0] = Len(content) + 1
    BY <1>4
  <2> QED BY <2>3, <2>4, <2>5
<1>9. Fresh'
  <2> SUFFICES ASSUME NEW k \in DOMAIN written, NEW v \in Writers, NEW c \in Nat \ {0},
                      written[k] = <<v, c>>
               PROVE  c =< count[v] /\ (pc'[v] \notin {"idle", "newline"} => c < count[v])
    BY <1>2 DEF Fresh
  <2> QED BY <1>2, <1>3 DEF Apart, Fresh
<1> QED BY <1>6, <1>7, <1>8, <1>9 DEF Apart

LEMMA WroteApart ==
  ASSUME FullType, Apart, NEW w \in Writers, WriteText(w) \/ WriteNewline(w)
  PROVE  Apart'
<1>1. /\ UNCHANGED <<name, slot, file, count>> /\ pc[w] \in {"text", "newline"}
      /\ pc' = [pc EXCEPT ![w] = IF pc[w] = "text" THEN "newline" ELSE "idle"]
      /\ pc \in [Writers -> {"idle", "shift", "rename", "open", "text", "newline"}]
  BY DEF WriteText, WriteNewline, Goto, FullType, LogType
<1>2. /\ pc'[w] \in {"newline", "idle"}
      /\ \A v \in Writers \ {w} : pc'[v] = pc[v]
  BY <1>1
<1>3. Alone' /\ ToActive'
  BY <1>1, <1>2 DEF Apart, Alone, ToActive, Rotating
<1>4. FreeAbove' /\ Distinct'
  BY <1>1, <1>2 DEF Apart, FreeAbove, Rotating, Distinct, Exists
<1>5. Fresh'
  <2>1. CASE WriteText(w)
    <3>1. written' = Append(written, <<w, count[w]>>) /\ written \in Seq(Entry)
          /\ count[w] \in Nat
      BY <2>1 DEF WriteText, FullType, HistoryType, LogType
    <3>2. \A k \in DOMAIN written' : \/ k \in DOMAIN written /\ written'[k] = written[k]
                                     \/ written'[k] = <<w, count[w]>>
      BY <3>1
    <3> SUFFICES ASSUME NEW k \in DOMAIN written', NEW v \in Writers, NEW c \in Nat \ {0},
                        written'[k] = <<v, c>>
                 PROVE  c =< count[v] /\ (pc'[v] \notin {"idle", "newline"} => c < count[v])
      BY <1>1 DEF Fresh
    <3>3. CASE k \in DOMAIN written /\ written'[k] = written[k]
      <4>1. c =< count[v] /\ (pc[v] \notin {"idle", "newline"} => c < count[v])
        BY <3>3 DEF Apart, Fresh
      <4> QED BY <1>2, <4>1
    <3>4. CASE written'[k] = <<w, count[w]>>
      <4>1. v = w /\ c = count[w]
        BY <3>4
      <4> QED BY <1>2, <3>1, <4>1
    <3> QED BY <3>2, <3>3, <3>4
  <2>2. CASE WriteNewline(w)
    <3>1. written' = written
      BY <2>2 DEF WriteNewline
    <3> QED BY <1>1, <1>2, <3>1 DEF Apart, Fresh
  <2> QED BY <2>1, <2>2
<1> QED BY <1>3, <1>4, <1>5 DEF Apart

(* The pruner creates the active log when a rotation has taken it away.    *)
LEMMA TruncatedApart ==
  ASSUME FullType, Apart, PruneTruncate
  PROVE  Apart'
<1>0. 0 \in Slot
  BY AuditLogAssumption DEF Slot
<1>1. PICK handle \in 1..(Len(content) + 1) : OpenActive(handle) /\ OpenTruncated(handle)
  BY DEF PruneTruncate
<1>2. /\ UNCHANGED <<pc, slot, file, count, written>>
      /\ name \in [Slot -> 0..Len(content)] /\ Len(content) \in Nat
  BY DEF PruneTruncate, writerVars, history, FullType, LogType
<1>3. /\ \A n \in Slot \ {0} : name'[n] = name[n]
      /\ Exists(0) => name' = name
      /\ ~Exists(0) => name'[0] = handle /\ handle \notin 0..Len(content)
  <2>1. CASE Exists(0)
    BY <1>1, <2>1 DEF OpenActive
  <2>2. CASE ~Exists(0)
    <3>1. handle = Len(content) + 1 /\ name' = [name EXCEPT ![0] = handle]
      BY <1>1, <2>2 DEF OpenActive
    <3> QED BY <1>0, <1>2, <2>2, <3>1
  <2> QED BY <2>1, <2>2
<1>4. Alone' /\ Fresh'
  BY <1>2 DEF Apart, Alone, Fresh, Rotating
<1>5. FreeAbove'
  <2> SUFFICES ASSUME NEW w \in Writers, Rotating(w), slot[w] < Highest
               PROVE  name'[slot[w] + 1] = NoFile
    BY <1>2 DEF FreeAbove, Rotating, Exists
  <2>1. slot[w] \in Slot /\ slot[w] + 1 \in Slot \ {0}
    BY AuditLogAssumption DEF FullType, LogType, Slot, Highest
  <2>2. ~Exists(slot[w] + 1)
    BY DEF Apart, FreeAbove
  <2> QED BY <1>3, <2>1, <2>2 DEF Exists
<1>6. ToActive'
  <2>1. \A v \in Writers : pc[v] \in {"text", "newline"} => Exists(0) /\ file[v] = name[0]
    BY DEF Apart, ToActive, FullType, LogType, Exists
  <2> QED BY <1>2, <1>3, <2>1 DEF ToActive
<1>7. Distinct'
  <2> SUFFICES ASSUME NEW m \in Slot, NEW n \in Slot, m # n, name'[m] # NoFile
               PROVE  name'[m] # name'[n]
    BY DEF Distinct, Exists
  <2>1. \A a, b \in Slot : a # b /\ name[a] # NoFile => name[a] # name[b]
    BY DEF Apart, Distinct, Exists
  <2>2. \A a \in Slot : name[a] \in 0..Len(content)
    BY <1>2
  <2> QED BY <1>0, <1>3, <2>1, <2>2 DEF Exists
<1> QED BY <1>4, <1>5, <1>6, <1>7 DEF Apart

LEMMA ApartNext ==
  ASSUME FullType, Apart, [Next]_vars, ~raced'
  PROVE  Apart'
<1>1. ASSUME NEW w \in Writers, Write(w) PROVE Apart'
  BY <1>1, SizeCheckedApart, ExistsCheckedApart, RenamedApart, StoppedApart, OpenedApart,
     WroteApart DEF Write
<1>2. CASE PruneRead \/ PruneWrite \/ PruneCrash \/ UNCHANGED vars
  <2>1. UNCHANGED <<name, pc, slot, file, count, written>>
    BY <1>2 DEF PruneRead, PruneWrite, PruneCrash, vars, writerVars, history
  <2>2. Alone' /\ ToActive' /\ FreeAbove'
    BY <2>1 DEF Apart, Alone, ToActive, FreeAbove, Rotating, Exists
  <2>3. Distinct' /\ Fresh'
    BY <2>1 DEF Apart, Distinct, Fresh, Exists
  <2> QED BY <2>2, <2>3 DEF Apart
<1> QED BY <1>1, <1>2, TruncatedApart DEF Next

LEMMA OpenedLog ==
  ASSUME FullType, LogOrdered, NEW w \in Writers, OpenLog(w)
  PROVE  LogOrdered'
<1>0. 0 \in Slot /\ MaxRotations # 0 /\ MaxRotations \in Slot
  BY AuditLogAssumption DEF Slot
<1>1. PICK handle \in 1..(Len(content) + 1) : OpenActive(handle) /\ OpenToAppend(handle)
  BY DEF OpenLog
<1>2. /\ written' = written
      /\ name \in [Slot -> 0..Len(content)]
      /\ content \in Seq(Seq(Chunks)) /\ Len(content) \in Nat
  BY DEF OpenLog, history, FullType, LogType
<1>4. /\ handle = name'[0] /\ handle # NoFile
      /\ \A n \in Slot \ {0} : name'[n] = name[n]
      /\ Exists(0) => name'[0] = name[0] /\ content' = content
      /\ ~Exists(0) => handle = Len(content) + 1 /\ content' = Append(content, <<>>)
  <2>1. CASE Exists(0)
    <3>1. handle = name[0] /\ name' = name /\ handle =< Len(content)
      BY <1>0, <1>1, <1>2, <2>1 DEF OpenActive
    <3> QED BY <1>1, <1>2, <2>1, <3>1 DEF OpenToAppend, NoFile
  <2>2. CASE ~Exists(0)
    <3>1. handle = Len(content) + 1 /\ name' = [name EXCEPT ![0] = handle]
      BY <1>1, <2>2 DEF OpenActive
    <3> QED BY <1>0, <1>1, <1>2, <2>2, <3>1 DEF OpenToAppend, NoFile
  <2> QED BY <2>1, <2>2
<1>11. \A n \in Slot : Exists(n) => Exists(n)' /\ name'[n] = name[n] /\ content'[name[n]] = content[name[n]]
  <2>1. \A n \in Slot : Exists(n) => name[n] \in DOMAIN content
    BY <1>2 DEF Exists, NoFile
  <2>2. \A f \in DOMAIN content : content'[f] = content[f]
    <3>1. <<>> \in Seq(Chunks)
      OBVIOUS
    <3>2. \A f \in DOMAIN content : Append(content, <<>>)[f] = content[f]
      BY <1>2, <3>1
    <3> QED BY <1>4, <3>2
  <2> QED BY <1>4, <2>1, <2>2 DEF Exists
<1>12. \A n \in Slot : ~Exists(n) => FileSize(n)' = 0
  <2>1. CASE Exists(0)
    <3>1. \A n \in Slot : name'[n] = name[n]
      BY <1>0, <1>4, <2>1
    <3> QED BY <3>1 DEF FileSize, Exists
  <2>2. CASE ~Exists(0)
    <3>1. content'[name'[0]] = <<>>
      BY <1>2, <1>4, <2>2
    <3>2. Len(content'[name'[0]]) = 0
      BY <3>1
    <3> QED BY <1>4, <3>2 DEF FileSize, Exists
  <2> QED BY <2>1, <2>2
<1>13. \A n \in Slot : Places(n)' = Places(n)
  BY <1>11, <1>12 DEF Places, FileSize
<1>14. \A n \in Slot : \A i \in Places(n) : Chunk(n, i)' = Chunk(n, i)
  <2>1. \A n \in Slot : \A i \in Places(n) : Exists(n)
    BY DEF Places, FileSize
  <2> QED BY <1>11, <2>1 DEF Chunk
<1> QED BY <1>0, <1>2, <1>11, <1>13, <1>14, SameLog

LEMMA LogNext ==
  ASSUME FullType, Apart, LogOrdered, [Next]_vars
  PROVE  Rewrote' \/ LogOrdered'
<1>1. ASSUME NEW w \in Writers, CheckSize(w) \/ CheckExists(w) \/ RenameFails(w) \/ Crash(w)
      PROVE  LogOrdered'
  <2>1. UNCHANGED <<content, name, written>>
    BY <1>1 DEF CheckSize, CheckExists, RenameFails, Crash, history
  <2> QED BY <2>1, QuietLog
<1>2. ASSUME NEW w \in Writers, Rename(w)
      PROVE  LogOrdered'
  <2>1. slot[w] < Highest => ~Exists(slot[w] + 1)
    BY <1>2 DEF Apart, FreeAbove, Rotating, Rename
  <2> QED BY <1>2, <2>1, RenamedLog
<1>3. ASSUME NEW w \in Writers, WriteText(w) \/ WriteNewline(w)
      PROVE  LogOrdered'
  <2>1. name[0] = file[w]
    BY <1>3 DEF Apart, ToActive, WriteText, WriteNewline
  <2>2. Distinct /\ Fresh /\ ToActive
    BY DEF Apart
  <2>3. CASE WriteText(w)
    BY <2>1, <2>2, <2>3, TextLog
  <2>4. CASE WriteNewline(w)
    BY <2>2, <2>4, NewlineLog
  <2> QED BY <1>3, <2>3, <2>4
<1>4. ASSUME NEW w \in Writers, Write(w) PROVE LogOrdered'
  BY <1>1, <1>2, <1>3, <1>4, OpenedLog DEF Write
<1>5. CASE PruneRead \/ UNCHANGED vars
  <2>1. UNCHANGED <<content, name, written>>
    BY <1>5 DEF PruneRead, vars, history
  <2> QED BY <2>1, QuietLog
<1>6. CASE PruneTruncate \/ PruneWrite \/ PruneCrash
  BY <1>6 DEF Rewrote, PruneTruncate, PruneWrite, PruneCrash
<1> QED BY <1>4, <1>5, <1>6 DEF Next

LEMMA OrderNext ==
  ASSUME OrderInv, [Next]_vars
  PROVE  OrderInv'
<1>1. FullType /\ FullType'
  BY FullTypeNext DEF OrderInv
<1>2. Rewrote => Rewrote'
  BY DEF Rewrote, Next, Write, CheckSize, CheckExists, Rename, RenameFails, OpenLog,
         WriteText, WriteNewline, Crash, PruneRead, PruneTruncate, PruneWrite, PruneCrash,
         pruneVars, vars
<1>3. raced => raced'
  BY DEF Next, Write, CheckSize, CheckExists, Rename, RenameFails, OpenLog,
         WriteText, WriteNewline, Crash, PruneRead, PruneTruncate, PruneWrite, PruneCrash,
         history, vars
<1>4. Apart => raced' \/ Apart'
  BY <1>1, ApartNext
<1>5. Apart /\ LogOrdered => Rewrote' \/ LogOrdered'
  BY <1>1, LogNext
<1> QED BY <1>1, <1>2, <1>3, <1>4, <1>5 DEF OrderInv

LEMMA OrderInit == Init => OrderInv
<1> SUFFICES ASSUME Init PROVE Apart /\ LogOrdered
  BY FullTypeInit DEF OrderInv
<1>0. 0 \in Slot /\ NoFile = 0
  BY AuditLogAssumption DEF Slot, NoFile
<1>1. Apart
  <2>1. Alone /\ ToActive /\ FreeAbove
    BY DEF Init, Alone, ToActive, FreeAbove, Rotating
  <2>2. Distinct
    BY <1>0 DEF Init, Distinct, Exists
  <2>3. Fresh
    BY DEF Init, Fresh, Old
  <2> QED BY <2>1, <2>2, <2>3 DEF Apart
<1>2. /\ name[0] = 1 /\ content[1] = <<Old, NL>> /\ \A n \in Slot \ {0} : name[n] = 0
  BY <1>0 DEF Init
<1>3. Places(0) = 1..2 /\ \A n \in Slot \ {0} : Places(n) = {}
  BY <1>0, <1>2 DEF Places, FileSize, Exists
<1>4. Chunk(0, 1) = Old /\ Chunk(0, 2) = NL
  BY <1>2 DEF Chunk
<1>5. written = <<Old>> /\ DOMAIN written = {1} /\ written[1] = Old
  BY DEF Init
<1>6. AllWritten
  <2> SUFFICES ASSUME NEW n \in Slot, NEW i \in Places(n), Chunk(n, i) # NL
               PROVE  Chunk(n, i) = written[1]
    BY <1>5 DEF AllWritten
  <2>1. n = 0 /\ i \in {1, 2}
    BY <1>3
  <2> QED BY <1>4, <1>5, <2>1
<1>7. InOrder
  <2>1. Old # NL
    BY DEF Old, NL
  <2> SUFFICES ASSUME NEW n \in Slot, NEW i \in Places(n), NEW k \in DOMAIN written,
                      Chunk(n, i) = written[k],
                      NEW m \in Slot, NEW j \in Places(m), Before(n, i, m, j),
                      NEW l \in DOMAIN written, Chunk(m, j) = written[l]
               PROVE  FALSE
    BY DEF InOrder
  <2>2. n = 0 /\ m = 0 /\ i \in {1, 2} /\ j \in {1, 2} /\ i < j
    BY <1>3 DEF Before
  <2>3. j = 2
    BY <2>2
  <2> QED BY <1>4, <1>5, <2>1, <2>2, <2>3
<1>8. InLog(1)
  BY <1>0, <1>3, <1>4, <1>5 DEF InLog
<1>9. OldestGone /\ FullIfGone
  BY <1>5, <1>8 DEF OldestGone, FullIfGone
<1> QED BY <1>1, <1>6, <1>7, <1>9 DEF LogOrdered

(* The rotation discards nothing but the oldest entries, and those only    *)
(* when all names are taken (rotate_files), with writers that race to      *)
(* append and crashes at any step, unless a write overlaps a rotation.     *)
THEOREM OrderCorrect == Spec => []OnlyOldestDiscarded
<1>1. OrderInv => OnlyOldestDiscarded
  BY DEF OrderInv, LogOrdered, OnlyOldestDiscarded
<1> QED BY <1>1, OrderInit, OrderNext, PTL DEF Spec

-----------------------------------------------------------------------------
(* What a pruner spares.                                                   *)

(* The files, by inode, and what they hold.                                *)
Named(f) == \E n \in Slot : name[n] = f
IsRotated(f) == \E n \in Slot \ {0} : name[n] = f
Holds(f, e) == \E i \in DOMAIN content[f] : content[f][i] = e
Readable(f, e) == \E i \in DOMAIN content[f] : content[f][i] = e /\ ReadableAt(content[f], i)
Gone == Exists(MaxRotations)

(* The entries that a pruner has to spare, the one included whose newline  *)
(* is due.                                                                 *)
Texts == {<<w, count[w]>> : w \in {v \in Writers : pc[v] = "newline"}}
Sparing == (done \cup Texts) \ exposed

(* Where such an entry is, before the pruner reads the log, at any time,   *)
(* between its reading and its truncation, and until it writes.            *)
OnLine(e) == Gone \/ \E f \in DOMAIN content : Named(f) /\ Readable(f, e)
InFile(e) == Gone \/ \E f \in DOMAIN content : Named(f) /\ Holds(f, e)
InKept(e) == \E k \in DOMAIN kept : kept[k] = e
Aside(e) == Gone \/ InKept(e) \/ \E f \in DOMAIN content : IsRotated(f) /\ Holds(f, e)
Saved(e) == \/ Gone
            \/ InKept(e) /\ Named(pruneFile)
            \/ \E f \in DOMAIN content \ {pruneFile} : Named(f) /\ Holds(f, e)

(* Who writes while the pruner works is not spared.                        *)
Busy == \A w \in Writers : pc[w] # "idle" => <<w, count[w]>> \in exposed

Spared ==
  /\ prune = "idle" => pruneFile = NoFile /\ \A e \in Sparing : OnLine(e)
  /\ prune = "read" => /\ pruneFile = NoFile /\ Busy
                       /\ \A e \in Sparing : InFile(e) /\ (Matches(e) => Aside(e))
  /\ prune = "truncated" => /\ pruneFile # NoFile /\ Busy
                            /\ \A e \in Sparing : Matches(e) => Saved(e)
  /\ prune = "killed" /\ pruneFile = NoFile => \A e \in Sparing : InFile(e)
  /\ prune = "done" => \A e \in Sparing : Matches(e) => InFile(e)

SpareInv == FullType /\ (raced \/ (Apart /\ Spared))

(* A chunk more leaves an entry on its line, unless it continues the line. *)
LEMMA StillReadable ==
  ASSUME NEW s \in Seq(Chunks), NEW c \in Chunks, NEW i \in DOMAIN s, ReadableAt(s, i),
         c = NL \/ i # Len(s)
  PROVE  /\ i \in DOMAIN Append(s, c) /\ Append(s, c)[i] = s[i]
         /\ ReadableAt(Append(s, c), i)
<1>1. i \in 1..Len(s) /\ Len(s) \in Nat
  OBVIOUS
<1>2. /\ Len(Append(s, c)) = Len(s) + 1 /\ DOMAIN Append(s, c) = 1..(Len(s) + 1)
      /\ \A j \in 1..Len(s) : Append(s, c)[j] = s[j]
      /\ Append(s, c)[Len(s) + 1] = c
  OBVIOUS
<1>3. i = 1 \/ Append(s, c)[i - 1] = NL
  BY <1>1, <1>2 DEF ReadableAt
<1>4. Append(s, c)[i + 1] = NL
  <2>1. CASE i = Len(s)
    BY <1>2, <2>1
  <2>2. CASE i # Len(s)
    <3>1. s[i + 1] = NL /\ i + 1 \in 1..Len(s)
      BY <1>1, <2>2 DEF ReadableAt
    <3> QED BY <1>2, <3>1
  <2> QED BY <2>1, <2>2
<1> QED BY <1>1, <1>2, <1>3, <1>4 DEF ReadableAt

(* A new text is on a line of its own if none is open.                     *)
LEMMA NewReadable ==
  ASSUME NEW s \in Seq(Chunks), NEW c \in Chunks \ {NL}, s = <<>> \/ s[Len(s)] = NL
  PROVE  \E i \in DOMAIN Append(s, c) : Append(s, c)[i] = c /\ ReadableAt(Append(s, c), i)
<1>1. Len(s) \in Nat /\ Len(Append(s, c)) = Len(s) + 1 /\ DOMAIN Append(s, c) = 1..(Len(s) + 1)
      /\ (\A j \in 1..Len(s) : Append(s, c)[j] = s[j])
      /\ Append(s, c)[Len(s) + 1] = c
  OBVIOUS
<1>2. Len(s) + 1 = 1 \/ Append(s, c)[Len(s) + 1 - 1] = NL
  <2>1. CASE s = <<>>
    BY <2>1
  <2>2. CASE s # <<>> /\ s[Len(s)] = NL
    <3>1. Len(s) \in 1..Len(s) /\ Len(s) + 1 - 1 = Len(s)
      BY <2>2
    <3> QED BY <1>1, <2>2, <3>1
  <2> QED BY <2>1, <2>2
<1>3. ReadableAt(Append(s, c), Len(s) + 1)
  BY <1>1, <1>2 DEF ReadableAt
<1> QED BY <1>1, <1>3

(* A writer only adds to a file.                                           *)
LEMMA Extended ==
  ASSUME FullType, NEW w \in Writers, Write(w), NEW f \in DOMAIN content
  PROVE  /\ f \in DOMAIN content'
         /\ \/ content'[f] = content[f]
            \/ f = file[w] /\ WriteText(w) /\ content'[f] = Append(content[f], <<w, count[w]>>)
            \/ f = file[w] /\ WriteNewline(w) /\ content'[f] = Append(content[f], NL)
<1>0. content \in Seq(Seq(Chunks))
  BY DEF FullType, LogType
<1>1. CASE WriteText(w)
  BY <1>0, <1>1 DEF WriteText
<1>2. CASE WriteNewline(w)
  BY <1>0, <1>2 DEF WriteNewline
<1>3. CASE OpenLog(w)
  <2>1. content' = content \/ content' = Append(content, <<>>)
    BY <1>3 DEF OpenLog, OpenToAppend
  <2>2. <<>> \in Seq(Chunks)
    OBVIOUS
  <2>3. f \in DOMAIN Append(content, <<>>) /\ Append(content, <<>>)[f] = content[f]
    BY <1>0, <2>2
  <2> QED BY <2>1, <2>3
<1>4. CASE CheckSize(w) \/ CheckExists(w) \/ Rename(w) \/ RenameFails(w) \/ Crash(w)
  BY <1>4 DEF CheckSize, CheckExists, Rename, RenameFails, Crash
<1> QED BY <1>1, <1>2, <1>3, <1>4 DEF Write

LEMMA TextIsEntry ==
  ASSUME FullType, NEW w \in Writers, WriteText(w)
  PROVE  <<w, count[w]>> \in Entry /\ <<w, count[w]>> \in Chunks \ {NL}
<1>1. <<w, count[w]>> \in Entry
  BY AuditLogAssumption DEF FullType, LogType, WriteText, Entry
<1> QED BY <1>1, EntryIsText DEF Chunks

LEMMA HoldsKept ==
  ASSUME FullType, NEW w \in Writers, Write(w), NEW f \in DOMAIN content, NEW e, Holds(f, e)
  PROVE  f \in DOMAIN content' /\ Holds(f, e)'
<1>1. PICK i \in DOMAIN content[f] : content[f][i] = e
  BY DEF Holds
<1>2. content[f] \in Seq(Chunks) /\ NL \in Chunks
  BY DEF FullType, LogType, Chunks
<1>3. ASSUME NEW c \in Chunks, content'[f] = Append(content[f], c)
      PROVE  i \in DOMAIN content'[f] /\ content'[f][i] = e
  BY <1>1, <1>2, <1>3
<1>4. i \in DOMAIN content'[f] /\ content'[f][i] = e
  BY <1>1, <1>2, <1>3, Extended, TextIsEntry
<1> QED BY <1>4, Extended DEF Holds

(* A rename takes a name from a file only with the oldest name in use.     *)
LEMMA NamesKept ==
  ASSUME FullType, Apart, NEW w \in Writers, Write(w)
  PROVE  /\ Gone => Gone'
         /\ \A f \in DOMAIN content : /\ Named(f) => Named(f)' \/ Gone'
                                      /\ IsRotated(f) => IsRotated(f)' \/ Gone'
<1>0. /\ Highest \in Nat /\ Slot = 0..MaxRotations /\ MaxRotations \in Slot \ {0}
      /\ Highest + 1 = MaxRotations /\ 0 \in Slot
  BY AuditLogAssumption DEF Highest, Slot
<1>1. name \in [Slot -> 0..Len(content)] /\ Len(content) \in Nat
      /\ \A f \in DOMAIN content : f # NoFile
  BY DEF FullType, LogType, NoFile
<1>2. CASE Rename(w)
  <2>s. PICK s : s = slot[w]
    OBVIOUS
  <2>1. s \in 0..Highest /\ s \in Slot /\ s + 1 \in Slot \ {0} /\ s # s + 1 /\ Exists(s)
    <3>1. s \in Slot /\ s =< Highest /\ Exists(s)
      BY <1>2, <2>s DEF FullType, LogType, Rename
    <3> QED BY <1>0, <3>1
  <2>2. name' = [name EXCEPT ![s + 1] = name[s], ![s] = NoFile]
    BY <1>2, <2>s DEF Rename
  <2>3. /\ name'[s + 1] = name[s] /\ name[s] # NoFile
        /\ \A n \in Slot \ {s, s + 1} : name'[n] = name[n]
    BY <1>1, <2>1, <2>2 DEF Exists
  <2>4. s < Highest => name[s + 1] = NoFile
    BY <1>2, <2>s DEF Apart, FreeAbove, Rotating, Rename, Exists
  <2>5. s < Highest \/ s + 1 = MaxRotations
    BY <1>0, <2>1
  <2>6. s + 1 = MaxRotations => Gone'
    BY <2>3 DEF Gone, Exists
  <2>7. Gone => Gone'
    <3>1. CASE s + 1 = MaxRotations
      BY <2>6, <3>1
    <3>2. CASE s + 1 # MaxRotations
      <4>1. MaxRotations \in Slot \ {s, s + 1}
        BY <1>0, <2>1, <3>2
      <4> QED BY <2>3, <4>1 DEF Gone, Exists
    <3> QED BY <3>1, <3>2
  <2>8. ASSUME NEW f \in DOMAIN content, ~Gone', NEW n \in Slot, name[n] = f
        PROVE  \E m \in Slot : name'[m] = f /\ (n # 0 => m # 0)
    <3>1. n # s + 1
      BY <1>1, <2>4, <2>5, <2>6, <2>8
    <3>2. CASE n = s
      BY <2>1, <2>3, <2>8, <3>2
    <3>3. CASE n # s
      BY <2>3, <2>8, <3>1, <3>3
    <3> QED BY <3>2, <3>3
  <2> QED BY <2>7, <2>8 DEF Named, IsRotated
<1>3. CASE OpenLog(w)
  <2>1. PICK handle : OpenActive(handle)
    BY <1>3 DEF OpenLog
  <2>2. /\ \A n \in Slot \ {0} : name'[n] = name[n]
        /\ name[0] # NoFile => name'[0] = name[0]
    BY <1>0, <1>1, <2>1 DEF OpenActive, Exists
  <2> QED BY <1>0, <1>1, <2>2 DEF Named, IsRotated, Gone, Exists
<1>4. CASE CheckSize(w) \/ CheckExists(w) \/ RenameFails(w) \/ WriteText(w) \/ WriteNewline(w) \/ Crash(w)
  <2>1. name' = name
    BY <1>4 DEF CheckSize, CheckExists, RenameFails, WriteText, WriteNewline, Crash
  <2> QED BY <2>1 DEF Named, IsRotated, Gone, Exists
<1> QED BY <1>2, <1>3, <1>4 DEF Write

(* The entries to spare are those of before, and one whose text is written.*)
LEMMA NewlySparing ==
  ASSUME FullType, NEW w \in Writers, Write(w)
  PROVE  /\ exposed \subseteq exposed'
         /\ \A e \in Sparing' : e \in Sparing \/ (WriteText(w) /\ e = <<w, count[w]>>)
<1>0. pc \in [Writers -> {"idle", "shift", "rename", "open", "text", "newline"}]
      /\ count \in [Writers -> 0..MaxWrites]
  BY DEF FullType, LogType
<1>1. exposed \subseteq exposed'
  BY DEF Write, CheckSize, CheckExists, Rename, RenameFails, OpenLog, WriteText, WriteNewline,
         Crash, history
<1>2. CASE CheckSize(w)
  <2>1. /\ done' = done /\ pc'[w] # "newline"
        /\ \A v \in Writers \ {w} : pc'[v] = pc[v] /\ count'[v] = count[v]
    <3>1. pc' = [pc EXCEPT ![w] = "shift"] \/ pc' = [pc EXCEPT ![w] = "open"]
      BY <1>2 DEF CheckSize, Goto
    <3> QED BY <1>0, <1>2, <3>1 DEF CheckSize
  <2>2. Texts' \subseteq Texts
    BY <2>1 DEF Texts
  <2> QED BY <1>1, <2>1, <2>2 DEF Sparing
<1>3. CASE CheckExists(w) \/ Rename(w) \/ RenameFails(w) \/ OpenLog(w) \/ Crash(w)
  <2>1. /\ done' = done /\ count' = count /\ pc'[w] # "newline"
        /\ \A v \in Writers \ {w} : pc'[v] = pc[v]
    BY <1>0, <1>3 DEF CheckExists, Rename, RenameFails, OpenLog, Crash, Goto, history
  <2>2. Texts' \subseteq Texts
    BY <2>1 DEF Texts
  <2> QED BY <1>1, <2>1, <2>2 DEF Sparing
<1>4. CASE WriteText(w)
  <2>1. /\ done' = done /\ count' = count
        /\ \A v \in Writers \ {w} : pc'[v] = pc[v]
    BY <1>0, <1>4 DEF WriteText, Goto
  <2>2. Texts' \subseteq Texts \cup {<<w, count[w]>>}
    BY <2>1 DEF Texts
  <2> QED BY <1>1, <1>4, <2>1, <2>2 DEF Sparing
<1>5. CASE WriteNewline(w)
  <2>1. /\ done' = done \cup {<<w, count[w]>>} /\ count' = count /\ pc[w] = "newline"
        /\ pc'[w] = "idle" /\ \A v \in Writers \ {w} : pc'[v] = pc[v]
    BY <1>0, <1>5 DEF WriteNewline, Goto
  <2>2. Texts' \subseteq Texts /\ <<w, count[w]>> \in Texts
    BY <2>1 DEF Texts
  <2> QED BY <1>1, <2>1, <2>2 DEF Sparing
<1> QED BY <1>1, <1>2, <1>3, <1>4, <1>5 DEF Write

(* A step of a writer.                                                     *)
LEMMA SparedWrite ==
  ASSUME FullType, FullType', Apart, Spared, NEW w \in Writers, Write(w)
  PROVE  Spared'
<1>0. /\ UNCHANGED <<prune, kept, pruneFile>>
      /\ pruneFile \in 0..Len(content) /\ Len(content) \in Nat
  BY DEF Write, CheckSize, CheckExists, Rename, RenameFails, OpenLog, WriteText, WriteNewline,
         Crash, pruneVars, FullType, LogType, HistoryType
<1>1. ASSUME NEW e, InFile(e) PROVE InFile(e)'
  BY <1>1, HoldsKept, NamesKept DEF InFile
<1>2. ASSUME NEW e, Aside(e) PROVE Aside(e)'
  <2>1. InKept(e) => InKept(e)'
    BY <1>0 DEF InKept
  <2> QED BY <1>2, <2>1, HoldsKept, NamesKept DEF Aside
<1>3. ASSUME NEW e, Saved(e), pruneFile # NoFile PROVE Saved(e)'
  <2>1. InKept(e) => InKept(e)'
    BY <1>0 DEF InKept
  <2>2. pruneFile \in DOMAIN content
    BY <1>0, <1>3 DEF NoFile, FullType, LogType
  <2>3. Named(pruneFile) => Named(pruneFile)' \/ Gone'
    <3>1. PICK f \in DOMAIN content : f = pruneFile
      BY <2>2
    <3>2. Named(f) => Named(f)' \/ Gone'
      BY NamesKept
    <3> QED BY <1>0, <3>1, <3>2 DEF Named
  <2>4. Gone => Gone'
    BY NamesKept
  <2>5. ASSUME NEW f \in DOMAIN content \ {pruneFile}, Named(f), Holds(f, e)
        PROVE  Saved(e)'
    <3>1. Named(f)' \/ Gone'
      BY <2>5, NamesKept
    <3>2. f \in DOMAIN content' /\ Holds(f, e)' /\ f # pruneFile'
      BY <1>0, <2>5, HoldsKept
    <3> QED BY <3>1, <3>2 DEF Saved
  <2>6. InKept(e) /\ Named(pruneFile) => Saved(e)'
    BY <2>1, <2>3 DEF Saved
  <2>7. Gone => Saved(e)'
    BY <2>4 DEF Saved
  <2> QED BY <1>3, <2>5, <2>6, <2>7 DEF Saved
<1>4. ASSUME WriteText(w)
      PROVE  /\ file[w] \in DOMAIN content /\ Named(file[w])' /\ content[file[w]] \in Seq(Chunks)
             /\ content'[file[w]] = Append(content[file[w]], <<w, count[w]>>)
             /\ file[w] \in DOMAIN content' /\ Holds(file[w], <<w, count[w]>>)'
  <2>1. file[w] \in DOMAIN content /\ content \in Seq(Seq(Chunks)) /\ 0 \in Slot
    BY <1>4, AuditLogAssumption DEF WriteText, FullType, LogType, NoFile, Slot
  <2>2. name'[0] = file[w]
    BY <1>4 DEF WriteText, Apart, ToActive
  <2>3. content'[file[w]] = Append(content[file[w]], <<w, count[w]>>) /\ file[w] \in DOMAIN content'
    BY <1>4, <2>1 DEF WriteText
  <2>4. content[file[w]] \in Seq(Chunks)
    BY <2>1
  <2>5. Holds(file[w], <<w, count[w]>>)'
    <3>1. Len(content[file[w]]) + 1 \in DOMAIN content'[file[w]]
          /\ content'[file[w]][Len(content[file[w]]) + 1] = <<w, count[w]>>
      BY <1>4, <2>3, <2>4, TextIsEntry
    <3>2. file'[w] = file[w] /\ count'[w] = count[w]
      BY <1>4 DEF WriteText
    <3> QED BY <3>1, <3>2 DEF Holds
  <2>6. Named(file[w])'
    <3>1. file'[w] = file[w]
      BY <1>4 DEF WriteText
    <3> QED BY <2>1, <2>2, <3>1 DEF Named
  <2> QED BY <2>1, <2>3, <2>4, <2>5, <2>6
<1>5. ASSUME WriteText(w), NEW e, e = <<w, count[w]>>
      PROVE  InFile(e)'
  <2>1. file'[w] = file[w] /\ count'[w] = count[w]
    BY <1>5 DEF WriteText
  <2> QED BY <1>4, <1>5, <2>1 DEF InFile
<1>6. ASSUME prune \in {"read", "truncated"}
      PROVE  Busy' /\ Sparing' \subseteq Sparing
  <2>1. Busy
    BY <1>6 DEF Spared
  <2>2. \A v \in Writers \ {w} : pc'[v] = pc[v] /\ count'[v] = count[v]
    BY DEF Write, CheckSize, CheckExists, Rename, RenameFails, OpenLog, WriteText, WriteNewline,
           Crash, Goto, FullType, LogType
  <2>3. pc'[w] # "idle" => <<w, count'[w]>> \in exposed'
    <3>1. CASE CheckSize(w)
      BY <1>6, <3>1 DEF CheckSize
    <3>2. CASE ~CheckSize(w)
      <4>1. pc[w] # "idle" /\ count'[w] = count[w]
        BY <3>2 DEF Write, CheckExists, Rename, RenameFails, OpenLog, WriteText, WriteNewline, Crash
      <4> QED BY <2>1, <4>1, NewlySparing DEF Busy
    <3> QED BY <3>1, <3>2
  <2>4. Busy'
    BY <2>1, <2>2, <2>3, NewlySparing DEF Busy
  <2>5. WriteText(w) => <<w, count[w]>> \in exposed'
    BY <2>1, NewlySparing DEF WriteText, Busy
  <2>6. Sparing' \subseteq Sparing
    <3> SUFFICES ASSUME NEW e \in Sparing' PROVE e \in Sparing
      OBVIOUS
    <3>1. e \notin exposed'
      BY DEF Sparing
    <3> QED BY <2>5, <3>1, NewlySparing
  <2> QED BY <2>4, <2>6
<1>7. ASSUME prune = "idle", NEW e \in Sparing' PROVE OnLine(e)'
  <2>0. e \notin exposed'
    BY DEF Sparing
  <2>1. CASE WriteText(w) /\ e = <<w, count[w]>>
    <3>1. OpenLine(file[w]) = {}
      BY <1>7, <2>0, <2>1 DEF WriteText
    <3>2. content[file[w]] = <<>> \/ content[file[w]][Len(content[file[w]])] = NL
      BY <1>4, <2>1, <3>1, OpenLineIs
    <3>3. Readable(file[w], e)'
      <4>1. \E i \in DOMAIN content'[file[w]] :
              content'[file[w]][i] = <<w, count[w]>> /\ ReadableAt(content'[file[w]], i)
        <5>1. PICK c \in Chunks \ {NL} : c = <<w, count[w]>>
          BY <2>1, TextIsEntry
        <5>2. PICK s \in Seq(Chunks) : s = content[file[w]]
          BY <1>4, <2>1
        <5>3. content'[file[w]] = Append(s, c)
          BY <1>4, <2>1, <5>1, <5>2
        <5>4. s = <<>> \/ s[Len(s)] = NL
          BY <3>2, <5>2
        <5>5. \E i \in DOMAIN Append(s, c) : Append(s, c)[i] = c /\ ReadableAt(Append(s, c), i)
          BY <5>4, NewReadable
        <5> QED BY <5>1, <5>3, <5>5
      <4>2. file'[w] = file[w]
        BY <2>1 DEF WriteText
      <4> QED BY <2>1, <4>1, <4>2 DEF Readable
    <3>4. file'[w] = file[w]
      BY <2>1 DEF WriteText
    <3> QED BY <1>4, <2>1, <3>3, <3>4 DEF OnLine
  <2>2. CASE e \in Sparing
    <3>1. OnLine(e) /\ e \in Entry
      <4>1. e \in Entry
        <5>1. e \in done' \cup Texts'
          BY DEF Sparing
        <5>2. done' \subseteq Entry
          BY DEF FullType, HistoryType
        <5>3. Texts' \subseteq Entry
          <6>1. \A v \in Writers : pc'[v] = "newline" => count'[v] \in 1..MaxWrites
            <7>1. \A v \in Writers : count'[v] \in 0..MaxWrites
              BY DEF FullType, LogType
            <7>2. \A v \in Writers : pc'[v] # "idle" => count'[v] # 0
              BY DEF FullType, LogType
            <7>3. MaxWrites \in Nat
              BY AuditLogAssumption
            <7>4. \A c \in 0..MaxWrites : c # 0 => c \in 1..MaxWrites
              BY <7>3
            <7> QED BY <7>1, <7>2, <7>4
          <6>2. \A v \in Writers : pc'[v] = "newline" => <<v, count'[v]>> \in Entry
            BY <6>1 DEF Entry
          <6>3. Texts' = {<<v, count'[v]>> : v \in {u \in Writers : pc'[u] = "newline"}}
            BY DEF Texts
          <6> QED BY <6>2, <6>3
        <5> QED BY <5>1, <5>2, <5>3
      <4> QED BY <1>7, <2>2, <4>1 DEF Spared
    <3>2. CASE Gone
      BY <3>2, NamesKept DEF OnLine
    <3>3. CASE ~Gone
      <4>1. PICK f \in DOMAIN content : Named(f) /\ Readable(f, e)
        BY <3>1, <3>3 DEF OnLine
      <4>2. PICK i \in DOMAIN content[f] : content[f][i] = e /\ ReadableAt(content[f], i)
        BY <4>1 DEF Readable
      <4>3. content[f] \in Seq(Chunks) /\ NL \in Chunks
        BY DEF FullType, LogType, Chunks
      <4>4. CASE content'[f] = content[f]
        <5>1. Readable(f, e)'
          BY <4>1, <4>4 DEF Readable
        <5> QED BY <4>1, <5>1, Extended, NamesKept DEF OnLine
      <4>5. CASE WriteNewline(w) /\ content'[f] = Append(content[f], NL)
        <5>1. Readable(f, e)'
          BY <4>2, <4>3, <4>5, StillReadable DEF Readable
        <5> QED BY <4>1, <5>1, Extended, NamesKept DEF OnLine
      <4>6. CASE f = file[w] /\ WriteText(w) /\ content'[f] = Append(content[f], <<w, count[w]>>)
        <5>1. OpenLine(f) \subseteq exposed'
          BY <1>7, <4>6 DEF WriteText
        <5>2. i # Len(content[f])
          <6>1. content[f] # <<>>
            BY <4>2, <4>3
          <6> QED BY <2>0, <3>1, <4>2, <4>3, <5>1, <6>1, OpenLineIs
        <5>3. Readable(f, e)'
          BY <4>2, <4>3, <4>6, <5>2, StillReadable, TextIsEntry DEF Readable
        <5> QED BY <4>1, <5>3, Extended, NamesKept DEF OnLine
      <4> QED BY <4>4, <4>5, <4>6, Extended
    <3> QED BY <3>2, <3>3
  <2> QED BY <1>7, <2>1, <2>2, NewlySparing
<1>8. ASSUME \A e \in Sparing : InFile(e), NEW e \in Sparing' PROVE InFile(e)'
  BY <1>1, <1>5, <1>8, NewlySparing
<1>9. ASSUME \A e \in Sparing : Matches(e) => InFile(e), NEW e \in Sparing', Matches(e)
      PROVE  InFile(e)'
  BY <1>1, <1>5, <1>9, NewlySparing
<1>10. CASE prune = "idle"
  BY <1>0, <1>7, <1>10 DEF Spared
<1>11. CASE prune = "read"
  BY <1>0, <1>1, <1>2, <1>6, <1>11 DEF Spared
<1>12. CASE prune = "truncated"
  BY <1>0, <1>3, <1>6, <1>12 DEF Spared
<1>13. CASE prune = "killed"
  BY <1>0, <1>8, <1>13 DEF Spared
<1>14. CASE prune = "done"
  BY <1>0, <1>9, <1>14 DEF Spared
<1> QED BY <1>10, <1>11, <1>12, <1>13, <1>14 DEF FullType, HistoryType

(* The steps of the pruner.                                                *)
LEMMA SparedRead ==
  ASSUME FullType, Spared, PruneRead
  PROVE  Spared'
<1>0. /\ UNCHANGED <<content, name, pc, count, done, pruneFile>>
      /\ prune = "idle" /\ prune' = "read" /\ exposed \subseteq exposed'
  BY DEF PruneRead, writerVars
<1>1. Texts' = Texts /\ Sparing' \subseteq Sparing /\ (Gone' <=> Gone)
  BY <1>0 DEF Texts, Sparing, Gone, Exists
<1>2. Busy'
  BY <1>0 DEF PruneRead, Busy
<1>3. ASSUME NEW e, OnLine(e) PROVE InFile(e)'
  BY <1>0, <1>1, <1>3 DEF OnLine, InFile, Readable, Holds, Named
<1>4. ASSUME NEW e, OnLine(e), Matches(e) PROVE Aside(e)'
  <2>1. CASE Gone
    BY <1>1, <2>1 DEF Aside
  <2>2. CASE ~Gone
    <3>1. PICK f \in DOMAIN content : Named(f) /\ Readable(f, e)
      BY <1>4, <2>2 DEF OnLine
    <3>2. PICK n \in Slot : name[n] = f
      BY <3>1 DEF Named
    <3>3. CASE n # 0
      BY <1>0, <3>1, <3>2, <3>3 DEF Aside, IsRotated, Readable, Holds
    <3>4. CASE n = 0
      <4>1. PICK i \in DOMAIN content[f] : content[f][i] = e /\ ReadableAt(content[f], i)
        BY <3>1 DEF Readable
      <4>2. content[f] \in Seq(Chunks) /\ i \in Keeps(content[f])
        BY <1>4, <4>1 DEF FullType, LogType, Keeps
      <4>3. kept' = Rewritten(content[f])
        BY <3>2, <3>4 DEF PruneRead
      <4> QED BY <4>1, <4>2, <4>3, RewrittenKeeps DEF Aside, InKept
    <3> QED BY <3>3, <3>4
  <2> QED BY <2>1, <2>2
<1> QED BY <1>0, <1>1, <1>2, <1>3, <1>4 DEF Spared

LEMMA SparedTruncate ==
  ASSUME FullType, Apart, Spared, PruneTruncate
  PROVE  Spared'
<1>0. 0 \in Slot /\ MaxRotations \in Slot \ {0}
  BY AuditLogAssumption DEF Slot
<1>1. PICK handle \in 1..(Len(content) + 1) :
        OpenActive(handle) /\ OpenTruncated(handle) /\ pruneFile' = handle
  BY DEF PruneTruncate
<1>2. /\ UNCHANGED <<pc, count, done, exposed, kept>>
      /\ prune = "read" /\ prune' = "truncated"
      /\ name \in [Slot -> 0..Len(content)] /\ Len(content) \in Nat
      /\ content \in Seq(Seq(Chunks))
  BY DEF PruneTruncate, writerVars, history, FullType, LogType
<1>3. /\ name'[0] = handle
      /\ \A n \in Slot \ {0} : name'[n] = name[n]
      /\ \A n \in Slot \ {0} : Exists(n) => name[n] # handle
  <2>1. CASE Exists(0)
    BY <1>0, <1>1, <2>1 DEF OpenActive, Apart, Distinct, Exists
  <2>2. CASE ~Exists(0)
    <3>1. handle = Len(content) + 1 /\ name' = [name EXCEPT ![0] = handle]
      BY <1>1, <2>2 DEF OpenActive
    <3> QED BY <1>0, <1>2, <3>1
  <2> QED BY <2>1, <2>2
<1>4. \A f \in DOMAIN content \ {handle} : f \in DOMAIN content' /\ content'[f] = content[f]
  <2>1. <<>> \in Seq(Chunks)
    OBVIOUS
  <2> QED BY <1>1, <1>2, <2>1 DEF OpenTruncated
<1>5. Sparing' = Sparing /\ Busy' /\ (Gone => Gone')
  <2>1. Busy
    BY <1>2 DEF Spared
  <2> QED BY <1>0, <1>2, <1>3, <2>1 DEF Texts, Sparing, Gone, Exists, Busy
<1>6. ASSUME NEW e, Aside(e) PROVE Saved(e)'
  <2>1. CASE Gone
    BY <1>5, <2>1 DEF Saved
  <2>2. CASE InKept(e)
    <3>1. Named(pruneFile)'
      BY <1>0, <1>1, <1>3 DEF Named
    <3> QED BY <1>2, <2>2, <3>1 DEF Saved, InKept
  <2>3. ASSUME NEW f \in DOMAIN content, IsRotated(f), Holds(f, e) PROVE Saved(e)'
    <3>1. PICK n \in Slot \ {0} : name[n] = f
      BY <2>3 DEF IsRotated
    <3>2. f # handle /\ name'[n] = f
      BY <1>2, <1>3, <3>1 DEF Exists, NoFile
    <3>3. f \in DOMAIN content' \ {pruneFile'} /\ Holds(f, e)' /\ Named(f)'
      BY <1>1, <1>4, <2>3, <3>1, <3>2 DEF Holds, Named
    <3> QED BY <3>3 DEF Saved
  <2> QED BY <1>6, <2>1, <2>2, <2>3 DEF Aside
<1>7. \A e \in Sparing' : Matches(e) => Saved(e)'
  BY <1>2, <1>5, <1>6 DEF Spared
<1>8. pruneFile' # NoFile
  BY <1>1 DEF NoFile
<1> QED BY <1>2, <1>5, <1>7, <1>8 DEF Spared

LEMMA SparedPruneWrite ==
  ASSUME FullType, Spared, PruneWrite
  PROVE  Spared'
<1>0. /\ UNCHANGED <<name, pc, count, done, exposed, kept, pruneFile>>
      /\ prune = "truncated" /\ prune' = "done"
      /\ content' = [content EXCEPT ![pruneFile] = kept \o SubSeq(@, Len(kept) + 1, Len(@))]
  BY DEF PruneWrite, writerVars, history
<1>1. /\ pruneFile \in DOMAIN content /\ content[pruneFile] \in Seq(Chunks) /\ kept \in Seq(Chunks)
      /\ DOMAIN content' = DOMAIN content
      /\ \A f \in DOMAIN content \ {pruneFile} : content'[f] = content[f]
  BY <1>0 DEF FullType, LogType, HistoryType, NoFile
<1>2. PICK rest : /\ rest \in Seq(Chunks)
                  /\ content'[pruneFile] = kept \o rest
  <2>1. Len(kept) \in Nat /\ Len(content[pruneFile]) \in Nat
    BY <1>1
  <2>2. SubSeq(content[pruneFile], Len(kept) + 1, Len(content[pruneFile])) \in Seq(Chunks)
    BY <1>1, <2>1, SubSeqProperties
  <2>3. content'[pruneFile] = kept \o SubSeq(content[pruneFile], Len(kept) + 1, Len(content[pruneFile]))
    BY <1>0, <1>1
  <2> QED BY <2>2, <2>3
<1>3. ASSUME NEW e, InKept(e) PROVE Holds(pruneFile, e)'
  <2>1. PICK k \in DOMAIN kept : kept[k] = e
    BY <1>3 DEF InKept
  <2>2. k \in DOMAIN (kept \o rest) /\ (kept \o rest)[k] = e
    BY <1>1, <1>2, <2>1
  <2> QED BY <1>0, <1>2, <2>2 DEF Holds
<1>4. ASSUME NEW e, Saved(e) PROVE InFile(e)'
  <2>1. CASE Gone
    BY <1>0, <2>1 DEF InFile, Gone, Exists
  <2>2. CASE InKept(e) /\ Named(pruneFile)
    BY <1>0, <1>1, <1>3, <2>2 DEF InFile, Named
  <2>3. ASSUME NEW f \in DOMAIN content \ {pruneFile}, Named(f), Holds(f, e) PROVE InFile(e)'
    BY <1>0, <1>1, <2>3 DEF InFile, Named, Holds
  <2> QED BY <1>4, <2>1, <2>2, <2>3 DEF Saved
<1>5. Sparing' = Sparing
  BY <1>0 DEF Sparing, Texts
<1> QED BY <1>0, <1>4, <1>5 DEF Spared

LEMMA SparedNext ==
  ASSUME SpareInv, [Next]_vars
  PROVE  SpareInv'
<1>1. FullType /\ FullType'
  BY FullTypeNext DEF SpareInv
<1>2. raced => raced'
  BY DEF Next, Write, CheckSize, CheckExists, Rename, RenameFails, OpenLog,
         WriteText, WriteNewline, Crash, PruneRead, PruneTruncate, PruneWrite, PruneCrash,
         history, vars
<1>3. Apart => raced' \/ Apart'
  BY <1>1, ApartNext
<1>4. ASSUME Apart, Spared PROVE Spared'
  <2>1. CASE PruneCrash \/ UNCHANGED vars
    <3>1. UNCHANGED <<content, name, pc, count, done, exposed, kept, pruneFile>>
      BY <2>1 DEF PruneCrash, vars, writerVars, history, pruneVars
    <3>2. Sparing' = Sparing /\ (Busy' <=> Busy)
      BY <3>1 DEF Sparing, Texts, Busy
    <3>3. \A e : (OnLine(e)' <=> OnLine(e)) /\ (InFile(e)' <=> InFile(e))
      BY <3>1 DEF OnLine, InFile, Gone, Named, Readable, Holds, Exists
    <3>4. \A e : (Aside(e)' <=> Aside(e)) /\ (Saved(e)' <=> Saved(e))
      BY <3>1 DEF Aside, Saved, InKept, Gone, Named, IsRotated, Holds, Exists
    <3>5. prune' = prune \/ (prune \in {"read", "truncated"} /\ prune' = "killed")
      BY <2>1 DEF PruneCrash, vars, pruneVars
    <3> QED BY <1>4, <3>1, <3>2, <3>3, <3>4, <3>5 DEF Spared
  <2> QED BY <1>1, <1>4, <2>1, SparedWrite, SparedRead, SparedTruncate, SparedPruneWrite DEF Next
<1> QED BY <1>1, <1>2, <1>3, <1>4 DEF SpareInv

LEMMA SparedInit == Init => SpareInv
<1> SUFFICES ASSUME Init PROVE Spared /\ Apart
  BY FullTypeInit DEF SpareInv
<1>1. Apart
  BY OrderInit DEF OrderInv, Init
<1>2. Sparing = {Old} /\ prune = "idle" /\ pruneFile = NoFile
  BY DEF Init, Sparing, Texts
<1>3. OnLine(Old)
  <2>1. 0 \in Slot /\ name[0] = 1
    BY AuditLogAssumption DEF Init, Slot
  <2>2. 1 \in DOMAIN content /\ content[1] = <<Old, NL>>
    BY DEF Init
  <2>3. 1 \in DOMAIN content[1] /\ content[1][1] = Old /\ content[1][2] = NL /\ Old # NL
    BY <2>2 DEF Old, NL
  <2>4. Readable(1, Old)
    BY <2>3 DEF Readable, ReadableAt
  <2> QED BY <2>1, <2>2, <2>4 DEF OnLine, Named
<1> QED BY <1>1, <1>2, <1>3 DEF Spared

(* `audit --prune` costs no entry that it was not asked to drop            *)
(* (prune_audit_log), with writers, rotations and kills between its        *)
(* reading, its truncation and its write: all the entries that were done   *)
(* and on a line of their own when it read the log are in a file of it.    *)
THEOREM PruneSparesTheRest == Spec => []PruneSparesRest
<1>1. SpareInv => PruneSparesRest
  <2> SUFFICES ASSUME SpareInv, ~raced, ~HalfPruned, NEW e \in done \ exposed,
                      prune = "done" => Matches(e)
               PROVE  Found(e) \/ Exists(MaxRotations)
    BY DEF PruneSparesRest
  <2>1. e \in Sparing
    BY DEF Sparing
  <2>2. prune \in {"idle", "read", "truncated", "done", "killed"} /\ Spared
    BY DEF SpareInv, FullType, HistoryType
  <2>3. OnLine(e) => InFile(e)
    BY DEF OnLine, InFile, Readable, Holds
  <2>4. InFile(e)
    BY <2>1, <2>2, <2>3 DEF Spared, HalfPruned
  <2>5. ASSUME NEW f \in DOMAIN content, Named(f), Holds(f, e) PROVE Found(e)
    <3>1. PICK n \in Slot : name[n] = f
      BY <2>5 DEF Named
    <3>2. content[f] \in Seq(Chunks) /\ Exists(n)
      BY <3>1 DEF SpareInv, FullType, LogType, Exists, NoFile
    <3>3. Places(n) = DOMAIN content[f]
      BY <3>1, <3>2 DEF Places, FileSize
    <3> QED BY <2>5, <3>1, <3>3 DEF Found, Chunk, Holds
  <2> QED BY <2>4, <2>5 DEF InFile, Gone
<1> QED BY <1>1, SparedInit, SparedNext, PTL DEF Spec
=============================================================================
