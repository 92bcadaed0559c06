----------------------------- MODULE BlockStore -----------------------------
(***************************************************************************)
(* The block file of a node (rust/src/blockstore.rs): an append-only file  *)
(* of lines and the index of their offsets in memory.  The sidecar files   *)
(* beside it (offsets and hashes, a cache) are not modelled.               *)
(*                                                                         *)
(* Bytes are abstracted to cells: the text of a line is one cell and its   *)
(* newline another, so that the offsets of the code keep their arithmetic  *)
(* (a line takes len + 1).  A write that stops inside the text leaves a    *)
(* cell that does not parse.  Offsets count from 0, as in the code.        *)
(***************************************************************************)
EXTENDS Integers, Sequences, FiniteSets

CONSTANTS Line,         \* the lines a caller may store (blocks)
          MaxLines      \* bound: how many lines the file has room for

ASSUME StoreAssumption == /\ MaxLines \in Nat
                          /\ {"nl", "half", "nul"} \cap Line = {}

VARIABLES file,     \* the cells of blocks.jsonl
          offsets,  \* the index: the offset of each line
          up,       \* whether the process runs
          log,      \* history: the lines the caller was told are stored
          frayed    \* history: the first height at which the file may end where
                    \* the index does not know it (a last line kept without its
                    \* newline, a failed write that was not repaired), or 0

vars == <<file, offsets, up, log, frayed>>

Init == /\ file = <<>> /\ offsets = <<>> /\ log = <<>>
        /\ up = FALSE /\ frayed = 0

(* set_len of a file: cut, or extended with zero bytes. *)
SetLen(f, n) == [i \in 1..n |-> IF i <= Len(f) THEN f[i] ELSE "nul"]

(* file_bytes: the end of the file as the index knows it. *)
FileBytes == IF offsets = <<>> THEN 0 ELSE offsets[Len(offsets)] + 2

(* What an append that stops early has written: nothing, part of the text,  *)
(* or the text without its newline, which is a second write.                *)
Torn(l) == {<<>>, <<"half">>, <<l>>}

(* A cut after the n-th line takes a frayed end behind it away. *)
FrayedUpTo(n) == IF frayed > n THEN 0 ELSE frayed

(* get: the cell at the offset, when it holds a line. *)
Get(h) == IF offsets[h] < Len(file) THEN file[offsets[h] + 1] ELSE "nul"

(* add_block appends only to a chain that has its genesis. *)
Appending == up /\ log # <<>> /\ Len(log) < MaxLines /\ Len(file) < 2 * MaxLines

-----------------------------------------------------------------------------
(* append: the text and the newline are two writes at the real end of the   *)
(* file; the index takes the offset it computed itself.                     *)
AppendLine(l) ==
  /\ Appending
  /\ file' = file \o <<l, "nl">>
  /\ offsets' = Append(offsets, FileBytes)
  /\ log' = Append(log, l)
  /\ UNCHANGED <<up, frayed>>

(* Mutant of Repaired: the cut takes the newline of the last line too. *)
RepairedShort(f) == /\ file' = SetLen(f, FileBytes - 1)
                    /\ frayed' = FrayedUpTo(Len(log))

(* The repair of a failed append: a cut at the end the index knows. *)
Repaired(f) == /\ file' = SetLen(f, FileBytes)
               /\ frayed' = FrayedUpTo(Len(log))

(* The repair fails too; its result is ignored. *)
Unrepaired(f) == /\ file' = f
                 /\ frayed' = IF f # file /\ frayed = 0 THEN Len(log) + 1 ELSE frayed

(* append whose write fails: the caller gets an error. *)
AppendFails(l) ==
  /\ Appending
  /\ \E t \in Torn(l) : Repaired(file \o t) \/ Unrepaired(file \o t)
  /\ UNCHANGED <<offsets, up, log>>

(* truncate_from: the lines from the h-th on are dropped (a reorg). *)
TruncateFrom(h) ==
  /\ up /\ h \in 2..Len(offsets)
  /\ file' = SetLen(file, offsets[h])
  /\ offsets' = SubSeq(offsets, 1, h - 1)
  /\ log' = SubSeq(log, 1, h - 1)
  /\ frayed' = FrayedUpTo(h - 1)
  /\ UNCHANGED up

(* reset: the genesis block is adopted; a temporary file is renamed. *)
Reset(l) ==
  /\ up /\ log = <<>>
  /\ file' = <<l, "nl">> /\ offsets' = <<0>> /\ log' = <<l>>
  /\ frayed' = 0
  /\ UNCHANGED up

(* The process dies, between two operations or inside an append. *)
Crash ==
  /\ up
  /\ up' = FALSE
  /\ \/ UNCHANGED file
     \/ \E l \in Line : \E t \in Torn(l) \cup {<<l, "nl">>} :
          Appending /\ file' = file \o t
  /\ offsets' = <<>>
  /\ UNCHANGED <<log, frayed>>

-----------------------------------------------------------------------------
(* scan: lines run from a start to the next newline or the end of the file; *)
(* blank ones are skipped.                                                  *)
Starts == {s \in 0..(Len(file) - 1) : /\ s = 0 \/ file[s] = "nl"
                                      /\ file[s + 1] # "nl"}

LineEnd(s) == CHOOSE e \in s..Len(file) :
                /\ e = Len(file) \/ file[e + 1] = "nl"
                /\ \A i \in (s + 1)..e : file[i] # "nl"

Parses(s) == LineEnd(s) = s + 1 /\ file[s + 1] \in Line

Complete(s) == LineEnd(s) < Len(file)

(* A complete line that does not parse is an error the boot does not        *)
(* survive.                                                                 *)
Readable == \A s \in Starts : Complete(s) => Parses(s)

(* The offsets of S in the order of the file, in which the scan pushes them: *)
(* the i-th has i - 1 before it.                                             *)
InOrder(S) == [i \in 1..Cardinality(S) |->
                 CHOOSE s \in S : Cardinality({r \in S : r < s}) = i - 1]

(* The lines a scan finds: a last one without its newline counts when it    *)
(* parses.                                                                  *)
Scanned == InOrder({s \in Starts : Parses(s)})

(* A scan leaves a process that takes the last line of a file for whole,    *)
(* although its newline is missing.                                         *)
Kept == IF \E s \in Starts : Parses(s) /\ ~Complete(s) THEN Len(log') ELSE 0

(* Mutant of Open: a torn last line is not cut off. *)
OpenKeepsTorn ==
  /\ ~up /\ Readable
  /\ offsets' = Scanned
  /\ log' = [i \in 1..Len(offsets') |-> file[offsets'[i] + 1]]
  /\ frayed' = Kept
  /\ up' = TRUE
  /\ UNCHANGED file

(* Mutant of Open: a second scan, the replay after a refused snapshot, adds *)
(* to the index of the first.                                               *)
OpenStacks ==
  /\ ~up /\ Readable
  /\ offsets' = Scanned \o Scanned
  /\ log' = [i \in 1..Len(offsets') |-> file[offsets'[i] + 1]]
  /\ frayed' = Kept
  /\ up' = TRUE
  /\ UNCHANGED file

(* scan_json at boot: the index is rebuilt and a torn last line is cut off. *)
Open ==
  /\ ~up /\ Readable
  /\ file' = LET torn == {s \in Starts : ~Parses(s)} IN
             IF torn = {} THEN file ELSE SetLen(file, CHOOSE s \in torn : TRUE)
  /\ offsets' = Scanned
  /\ log' = [i \in 1..Len(offsets') |-> file[offsets'[i] + 1]]
  /\ frayed' = Kept
  /\ up' = TRUE

Next == \/ \E l \in Line : AppendLine(l) \/ AppendFails(l) \/ Reset(l)
        \/ \E h \in 2..MaxLines : TruncateFrom(h)
        \/ Crash \/ Open

Spec == Init /\ [][Next]_vars

-----------------------------------------------------------------------------
(* The lines whose place in the file nothing can have disturbed. *)
Firm == IF frayed = 0 THEN Len(log) ELSE frayed - 1

(* The index and the file do not diverge (blockstore.rs: "para que indice e *)
(* arquivo nunca divirjam") but behind a frayed end: the lines before it    *)
(* read back what the caller stored there, however many writes went on      *)
(* behind it, and without one the next append lands where the index will    *)
(* look for it.                                                             *)
IndexDescribesFile ==
  up => /\ Len(offsets) = Len(log) /\ Firm <= Len(log)
        /\ \A h \in 1..Firm : Get(h) = log[h]
        /\ frayed = 0 => FileBytes = Len(file)

(* A crash at any point of an append, also between the text and the         *)
(* newline, leaves a file the next boot can read, unless the file had       *)
(* frayed before.                                                           *)
FileReadable == frayed = 0 => Readable

(* A boot that succeeds never costs a line before a frayed end; without one *)
(* it finds the lines the caller stored and at most the one it was storing. *)
BootFindsLog ==
  [][Open => /\ Len(log') >= Firm /\ SubSeq(log', 1, Firm) = SubSeq(log, 1, Firm)
             /\ frayed = 0 => Len(log') <= Len(log) + 1]_vars
=============================================================================
