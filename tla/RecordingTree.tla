---------------------------- MODULE RecordingTree ---------------------------
(***************************************************************************)
(* The directory of recordings: years, months, days, monitors and the      *)
(* event data of recordings (storage/crawler.go).  A path is a sequence of *)
(* names; names are numbers, ordered like the names of the files.          *)
(***************************************************************************)
EXTENDS Naturals, Sequences, SequencesExt, FiniteSets

VARIABLES
    dirs,   \* the paths of the directories
    files   \* the recordings that have event data: <<year, month, day, monitor, time>>

treeVars == <<dirs, files>>

\* fs.ReadDir.
Entries(p) == {q[Len(p) + 1] : q \in {x \in dirs \union files : Len(x) = Len(p) + 1 /\ IsPrefix(p, x)}}

Exists(p) == p = <<>> \/ p \in dirs

\* A recording begins: runRecording makes the directory of the monitor.
MkdirAll(p) == dirs' = dirs \union (Prefixes(p) \ {<<>>}) /\ UNCHANGED files

\* A recording is saved (saveRecording), if its directory is still there.
SaveFile(f) == Front(f) \in dirs /\ files' = files \union {f} /\ UNCHANGED dirs

RemoveAll(p) ==
    /\ dirs' = {q \in dirs : ~IsPrefix(p, q)}
    /\ files' = {f \in files : ~IsPrefix(p, f)}
=============================================================================
