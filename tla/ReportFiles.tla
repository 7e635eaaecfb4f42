----------------------------- MODULE ReportFiles -----------------------------
(***************************************************************************)
(* Windows that save reports to one path, and a window that opens it       *)
(* (save_study_report and load_study_report of StudyReport.cpp; the two    *)
(* savers and loaders of EvaluationReport.cpp have the same steps).  A     *)
(* saver writes a temporary file named after its clock, syncs it and       *)
(* renames it over the path.  It may be killed between two system calls,   *)
(* and the power may fail: then the directory is as it was last written to *)
(* the disk, and what was not synced of a file may be gone.                *)
(***************************************************************************)
EXTENDS Naturals

CONSTANTS
    Savers,
    Temporary,   \* the suffix each saver's clock gives its temporary path
    Boot,        \* the boot of the machine each of them runs in
    MaxBoot,     \* bound: how many boots
    Original,    \* the report that was there before
    NoFile, Partial

ASSUME NamesAssumption ==
    /\ Original \notin Savers
    /\ NoFile \notin Savers \cup {Original, Partial}
    /\ Partial \notin Savers \cup {Original}
    /\ MaxBoot \in Nat
    /\ Boot \in [Savers -> Nat]

VARIABLES
    pc,          \* where a saver is, or how it ended
    file,        \* the file it has opened
    dir,         \* the file each name of the directory is linked to
    disk,        \* the directory as last written to the disk
    data,        \* the document a file holds: the saver it is of, or Partial, anything else
    synced,      \* the files whose data is on the disk
    boot,        \* the boot of the machine
    reader       \* the window that opens the path

vars == <<pc, file, dir, disk, data, synced, boot, reader>>

Target == <<"report", 0>>
Files == Savers \cup {Original}     \* each is named after the saver that made it

\* Faulty: the suffix is not appended.
TargetItself(w) == Target

TemporaryOf(w) == <<"tmp", Temporary[w]>>

Names == {Target} \cup {TemporaryOf(w) : w \in Savers}

Goto(w, label) == pc' = [pc EXCEPT ![w] = label]

Init ==
    /\ pc = [w \in Savers |-> "started"]
    /\ file = [w \in Savers |-> NoFile]
    /\ \E report \in {Original, NoFile} :
           dir = [n \in Names |-> IF n = Target THEN report ELSE NoFile]
    /\ disk = dir
    /\ data = [f \in Files |-> IF f = Original THEN Original ELSE Partial]
    /\ synced = {Original}
    /\ boot = 1
    /\ reader = [pc |-> "idle", file |-> NoFile]

\* The document is not valid, the path is empty or the report too long: no
\* file is touched.
Reject(w) ==
    /\ pc[w] = "started" /\ boot = Boot[w]
    /\ Goto(w, "failed")
    /\ UNCHANGED <<file, dir, disk, data, synced, boot, reader>>

\* fopen(temporary, "wb"): a file of that name, left behind by a saver of an
\* earlier boot, is opened and truncated.
Open(w) ==
    /\ pc[w] = "started" /\ boot = Boot[w]
    /\ \/ LET f == IF dir[TemporaryOf(w)] = NoFile THEN w ELSE dir[TemporaryOf(w)] IN
          /\ file' = [file EXCEPT ![w] = f]
          /\ dir' = [dir EXCEPT ![TemporaryOf(w)] = f]
          /\ data' = [data EXCEPT ![f] = Partial]
          /\ synced' = synced \ {f}
          /\ Goto(w, "writing")
       \/ Goto(w, "throwing") /\ UNCHANGED <<file, dir, data, synced>>
    /\ UNCHANGED <<disk, boot, reader>>

\* Faulty: the file is renamed before it is synced.
WriteOnly(w) ==
    /\ pc[w] = "writing"
    /\ \/ data' = [data EXCEPT ![file[w]] = w] /\ Goto(w, "renaming")
       \/ data' = data /\ Goto(w, "throwing")
    /\ UNCHANGED <<file, dir, disk, synced, boot, reader>>

\* fwrite and fflush: all of the bytes, or the write has failed.
Write(w) ==
    /\ pc[w] = "writing"
    /\ \/ data' = [data EXCEPT ![file[w]] = w] /\ Goto(w, "syncing")
       \/ data' = data /\ Goto(w, "throwing")
    /\ UNCHANGED <<file, dir, disk, synced, boot, reader>>

\* fsync and fclose.
Sync(w) ==
    /\ pc[w] = "syncing"
    /\ \/ synced' = synced \cup {file[w]} /\ Goto(w, "renaming")
       \/ synced' \in {synced, synced \cup {file[w]}} /\ Goto(w, "throwing")
    /\ UNCHANGED <<file, dir, disk, data, boot, reader>>

\* rename(): the path and the file it was linked to part in one step.
Rename(w) ==
    /\ pc[w] = "renaming"
    /\ \/ /\ dir[TemporaryOf(w)] # NoFile
          /\ dir' = [dir EXCEPT ![Target] = dir[TemporaryOf(w)], ![TemporaryOf(w)] = NoFile]
          /\ Goto(w, "saved")
       \/ dir' = dir /\ Goto(w, "throwing")
    /\ UNCHANGED <<file, disk, data, synced, boot, reader>>

\* The catch clause removes the temporary path.
CleanUp(w) ==
    /\ pc[w] = "throwing"
    /\ dir' = [dir EXCEPT ![TemporaryOf(w)] = NoFile]
    /\ Goto(w, "failed")
    /\ UNCHANGED <<file, disk, data, synced, boot, reader>>

Ends == {"saved", "failed", "killed"}

Kill(w) ==
    /\ pc[w] \notin Ends \cup {"started"}
    /\ Goto(w, "killed")
    /\ UNCHANGED <<file, dir, disk, data, synced, boot, reader>>

\* The system writes its directory to the disk when it likes: no saver syncs it.
WriteBack ==
    /\ disk' = dir
    /\ UNCHANGED <<pc, file, dir, data, synced, boot, reader>>

Running == {w \in Savers : pc[w] \notin Ends /\ Boot[w] = boot}

PowerLoss ==
    /\ boot < MaxBoot
    /\ boot' = boot + 1
    /\ dir' = disk
    /\ \E lost \in SUBSET (Files \ synced) :
           data' = [f \in Files |-> IF f \in lost THEN Partial ELSE data[f]]
    /\ pc' = [w \in Savers |-> IF w \in Running THEN "killed" ELSE pc[w]]
    /\ reader' = [pc |-> "idle", file |-> NoFile]
    /\ UNCHANGED <<file, disk, synced>>

\* load_study_report opens the path and asks for the length; the file stays the
\* one it opened, whatever the path is linked to since.
OpenToRead ==
    /\ reader.pc # "opened"
    /\ IF dir[Target] = NoFile
       THEN reader' = [pc |-> "failed", file |-> NoFile]
       ELSE reader' = [pc |-> "opened", file |-> dir[Target]]
    /\ UNCHANGED <<pc, file, dir, disk, data, synced, boot>>

\* It reads, parses and validates what the file holds by then.
Read ==
    /\ reader.pc = "opened"
    /\ reader' = [reader EXCEPT !.pc = IF data[reader.file] = Partial THEN "rejected" ELSE "loaded"]
    /\ UNCHANGED <<pc, file, dir, disk, data, synced, boot>>

Next ==
    \/ \E w \in Savers : Reject(w) \/ Open(w) \/ Write(w) \/ Sync(w) \/ Rename(w)
                             \/ CleanUp(w) \/ Kill(w)
    \/ WriteBack \/ PowerLoss \/ OpenToRead \/ Read

Spec == Init /\ [][Next]_vars

-----------------------------------------------------------------------------
TypeOK ==
    /\ pc \in [Savers -> Ends \cup {"started", "writing", "syncing", "renaming", "throwing"}]
    /\ file \in [Savers -> Files \cup {NoFile}]
    /\ \A w \in Savers : pc[w] \in {"writing", "syncing", "renaming"} => file[w] # NoFile
    /\ dir \in [Names -> Files \cup {NoFile}]
    /\ disk \in [Names -> Files \cup {NoFile}]
    /\ data \in [Files -> Files \cup {Partial}]
    /\ synced \subseteq Files
    /\ boot \in Nat
    /\ reader \in [pc : {"idle", "opened", "failed", "rejected", "loaded"},
                   file : Files \cup {NoFile}]

\* A window that opens the path while others save to it loads what it opened: a
\* whole document, never one that is being written.
OpenedIsWhole == reader.pc # "rejected"

Document(f) == IF f = NoFile THEN NoFile ELSE data[f]

Outcome(label) == CASE label = "saved" -> "saved"
                    [] label \in {"failed", "killed"} -> "failed"
                    [] OTHER -> "open"

Store == INSTANCE ReportStore WITH
    Documents <- Savers \cup {Original, NoFile},
    current <- Document(dir[Target]),
    stable <- Document(disk[Target]),
    outcome <- [w \in Savers |-> Outcome(pc[w])]

\* "Save through a temporary file in the destination directory and replace the
\* destination only after the complete JSON is flushed" (docs/M5-REPORT-CONTRACT.md:5),
\* and "failed replacement preserving the previous file" (:7): the path holds the
\* old report or the new one at every moment, after a kill and after a power
\* failure, and a save that failed or was killed has not replaced it.
ImplementsReportStore == Store!Spec
=============================================================================
