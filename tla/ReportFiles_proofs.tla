------------------------- MODULE ReportFiles_proofs -------------------------
(***************************************************************************)
(* For any number of savers, boots and kills: as long as no two savers of  *)
(* one boot are given the same temporary path, the report files implement  *)
(* the report store, and a window that opens the path loads a whole        *)
(* document.  The invariant says which names a file can have: what the     *)
(* path is or may again be linked to is synced and has no temporary name,  *)
(* so no saver can truncate it.                                            *)
(***************************************************************************)
EXTENDS ReportFiles, TLAPS

\* The clock of one boot gives no two savers the same temporary path.
Distinct == \A v, w \in Savers :
    Boot[v] = Boot[w] /\ TemporaryOf(v) = TemporaryOf(w) => v = w

Temporaries == Names \ {Target}

\* No temporary name is the path's: the suffix is always appended.
Suffixed == \A w \in Savers : TemporaryOf(w) # Target

\* What is or may become readable is a whole document on the disk.
Readable == {dir[Target], disk[Target], reader.file} \ {NoFile}
ReadableIsWhole == Readable \subseteq synced /\ \A f \in Readable : data[f] # Partial

\* In both directories a file has one name, and what is readable no temporary one.
OneName ==
    /\ \A m, n \in Names : dir[m] = dir[n] /\ dir[m] # NoFile => m = n
    /\ \A m, n \in Names : disk[m] = disk[n] /\ disk[m] # NoFile => m = n
    /\ \A n \in Temporaries : dir[n] \notin Readable

\* What a saver has done when it stands at a system call.
Achieved == \A w \in Savers :
    /\ pc[w] \in {"writing", "syncing", "renaming", "throwing"} => Boot[w] = boot
    /\ pc[w] \in {"writing", "syncing", "renaming"} => dir[TemporaryOf(w)] = file[w]
    /\ pc[w] \in {"syncing", "renaming"} => data[file[w]] = w
    /\ pc[w] = "renaming" => file[w] \in synced

\* A saver that has not started has not made its file.
Unmade == \A w \in Savers : pc[w] = "started" =>
    /\ \A n \in Names : dir[n] # w /\ disk[n] # w
    /\ reader.file # w

Reading == reader.pc = "opened" => reader.file # NoFile

Safe == ReadableIsWhole /\ OneName /\ Achieved /\ Unmade /\ Reading /\ OpenedIsWhole

FilesInv == TypeOK /\ Safe

LEMMA TargetApart == Suffixed
BY DEF Suffixed, Target, TemporaryOf

LEMMA NamesOf == /\ Target \in Names
                 /\ \A w \in Savers : TemporaryOf(w) \in Temporaries
BY TargetApart DEF Names, Temporaries, Suffixed

\* Every step keeps the types.
LEMMA TypePreserved == ASSUME TypeOK, [Next]_vars PROVE TypeOK'
<1> USE NamesAssumption, NamesOf DEF TypeOK, Goto, Ends, Temporaries
<1>1. CASE UNCHANGED vars
  BY <1>1 DEF vars
<1>2. ASSUME NEW w \in Savers, Reject(w) \/ Kill(w)
      PROVE TypeOK'
  BY <1>2 DEF Reject, Kill
<1>7. ASSUME NEW w \in Savers, Write(w) \/ Sync(w)
      PROVE TypeOK'
  BY <1>7 DEF Write, Sync, Files
<1>3. ASSUME NEW w \in Savers, Open(w)
      PROVE TypeOK'
  BY <1>3 DEF Open, Files
<1>4. ASSUME NEW w \in Savers, Rename(w) \/ CleanUp(w)
      PROVE TypeOK'
  BY <1>4 DEF Rename, CleanUp
<1>5. CASE WriteBack \/ OpenToRead \/ Read
  BY <1>5 DEF WriteBack, OpenToRead, Read
<1>6. CASE PowerLoss
  BY <1>6 DEF PowerLoss
<1> QED BY <1>1, <1>2, <1>3, <1>4, <1>5, <1>6, <1>7 DEF Next

\* A step of saver w leaves the places of the others as they are.
LEMMA OthersStay ==
    ASSUME TypeOK, NEW w \in Savers, NEW label, Goto(w, label), NEW v \in Savers
    PROVE pc'[v] = IF v = w THEN label ELSE pc[v]
BY DEF TypeOK, Goto

\* Only the saver itself, of those that run, holds a file under its name.
LEMMA OwnName ==
    ASSUME Distinct, TypeOK, Safe, NEW v \in Savers, NEW w \in Savers, v # w,
           pc[v] \in {"writing", "syncing", "renaming"}, Boot[w] = boot
    PROVE /\ TemporaryOf(v) # TemporaryOf(w)
          /\ dir[TemporaryOf(w)] # NoFile => dir[TemporaryOf(w)] # file[v]
<1>1. TemporaryOf(v) # TemporaryOf(w)
  BY DEF Safe, Achieved, Distinct
<1>2. TemporaryOf(v) \in Names /\ TemporaryOf(w) \in Names
  BY NamesOf DEF Temporaries
<1> QED BY <1>1, <1>2 DEF Safe, Achieved, OneName

\* Every step keeps the invariant.
LEMMA SafePreserved == ASSUME Distinct, FilesInv, [Next]_vars PROVE FilesInv'
<1>1. TypeOK' BY TypePreserved DEF FilesInv
<1> SUFFICES Safe' BY <1>1 DEF FilesInv
<1>0. TypeOK /\ Safe BY DEF FilesInv
<1>2. CASE UNCHANGED vars
  BY <1>0, <1>2 DEF vars, Safe, ReadableIsWhole, Readable, OneName, Achieved, Unmade,
                    Reading, OpenedIsWhole, Temporaries
<1>3. ASSUME NEW w \in Savers, Reject(w) \/ Kill(w)
      PROVE Safe'
  <2>1. UNCHANGED <<file, dir, disk, data, synced, boot, reader>>
    BY <1>3 DEF Reject, Kill
  <2>2. PICK label \in Ends : Goto(w, label)
    BY <1>3 DEF Reject, Kill, Ends
  <2>3. \A v \in Savers : pc'[v] = IF v = w THEN label ELSE pc[v]
    BY <1>0, <2>2, OthersStay
  <2>4. (ReadableIsWhole /\ OneName /\ Reading /\ OpenedIsWhole)'
    BY <1>0, <2>1 DEF Safe, ReadableIsWhole, Readable, OneName, Reading, OpenedIsWhole,
                      Temporaries
  <2>5. (Achieved /\ Unmade)'
    BY <1>0, <2>1, <2>2, <2>3 DEF Safe, Achieved, Unmade, Ends
  <2> QED BY <2>4, <2>5 DEF Safe
<1>4. ASSUME NEW w \in Savers, Open(w)
      PROVE Safe'
  <2> DEFINE t == TemporaryOf(w)
             f == IF dir[t] = NoFile THEN w ELSE dir[t]
  <2>1. UNCHANGED <<disk, boot, reader>> /\ Boot[w] = boot /\ pc[w] = "started"
    BY <1>4 DEF Open
  <2>2. t \in Temporaries /\ t \in Names /\ t # Target /\ Target \in Names
    BY NamesOf DEF Temporaries
  <2>3. CASE Goto(w, "throwing") /\ UNCHANGED <<file, dir, data, synced>>
    <3>1. \A v \in Savers : pc'[v] = IF v = w THEN "throwing" ELSE pc[v]
      BY <1>0, <2>3, OthersStay
    <3>2. (ReadableIsWhole /\ OneName /\ Reading /\ OpenedIsWhole)'
      BY <1>0, <2>1, <2>3 DEF Safe, ReadableIsWhole, Readable, OneName, Reading,
                              OpenedIsWhole, Temporaries
    <3>3. (Achieved /\ Unmade)'
      BY <1>0, <2>1, <2>3, <3>1 DEF Safe, Achieved, Unmade
    <3> QED BY <3>2, <3>3 DEF Safe
  <2>4. CASE /\ Goto(w, "writing")
             /\ file' = [file EXCEPT ![w] = f]
             /\ dir' = [dir EXCEPT ![t] = f]
             /\ data' = [data EXCEPT ![f] = Partial]
             /\ synced' = synced \ {f}
    <3>1. \A v \in Savers : pc'[v] = IF v = w THEN "writing" ELSE pc[v]
      BY <1>0, <2>4, OthersStay
    <3>2. f \in Files /\ f # NoFile /\ f \notin Readable
      BY <1>0, <2>1, <2>2, NamesAssumption
         DEF TypeOK, Files, Safe, OneName, Unmade, Readable
    <3>3. \A n \in Names : dir'[n] = IF n = t THEN f ELSE dir[n]
      BY <1>0, <2>2, <2>4 DEF TypeOK
    <3>4. \A n \in Names : n # t => dir[n] # f
      BY <1>0, <2>1, <2>2 DEF Safe, OneName, Unmade
    <3>5. \A g \in Files : g # f => data'[g] = data[g]
      BY <1>0, <2>4, <3>2 DEF TypeOK
    <3>6. Readable' = Readable /\ Readable \subseteq Files
      BY <1>0, <2>1, <2>2, <3>3 DEF Readable, TypeOK
    <3>7. ReadableIsWhole'
      BY <1>0, <2>4, <3>2, <3>5, <3>6 DEF Safe, ReadableIsWhole
    <3>8. OneName'
      BY <1>0, <2>1, <2>2, <3>2, <3>3, <3>4, <3>6 DEF Safe, OneName, Temporaries
    <3>9. Achieved'
      <4> SUFFICES ASSUME NEW v \in Savers
                   PROVE /\ pc'[v] \in {"writing", "syncing", "renaming", "throwing"} => Boot[v] = boot
                         /\ pc'[v] \in {"writing", "syncing", "renaming"} =>
                                dir'[TemporaryOf(v)] = file'[v]
                         /\ pc'[v] \in {"syncing", "renaming"} => data'[file'[v]] = v
                         /\ pc'[v] = "renaming" => file'[v] \in synced'
        BY <2>1 DEF Achieved
      <4>1. CASE v = w
        BY <1>0, <2>1, <2>2, <2>4, <3>1, <3>3, <4>1 DEF TypeOK
      <4>2. CASE v # w
        <5>1. pc'[v] = pc[v] /\ file'[v] = file[v]
          BY <1>0, <2>4, <3>1, <4>2 DEF TypeOK
        <5>2. pc[v] \in {"writing", "syncing", "renaming"} =>
                  /\ TemporaryOf(v) # t
                  /\ file[v] \in Files /\ file[v] # f
                  /\ TemporaryOf(v) \in Names
          <6> SUFFICES ASSUME pc[v] \in {"writing", "syncing", "renaming"}
                       PROVE /\ TemporaryOf(v) # t
                             /\ file[v] \in Files /\ file[v] # f
                             /\ TemporaryOf(v) \in Names
            OBVIOUS
          <6>1. TemporaryOf(v) # t /\ (dir[t] # NoFile => dir[t] # file[v])
            BY <1>0, <2>1, <4>2, OwnName
          <6>2. TemporaryOf(v) \in Names
            BY NamesOf DEF Temporaries
          <6>3. file[v] = dir[TemporaryOf(v)] /\ file[v] \in Files
            BY <1>0 DEF Safe, Achieved, TypeOK
          <6>4. file[v] # w
            BY <1>0, <2>1, <6>2, <6>3 DEF Safe, Unmade
          <6> QED BY <6>1, <6>2, <6>3, <6>4
        <5> QED BY <1>0, <2>1, <2>4, <3>3, <3>5, <5>1, <5>2 DEF Safe, Achieved
      <4> QED BY <4>1, <4>2
    <3>10. (Unmade /\ Reading /\ OpenedIsWhole)'
      <4>1. \A v \in Savers : v # w /\ pc[v] = "started" => f # v
        BY <1>0, <2>2 DEF Safe, Unmade
      <4> QED BY <1>0, <2>1, <3>1, <3>3, <4>1 DEF Safe, Unmade, Reading, OpenedIsWhole
    <3> QED BY <3>7, <3>8, <3>9, <3>10 DEF Safe
  <2> QED BY <1>4, <2>3, <2>4 DEF Open
<1>5. ASSUME NEW w \in Savers, Write(w) \/ Sync(w)
      PROVE Safe'
  <2>1. UNCHANGED <<file, dir, disk, boot, reader>> /\ synced \subseteq synced'
    BY <1>5 DEF Write, Sync
  <2>2. PICK label \in {"syncing", "renaming", "throwing"} :
             /\ Goto(w, label)
             /\ label \in {"syncing", "renaming"} => data'[file[w]] = w
             /\ label = "renaming" => file[w] \in synced'
    BY <1>0, <1>5, NamesAssumption DEF Write, Sync, Safe, Achieved, TypeOK
  <2>3. \A v \in Savers : pc'[v] = IF v = w THEN label ELSE pc[v]
    BY <1>0, <2>2, OthersStay
  <2>4. pc[w] \in {"writing", "syncing"} /\ Boot[w] = boot /\ dir[TemporaryOf(w)] = file[w]
        /\ file[w] # NoFile
    BY <1>0, <1>5 DEF Write, Sync, Safe, Achieved, TypeOK
  <2>5. \A g \in Files : g # file[w] => data'[g] = data[g]
    BY <1>0, <1>5 DEF Write, Sync, TypeOK
  <2>6. Readable' = Readable /\ Readable \subseteq Files /\ file[w] \notin Readable
    <3>1. TemporaryOf(w) \in Temporaries BY NamesOf
    <3> QED BY <1>0, <2>1, <2>4, <3>1, NamesOf DEF Readable, Safe, OneName, TypeOK
  <2>7. (ReadableIsWhole /\ OneName /\ Reading /\ OpenedIsWhole)'
    BY <1>0, <2>1, <2>5, <2>6 DEF Safe, ReadableIsWhole, OneName, Reading, OpenedIsWhole,
                                  Temporaries
  <2>8. Achieved'
    <3>1. \A v \in Savers : v # w /\ pc[v] \in {"writing", "syncing", "renaming"} =>
              file[v] \in Files /\ file[v] # file[w]
      BY <1>0, <2>4, OwnName DEF TypeOK
    <3> QED BY <1>0, <2>1, <2>2, <2>3, <2>4, <2>5, <3>1 DEF Safe, Achieved
  <2>9. Unmade'
    BY <1>0, <2>1, <2>2, <2>3 DEF Safe, Unmade
  <2> QED BY <2>7, <2>8, <2>9 DEF Safe
<1>6. ASSUME NEW w \in Savers, Rename(w)
      PROVE Safe'
  <2> DEFINE t == TemporaryOf(w)
  <2>1. /\ UNCHANGED <<file, disk, data, synced, boot, reader>>
        /\ pc[w] = "renaming" /\ Boot[w] = boot
        /\ dir[t] = file[w] /\ file[w] # NoFile /\ file[w] \in synced /\ data[file[w]] = w
    BY <1>0, <1>6 DEF Rename, Safe, Achieved, TypeOK
  <2>2. t \in Temporaries /\ t \in Names /\ t # Target /\ Target \in Names
    BY NamesOf DEF Temporaries
  <2>3. CASE Goto(w, "throwing") /\ UNCHANGED dir
    <3>1. \A v \in Savers : pc'[v] = IF v = w THEN "throwing" ELSE pc[v]
      BY <1>0, <2>3, OthersStay
    <3>2. (ReadableIsWhole /\ OneName /\ Reading /\ OpenedIsWhole)'
      BY <1>0, <2>1, <2>3 DEF Safe, ReadableIsWhole, Readable, OneName, Reading,
                              OpenedIsWhole, Temporaries
    <3>3. (Achieved /\ Unmade)'
      BY <1>0, <2>1, <2>3, <3>1 DEF Safe, Achieved, Unmade
    <3> QED BY <3>2, <3>3 DEF Safe
  <2>4. CASE Goto(w, "saved") /\ dir' = [dir EXCEPT ![Target] = dir[t], ![t] = NoFile]
    <3>1. \A v \in Savers : pc'[v] = IF v = w THEN "saved" ELSE pc[v]
      BY <1>0, <2>4, OthersStay
    <3>2. \A n \in Names : dir'[n] = IF n = t THEN NoFile
                                     ELSE IF n = Target THEN file[w] ELSE dir[n]
      BY <1>0, <2>1, <2>2, <2>4 DEF TypeOK
    <3>3. Readable' \subseteq Readable \cup {file[w]}
      BY <2>1, <2>2, <3>2 DEF Readable
    <3>4. ReadableIsWhole'
      BY <1>0, <2>1, <3>3, NamesAssumption DEF Safe, ReadableIsWhole
    <3>5. \A n \in Names : n # t => dir[n] # file[w]
      BY <1>0, <2>1, <2>2 DEF Safe, OneName
    <3>6. OneName'
      <4>1. \A n \in Temporaries : dir'[n] \notin Readable'
        BY <1>0, <2>1, <2>2, <3>2, <3>3, <3>5 DEF Safe, OneName, Temporaries, Readable
      <4>2. \A m, n \in Names : dir'[m] = dir'[n] /\ dir'[m] # NoFile => m = n
        BY <1>0, <2>2, <3>2, <3>5 DEF Safe, OneName
      <4> QED BY <1>0, <2>1, <4>1, <4>2 DEF Safe, OneName, Temporaries
    <3>7. Achieved'
      <4>1. \A v \in Savers : v # w /\ pc[v] \in {"writing", "syncing", "renaming"} =>
                TemporaryOf(v) # t /\ TemporaryOf(v) # Target /\ TemporaryOf(v) \in Names
        BY <1>0, <2>1, OwnName, NamesOf DEF Temporaries
      <4> QED BY <1>0, <2>1, <3>1, <3>2, <4>1 DEF Safe, Achieved
    <3>8. (Unmade /\ Reading /\ OpenedIsWhole)'
      <4>1. \A v \in Savers : pc[v] = "started" => file[w] # v
        BY <1>0, <2>1, <2>2 DEF Safe, Unmade
      <4> QED BY <1>0, <2>1, <3>1, <3>2, <4>1, NamesAssumption
              DEF Safe, Unmade, Reading, OpenedIsWhole
    <3> QED BY <3>4, <3>6, <3>7, <3>8 DEF Safe
  <2> QED BY <1>6, <2>3, <2>4 DEF Rename
<1>7. ASSUME NEW w \in Savers, CleanUp(w)
      PROVE Safe'
  <2> DEFINE t == TemporaryOf(w)
  <2>1. /\ UNCHANGED <<file, disk, data, synced, boot, reader>>
        /\ pc[w] = "throwing" /\ Boot[w] = boot /\ Goto(w, "failed")
    BY <1>0, <1>7 DEF CleanUp, Safe, Achieved
  <2>2. t \in Temporaries /\ t \in Names /\ t # Target /\ Target \in Names
    BY NamesOf DEF Temporaries
  <2>3. \A v \in Savers : pc'[v] = IF v = w THEN "failed" ELSE pc[v]
    BY <1>0, <2>1, OthersStay
  <2>4. \A n \in Names : dir'[n] = IF n = t THEN NoFile ELSE dir[n]
    BY <1>0, <1>7, <2>2 DEF CleanUp, TypeOK
  <2>5. Readable' = Readable
    BY <2>1, <2>2, <2>4 DEF Readable
  <2>6. (ReadableIsWhole /\ OneName /\ Reading /\ OpenedIsWhole)'
    BY <1>0, <2>1, <2>2, <2>4, <2>5
       DEF Safe, ReadableIsWhole, OneName, Reading, OpenedIsWhole, Temporaries, Readable
  <2>7. Achieved'
    <3>1. \A v \in Savers : v # w /\ pc[v] \in {"writing", "syncing", "renaming"} =>
              TemporaryOf(v) # t /\ TemporaryOf(v) \in Names
      BY <1>0, <2>1, OwnName, NamesOf DEF Temporaries
    <3> QED BY <1>0, <2>1, <2>3, <2>4, <3>1 DEF Safe, Achieved
  <2>8. Unmade'
    BY <1>0, <2>1, <2>3, <2>4, NamesAssumption DEF Safe, Unmade
  <2> QED BY <2>6, <2>7, <2>8 DEF Safe
<1>8. CASE WriteBack
  <2>1. UNCHANGED <<pc, file, dir, data, synced, boot, reader>> /\ disk' = dir
    BY <1>8 DEF WriteBack
  <2>2. Readable' \subseteq Readable
    BY <2>1 DEF Readable
  <2>3. (ReadableIsWhole /\ OneName)'
    BY <1>0, <2>1, <2>2 DEF Safe, ReadableIsWhole, OneName, Temporaries
  <2> QED BY <1>0, <2>1, <2>3 DEF Safe, Achieved, Unmade, Reading, OpenedIsWhole
<1>9. CASE PowerLoss
  <2>1. /\ UNCHANGED <<file, disk, synced>> /\ dir' = disk
        /\ reader' = [pc |-> "idle", file |-> NoFile]
        /\ pc' = [w \in Savers |-> IF w \in Running THEN "killed" ELSE pc[w]]
    BY <1>9 DEF PowerLoss
  <2>2. \A w \in Savers : pc'[w] \notin {"writing", "syncing", "renaming", "throwing"}
    BY <1>0, <2>1 DEF Safe, Achieved, Running, Ends
  <2>3. Readable' = {disk[Target]} \ {NoFile}
    BY <2>1 DEF Readable
  <2>4. \A f \in synced : data'[f] = data[f]
    BY <1>0, <1>9 DEF PowerLoss, TypeOK
  <2>5. ReadableIsWhole'
    BY <1>0, <2>1, <2>3, <2>4 DEF Safe, ReadableIsWhole, Readable
  <2>6. OneName'
    BY <1>0, <2>1, <2>3, NamesOf DEF Safe, OneName, Temporaries
  <2>7. (Achieved /\ Unmade /\ Reading /\ OpenedIsWhole)'
    BY <1>0, <2>1, <2>2, NamesAssumption DEF Safe, Achieved, Unmade, Reading, OpenedIsWhole
  <2> QED BY <2>5, <2>6, <2>7 DEF Safe
<1>10. CASE OpenToRead
  <2>1. UNCHANGED <<pc, file, dir, disk, data, synced, boot>>
    BY <1>10 DEF OpenToRead
  <2>2. reader'.file = dir[Target] /\ reader'.pc # "rejected"
    BY <1>10 DEF OpenToRead
  <2>3. Readable' \subseteq Readable
    BY <2>1, <2>2 DEF Readable
  <2>4. (ReadableIsWhole /\ OneName)'
    BY <1>0, <2>1, <2>3 DEF Safe, ReadableIsWhole, OneName, Temporaries
  <2>5. Reading' BY <1>10 DEF OpenToRead, Reading
  <2> QED BY <1>0, <2>1, <2>2, <2>4, <2>5, NamesOf DEF Safe, Achieved, Unmade, OpenedIsWhole
<1>11. CASE Read
  <2>1. UNCHANGED <<pc, file, dir, disk, data, synced, boot>> /\ reader'.file = reader.file
    BY <1>0, <1>11 DEF Read, TypeOK
  <2>2. reader.pc = "opened" /\ reader.file # NoFile
    BY <1>0, <1>11 DEF Read, Safe, Reading
  <2>3. data[reader.file] # Partial
    BY <1>0, <2>2 DEF Safe, ReadableIsWhole, Readable
  <2>4. reader'.pc = "loaded"
    BY <1>0, <1>11, <2>3 DEF Read, TypeOK
  <2>5. (ReadableIsWhole /\ OneName)'
    BY <1>0, <2>1 DEF Safe, ReadableIsWhole, Readable, OneName, Temporaries
  <2> QED BY <1>0, <2>1, <2>4, <2>5 DEF Safe, Achieved, Unmade, Reading, OpenedIsWhole
<1> QED BY <1>2, <1>3, <1>4, <1>5, <1>6, <1>7, <1>8, <1>9, <1>10, <1>11 DEF Next

LEMMA FilesInitially == Init => FilesInv
<1> SUFFICES ASSUME Init PROVE FilesInv OBVIOUS
<1> USE NamesOf, NamesAssumption
<1>1. \E report \in {Original, NoFile} :
          dir = [n \in Names |-> IF n = Target THEN report ELSE NoFile]
  BY DEF Init
<1>2. dir \in [Names -> Files \cup {NoFile}] /\ dir[Target] \in {Original, NoFile}
  BY <1>1 DEF Files
<1>3. \A n \in Temporaries : dir[n] = NoFile
  BY <1>1 DEF Temporaries
<1>4. TypeOK
  BY <1>2 DEF Init, TypeOK, Ends, Files
<1>5. Readable = {dir[Target]} \ {NoFile}
  BY DEF Init, Readable
<1>6. ReadableIsWhole
  BY <1>2, <1>5 DEF Init, ReadableIsWhole, Files
<1>7. OneName
  BY <1>2, <1>3, <1>5 DEF Init, OneName, Temporaries
<1>8. Achieved /\ Unmade /\ Reading /\ OpenedIsWhole
  BY <1>2, <1>3 DEF Init, Achieved, Unmade, Reading, OpenedIsWhole, Temporaries
<1> QED BY <1>4, <1>6, <1>7, <1>8 DEF FilesInv, Safe

\* A window that opens the path while any number of others save to it, are
\* killed or lose their power, never loads a document that is being written.
THEOREM ReadersLoadDocuments == ASSUME Distinct PROVE Spec => []OpenedIsWhole
<1>1. FilesInv /\ [Next]_vars => FilesInv'
  BY SafePreserved
<1>2. FilesInv => OpenedIsWhole
  BY DEF FilesInv, Safe
<1> QED BY <1>1, <1>2, FilesInitially, PTL DEF Spec

LEMMA StoreInitially == Init => Store!Init
<1> SUFFICES ASSUME Init PROVE Store!Init OBVIOUS
<1>1. FilesInv BY FilesInitially
<1>2. dir[Target] \in {Original, NoFile} /\ disk = dir /\ data[Original] = Original
  BY NamesOf DEF Init, Files
<1>3. \A w \in Savers : Outcome(pc[w]) = "open"
  BY DEF Init, Outcome
<1> QED BY <1>2, <1>3 DEF Store!Init, Document

\* What the path shows, now and after a power failure.
LEMMA ShownUnchanged ==
    ASSUME TypeOK, dir'[Target] = dir[Target], disk'[Target] = disk[Target],
           \A f \in Readable : data'[f] = data[f]
    PROVE UNCHANGED <<Document(dir[Target]), Document(disk[Target])>>
BY DEF Document, Readable

\* The outcomes after a step of saver w.
LEMMA OutcomeOf ==
    ASSUME TypeOK, NEW w \in Savers, NEW label, Goto(w, label)
    PROVE [v \in Savers |-> Outcome(pc[v])]' =
              [[v \in Savers |-> Outcome(pc[v])] EXCEPT ![w] = Outcome(label)]
BY OthersStay

LEMMA OutcomeKept ==
    ASSUME TypeOK, NEW w \in Savers, NEW label, Goto(w, label), Outcome(label) = Outcome(pc[w])
    PROVE UNCHANGED [v \in Savers |-> Outcome(pc[v])]
BY OthersStay

\* Every step of the report files is one of the report store, or shows nothing.
LEMMA StoreStep ==
    ASSUME Distinct, FilesInv, [Next]_vars
    PROVE [Store!Next]_(Store!vars)
<1>1. TypeOK /\ Safe BY DEF FilesInv
<1> USE NamesOf
<1>2. CASE UNCHANGED vars
  BY <1>2 DEF vars, Store!vars, Document
<1>3. ASSUME NEW w \in Savers, Reject(w) \/ Kill(w) \/ CleanUp(w)
      PROVE Store!Refuse(w)
  <2>1. PICK label \in {"failed", "killed"} : Goto(w, label)
    BY <1>3 DEF Reject, Kill, CleanUp
  <2>2. Outcome(label) = "failed" /\ Outcome(pc[w]) = "open"
    BY <1>1, <1>3 DEF Reject, Kill, CleanUp, Outcome, Ends, TypeOK
  <2>3. dir'[Target] = dir[Target] /\ UNCHANGED <<disk, data>>
    BY <1>1, <1>3, NamesOf DEF Reject, Kill, CleanUp, TypeOK, Temporaries
  <2> QED BY <1>1, <2>1, <2>2, <2>3, OutcomeOf, ShownUnchanged DEF Store!Refuse
<1>4. ASSUME NEW w \in Savers, Open(w) \/ Write(w) \/ Sync(w)
      PROVE UNCHANGED Store!vars
  <2>1. PICK label \in {"writing", "syncing", "renaming", "throwing"} : Goto(w, label)
    BY <1>4 DEF Open, Write, Sync
  <2>2. Outcome(label) = "open" /\ Outcome(pc[w]) = "open"
    BY <1>4 DEF Open, Write, Sync, Outcome
  <2>3. dir'[Target] = dir[Target] /\ UNCHANGED disk
    BY <1>1, <1>4 DEF Open, Write, Sync, TypeOK, Temporaries
  <2>4. \A f \in Readable : data'[f] = data[f]
    <3>1. Readable \subseteq Files
      BY <1>1 DEF Readable, TypeOK
    <3>2. CASE Open(w)
      <4>1. w \notin Readable
        BY <1>1, <3>2 DEF Open, Safe, Unmade, Readable
      <4>2. dir[TemporaryOf(w)] \notin Readable
        BY <1>1 DEF Safe, OneName
      <4> QED BY <1>1, <3>1, <3>2, <4>1, <4>2 DEF Open, TypeOK
    <3>3. CASE Write(w)
      <4>1. file[w] = dir[TemporaryOf(w)]
        BY <1>1, <3>3 DEF Write, Safe, Achieved
      <4>2. file[w] \notin Readable
        BY <1>1, <4>1 DEF Safe, OneName
      <4> QED BY <1>1, <3>1, <3>3, <4>2 DEF Write, TypeOK
    <3> QED BY <1>4, <3>2, <3>3 DEF Sync
  <2>5. UNCHANGED [v \in Savers |-> Outcome(pc[v])]
    BY <1>1, <2>1, <2>2, OutcomeKept
  <2> QED BY <1>1, <2>3, <2>4, <2>5, ShownUnchanged DEF Store!vars
<1>5. ASSUME NEW w \in Savers, Rename(w)
      PROVE Store!Replace(w, w) \/ UNCHANGED Store!vars
  <2>1. /\ dir[TemporaryOf(w)] = file[w] /\ file[w] # NoFile /\ data[file[w]] = w
        /\ UNCHANGED <<disk, data>> /\ Outcome(pc[w]) = "open"
    BY <1>1, <1>5 DEF Rename, Safe, Achieved, TypeOK, Outcome
  <2>2. CASE Goto(w, "throwing") /\ UNCHANGED dir
    <3>1. Outcome("throwing") = "open" BY DEF Outcome
    <3>2. UNCHANGED [v \in Savers |-> Outcome(pc[v])]
      BY <1>1, <2>1, <2>2, <3>1, OutcomeKept
    <3> QED BY <1>1, <2>1, <2>2, <3>2, ShownUnchanged DEF Store!vars
  <2>3. CASE Goto(w, "saved") /\ dir' = [dir EXCEPT ![Target] = dir[TemporaryOf(w)],
                                                   ![TemporaryOf(w)] = NoFile]
    <3>1. dir'[Target] = file[w]
      BY <1>1, <2>1, <2>3 DEF TypeOK, Temporaries
    <3>2. Document(dir[Target])' = w
      BY <2>1, <3>1 DEF Document
    <3>3. Document(disk[Target])' = Document(disk[Target])
      BY <2>1 DEF Document
    <3>4. Outcome("saved") = "saved" BY DEF Outcome
    <3>5. [v \in Savers |-> Outcome(pc[v])]' =
              [[v \in Savers |-> Outcome(pc[v])] EXCEPT ![w] = "saved"]
      BY <1>1, <2>3, <3>4, OutcomeOf
    <3> QED BY <2>1, <3>2, <3>3, <3>5 DEF Store!Replace
  <2> QED BY <1>5, <2>2, <2>3 DEF Rename
<1>6. CASE WriteBack
  BY <1>6 DEF WriteBack, Store!Next, Store!Settle, Document
<1>7. CASE PowerLoss
  <2>1. UNCHANGED <<disk, synced>> /\ dir' = disk
        /\ pc' = [w \in Savers |-> IF w \in Running THEN "killed" ELSE pc[w]]
    BY <1>7 DEF PowerLoss
  <2>2. \A f \in synced : data'[f] = data[f]
    BY <1>1, <1>7 DEF PowerLoss, TypeOK
  <2>3. Document(disk[Target])' = Document(disk[Target])
    BY <1>1, <2>1, <2>2 DEF Document, Safe, ReadableIsWhole, Readable
  <2>4. Document(dir[Target])' = Document(disk[Target])
    BY <2>1, <2>3 DEF Document
  <2>5. \A w \in Running : Outcome(pc[w]) = "open"
    BY DEF Running, Ends, Outcome
  <2>6. Outcome("killed") = "failed" BY DEF Outcome
  <2>7. \A w \in Savers : Outcome(pc'[w]) = IF w \in Running THEN "failed" ELSE Outcome(pc[w])
    BY <2>1, <2>6
  <2>8. Running \in SUBSET Savers BY DEF Running
  <2>9. Store!Lose(Running)
    BY <2>3, <2>4, <2>5, <2>7, <2>8 DEF Store!Lose
  <2> QED BY <2>8, <2>9 DEF Store!Next
<1>8. CASE OpenToRead \/ Read
  BY <1>8 DEF OpenToRead, Read, Store!vars, Document
<1> QED BY <1>2, <1>3, <1>4, <1>5, <1>6, <1>7, <1>8 DEF Next, Store!Next

\* The report files implement the report store: whoever is killed where, and
\* whenever the power fails, the path names an old document or a new one, and a
\* save that failed has not replaced it.
THEOREM ReportsReplaced == ASSUME Distinct PROVE Spec => ImplementsReportStore
<1>1. FilesInv /\ [Next]_vars => FilesInv'
  BY SafePreserved
<1>2. FilesInv /\ [Next]_vars => [Store!Next]_(Store!vars)
  BY StoreStep
<1> QED BY <1>1, <1>2, FilesInitially, StoreInitially, PTL
        DEF Spec, ImplementsReportStore, Store!Spec
=============================================================================
