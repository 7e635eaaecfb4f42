----------------------------- MODULE CacheFiles -----------------------------
(***************************************************************************)
(* Workers that share one ephemeris cache path (EphemerisCache.cpp, and    *)
(* process_mission's use of it): each looks whether the file exists, and   *)
(* loads it or integrates, writes a temporary file, links it to the path   *)
(* and unlinks it.  Any of them may be killed between two system calls.    *)
(* A worker serves one request, so it creates at most one file, and takes  *)
(* only a file of the same snapshot and ephemeris settings.                *)
(***************************************************************************)
EXTENDS Naturals

CONSTANTS
    Workers,
    Asks,        \* the snapshot and ephemeris settings each worker is given
    Temporary,   \* the temporary path each worker's clock gives it
    Stranger,    \* maker of a file no worker wrote: damaged, of another format
    NoWorker

ASSUME WorkerAssumption == NoWorker \notin Workers /\ Stranger \notin Workers \cup {NoWorker}

VARIABLES
    pc,          \* where a worker is, or how it ended
    cache,       \* whose file the cache path is linked to
    temporary,   \* and each temporary path
    whole        \* the workers whose file is complete and synced

vars == <<pc, cache, temporary, whole>>

Names == {Temporary[w] : w \in Workers}

Goto(w, label) == pc' = [pc EXCEPT ![w] = label]

Init ==
    /\ pc = [w \in Workers |-> "started"]
    /\ cache \in {NoWorker, Stranger}
    /\ temporary = [n \in Names |-> NoWorker]
    /\ whole = {}

\* symlink_status: a regular file is opened at once; what is not one, or cannot
\* be looked at, is an error and never a reason to integrate.
Inspect(w) ==
    /\ pc[w] = "started"
    /\ \/ Goto(w, IF cache = NoWorker THEN "integrating" ELSE "loading")
       \/ Goto(w, "cache_unreadable")
    /\ UNCHANGED <<cache, temporary, whole>>

\* Faulty: the metadata is not compared with what the caller asks for.
LoadUnasked(w) ==
    /\ pc[w] = "loading"
    /\ Goto(w, IF cache \in whole THEN "hit" ELSE "cache_rejected")
    /\ UNCHANGED <<cache, temporary, whole>>

\* decode() takes a whole file of the same request; the open, a read or the
\* second look at the length may fail before it.
Load(w) ==
    /\ pc[w] = "loading"
    /\ \/ Goto(w, IF cache \in whole /\ Asks[cache] = Asks[w] THEN "hit" ELSE "cache_rejected")
       \/ Goto(w, "cache_unreadable")
    /\ UNCHANGED <<cache, temporary, whole>>

\* The integration ends, and with a cancelled run so does the worker.
Integrate(w) ==
    /\ pc[w] = "integrating"
    /\ Goto(w, "creating") \/ Goto(w, "cancelled")
    /\ UNCHANGED <<cache, temporary, whole>>

\* open() with O_CREAT and O_EXCL.
Create(w) ==
    /\ pc[w] = "creating"
    /\ \/ /\ temporary[Temporary[w]] = NoWorker
          /\ temporary' = [temporary EXCEPT ![Temporary[w]] = w]
          /\ Goto(w, "writing")
       \/ /\ Goto(w, "throwing")   \* it exists, or the directory refuses it
          /\ UNCHANGED temporary
    /\ UNCHANGED <<cache, whole>>

\* Faulty: what was not written is published all the same.
WriteUnchecked(w) ==
    /\ pc[w] = "writing"
    /\ whole' \in {whole, whole \cup {w}}
    /\ Goto(w, "linking")
    /\ UNCHANGED <<cache, temporary>>

\* write(), fsync() and close().
Write(w) ==
    /\ pc[w] = "writing"
    /\ \/ whole' = whole \cup {w} /\ Goto(w, "linking")
       \/ whole' = whole /\ Goto(w, "throwing")
    /\ UNCHANGED <<cache, temporary>>

\* Faulty: publish() renames, as the report writers do.
LinkByRename(w) ==
    /\ pc[w] = "linking"
    /\ \/ /\ temporary[Temporary[w]] # NoWorker
          /\ cache' = temporary[Temporary[w]]
          /\ Goto(w, "unlinking")
       \/ /\ temporary[Temporary[w]] = NoWorker
          /\ Goto(w, "throwing")
          /\ UNCHANGED cache
    /\ UNCHANGED <<temporary, whole>>

\* link(): refused when the cache path exists or the temporary one does not.
Link(w) ==
    /\ pc[w] = "linking"
    /\ \/ /\ cache = NoWorker /\ temporary[Temporary[w]] # NoWorker
          /\ cache' = temporary[Temporary[w]]
          /\ Goto(w, "unlinking")
       \/ /\ Goto(w, "throwing")
          /\ UNCHANGED cache
    /\ UNCHANGED <<temporary, whole>>

Removed(w) == temporary' = [temporary EXCEPT ![Temporary[w]] = NoWorker]

\* unlink(): the save has succeeded.
Unlink(w) ==
    /\ pc[w] = "unlinking"
    /\ \/ temporary[Temporary[w]] # NoWorker /\ Removed(w) /\ Goto(w, "created")
       \/ Goto(w, "throwing") /\ UNCHANGED temporary
    /\ UNCHANGED <<cache, whole>>

\* The catch clause removes the temporary path, whoever made it.
CleanUp(w) ==
    /\ pc[w] = "throwing"
    /\ Removed(w)
    /\ Goto(w, "cache_write_failed")
    /\ UNCHANGED <<cache, whole>>

\* Both cache_rejected and cache_unreadable are the error "cache_rejected".
Ends == {"hit", "cache_rejected", "cache_unreadable", "cancelled", "created",
         "cache_write_failed", "killed"}

Kill(w) ==
    /\ pc[w] \notin Ends
    /\ Goto(w, "killed")
    /\ UNCHANGED <<cache, temporary, whole>>

Next == \E w \in Workers :
    Inspect(w) \/ Load(w) \/ Integrate(w) \/ Create(w) \/ Write(w) \/ Link(w)
        \/ Unlink(w) \/ CleanUp(w) \/ Kill(w)

Spec == Init /\ [][Next]_vars

-----------------------------------------------------------------------------
TypeOK ==
    /\ pc \in [Workers -> Ends \cup {"started", "loading", "integrating", "creating",
                                     "writing", "linking", "unlinking", "throwing"}]
    /\ cache \in Workers \cup {NoWorker, Stranger}
    /\ temporary \in [Names -> Workers \cup {NoWorker}]
    /\ whole \subseteq Workers

\* Whoever is killed where, what workers leave at the cache path is complete; a
\* run goes on from a whole file of its own request or from its own, which it
\* says it created; and the content of a file is rejected only if no worker wrote
\* it or another request asked for it: "stale" settings are never taken, a whole
\* file never refused (docs/M2-WORKER-CACHE-CONTRACT.md:17).
PublishedIsGood ==
    /\ cache \in Workers => cache \in whole
    /\ \A w \in Workers :
        /\ pc[w] = "hit" => cache \in whole /\ Asks[cache] = Asks[w]
        /\ pc[w] = "cache_rejected" => cache = Stranger \/ Asks[cache] # Asks[w]
        /\ pc[w] = "created" => cache = w

\* "publishes the completed artifact without replacing an existing
\* destination" (docs/M2-PERSISTED-CACHE-CONTRACT.md:11).
NeverReplaced == [][cache # NoWorker => cache' = cache]_vars
=============================================================================
