-------------------------- MODULE CacheFiles_proofs --------------------------
(***************************************************************************)
(* For any number of workers and requests: what is at the path is never    *)
(* replaced, and, as long as no two workers are given the same temporary   *)
(* path, what they publish is complete, taken by those who ask for it and  *)
(* by nobody else.  The second needs to know whose file a temporary *)
(* path can hold, and what each worker has achieved when it stands at a    *)
(* system call.                                                            *)
(***************************************************************************)
EXTENDS CacheFiles, TLAPS

\* The clock gives no two workers the same temporary path.
Distinct == \A v, w \in Workers : Temporary[v] = Temporary[w] => v = w

OwnFile == \A w \in Workers : temporary[Temporary[w]] \in {w, NoWorker}

Progressed == \A w \in Workers :
    /\ pc[w] \in {"loading", "cache_rejected"} => cache # NoWorker
    /\ pc[w] = "linking" => w \in whole
    /\ pc[w] = "unlinking" => cache = w

PublishedInv == TypeOK /\ OwnFile /\ Progressed /\ PublishedIsGood

\* Every step keeps the types.
LEMMA TypePreserved == ASSUME TypeOK, [Next]_vars PROVE TypeOK'
<1> USE DEF TypeOK, Goto, Ends
<1>1. CASE UNCHANGED vars
  BY <1>1 DEF vars
<1>2. ASSUME NEW w \in Workers,
             Inspect(w) \/ Load(w) \/ Integrate(w) \/ Kill(w)
      PROVE TypeOK'
  BY <1>2 DEF Inspect, Load, Integrate, Kill
<1>3. ASSUME NEW w \in Workers, Create(w) \/ Unlink(w) \/ CleanUp(w)
      PROVE TypeOK'
  BY <1>3 DEF Create, Unlink, CleanUp, Removed, Names
<1>4. ASSUME NEW w \in Workers, Write(w)
      PROVE TypeOK'
  BY <1>4 DEF Write
<1>5. ASSUME NEW w \in Workers, Link(w)
      PROVE TypeOK'
  <2>1. Temporary[w] \in Names BY DEF Names
  <2> QED BY <1>5, <2>1 DEF Link
<1> QED BY <1>1, <1>2, <1>3, <1>4, <1>5 DEF Next

\* Every variable of the cache directory keeps its type.
THEOREM CacheTypeCorrect == Spec => []TypeOK
<1>1. Init => TypeOK
  BY DEF Init, TypeOK, Names
<1> QED BY <1>1, TypePreserved, PTL DEF Spec

\* publish() never replaces a file that is there, with any temporary paths.
THEOREM NothingReplaced == Spec => NeverReplaced
<1>1. [Next]_vars => [cache # NoWorker => cache' = cache]_vars
  BY DEF Next, vars, Inspect, Load, Integrate, Create, Write, Link, Unlink, CleanUp, Kill
<1> QED BY <1>1, PTL DEF Spec, NeverReplaced

\* A step of worker w leaves the places of the others as they are.
LEMMA OthersStay ==
    ASSUME TypeOK, NEW w \in Workers, NEW label, Goto(w, label), NEW v \in Workers
    PROVE pc'[v] = IF v = w THEN label ELSE pc[v]
BY DEF TypeOK, Goto

\* Every step keeps what is known of a worker at each of its system calls.
LEMMA PublishedPreserved ==
    ASSUME Distinct, PublishedInv, [Next]_vars
    PROVE PublishedInv'
<1>1. TypeOK' BY TypePreserved DEF PublishedInv
<1> SUFFICES (OwnFile /\ Progressed /\ PublishedIsGood)'
  BY <1>1 DEF PublishedInv
<1> USE DEF PublishedInv
<1>2. CASE UNCHANGED vars
  BY <1>2 DEF vars, OwnFile, Progressed, PublishedIsGood
<1>3. ASSUME NEW w \in Workers, Inspect(w) \/ Load(w) \/ Integrate(w) \/ Kill(w)
      PROVE (OwnFile /\ Progressed /\ PublishedIsGood)'
  <2>1. UNCHANGED <<cache, temporary, whole>>
    BY <1>3 DEF Inspect, Load, Integrate, Kill
  <2>2. PICK label : /\ Goto(w, label)
                     /\ label \notin {"linking", "unlinking", "created"}
                     /\ label \in {"loading", "cache_rejected"} => cache # NoWorker
                     /\ label = "hit" => cache \in whole /\ Asks[cache] = Asks[w]
                     /\ label = "cache_rejected" => cache = Stranger \/ Asks[cache] # Asks[w]
    <3>1. CASE Inspect(w) BY <3>1 DEF Inspect
    <3>2. CASE Load(w)
      <4>1. cache \in {Stranger} \cup whole
        BY <3>2 DEF Load, TypeOK, Progressed, PublishedIsGood
      <4> QED BY <3>2, <4>1 DEF Load, Progressed
    <3>3. CASE Integrate(w) \/ Kill(w) BY <3>3 DEF Integrate, Kill
    <3> QED BY <1>3, <3>1, <3>2, <3>3
  <2>3. \A v \in Workers : pc'[v] = IF v = w THEN label ELSE pc[v]
    BY <2>2, OthersStay
  <2> QED BY <2>1, <2>2, <2>3 DEF OwnFile, Progressed, PublishedIsGood
<1>4. ASSUME NEW w \in Workers, Create(w)
      PROVE (OwnFile /\ Progressed /\ PublishedIsGood)'
  <2>1. \A v \in Workers : temporary'[Temporary[v]] \in {temporary[Temporary[v]], v}
    BY <1>4 DEF Create, Distinct, TypeOK, Names
  <2>2. PICK label \in {"writing", "throwing"} : Goto(w, label)
    BY <1>4 DEF Create
  <2>3. \A v \in Workers : pc'[v] = IF v = w THEN label ELSE pc[v]
    BY <2>2, OthersStay
  <2>4. UNCHANGED <<cache, whole>> BY <1>4 DEF Create
  <2> QED BY <2>1, <2>3, <2>4 DEF OwnFile, Progressed, PublishedIsGood
<1>5. ASSUME NEW w \in Workers, Write(w)
      PROVE (OwnFile /\ Progressed /\ PublishedIsGood)'
  <2>1. PICK label \in {"linking", "throwing"} :
             Goto(w, label) /\ (label = "linking" => w \in whole')
    BY <1>5 DEF Write
  <2>2. \A v \in Workers : pc'[v] = IF v = w THEN label ELSE pc[v]
    BY <2>1, OthersStay
  <2>3. whole \subseteq whole' /\ UNCHANGED <<cache, temporary>>
    BY <1>5 DEF Write
  <2> QED BY <2>1, <2>2, <2>3 DEF OwnFile, Progressed, PublishedIsGood
<1>6. ASSUME NEW w \in Workers, Link(w)
      PROVE (OwnFile /\ Progressed /\ PublishedIsGood)'
  <2>0. UNCHANGED <<temporary, whole>> BY <1>6 DEF Link
  <2>1. CASE Goto(w, "throwing") /\ UNCHANGED cache
    <3>1. \A v \in Workers : pc'[v] = IF v = w THEN "throwing" ELSE pc[v]
      BY <2>1, OthersStay
    <3> QED BY <2>0, <2>1, <3>1 DEF OwnFile, Progressed, PublishedIsGood
  <2>2. CASE Goto(w, "unlinking") /\ cache = NoWorker
    <3>1. cache' = w
      BY <1>6, <2>2, OthersStay DEF Link, OwnFile
    <3>2. w \in whole
      BY <1>6 DEF Link, Progressed
    <3>3. \A v \in Workers : pc'[v] = IF v = w THEN "unlinking" ELSE pc[v]
      BY <2>2, OthersStay
    <3>4. \A v \in Workers : pc[v] \notin {"unlinking", "created", "hit"}
      BY <2>2, WorkerAssumption DEF TypeOK, Progressed, PublishedIsGood
    <3>5. \A v \in Workers : pc[v] \notin {"loading", "cache_rejected"}
      BY <2>2 DEF Progressed
    <3> QED BY <2>0, <3>1, <3>2, <3>3, <3>4, <3>5, WorkerAssumption
            DEF OwnFile, Progressed, PublishedIsGood
  <2> QED BY <1>6, <2>1, <2>2 DEF Link
<1>7. ASSUME NEW w \in Workers, Unlink(w) \/ CleanUp(w)
      PROVE (OwnFile /\ Progressed /\ PublishedIsGood)'
  <2>1. \A v \in Workers : temporary'[Temporary[v]] \in {temporary[Temporary[v]], NoWorker}
    BY <1>7 DEF Unlink, CleanUp, Removed, Distinct, TypeOK, Names
  <2>2. PICK label \in {"created", "throwing", "cache_write_failed"} :
             Goto(w, label) /\ (label = "created" => cache = w)
    BY <1>7 DEF Unlink, CleanUp, Progressed
  <2>3. \A v \in Workers : pc'[v] = IF v = w THEN label ELSE pc[v]
    BY <2>2, OthersStay
  <2>4. UNCHANGED <<cache, whole>> BY <1>7 DEF Unlink, CleanUp
  <2> QED BY <2>1, <2>2, <2>3, <2>4 DEF OwnFile, Progressed, PublishedIsGood
<1> QED BY <1>2, <1>3, <1>4, <1>5, <1>6, <1>7 DEF Next

\* Whatever workers are killed where and whatever each asks for, a file they leave
\* at the cache path is complete, a run goes on from a whole file of its own
\* request, and the content of a file is rejected only if no worker wrote it or
\* another request asked for it.
THEOREM CompleteWhenPublished == ASSUME Distinct PROVE Spec => []PublishedIsGood
<1>1. Init => PublishedInv
  BY WorkerAssumption
     DEF Init, PublishedInv, TypeOK, OwnFile, Progressed, PublishedIsGood, Names
<1>2. PublishedInv /\ [Next]_vars => PublishedInv'
  BY PublishedPreserved
<1>3. PublishedInv => PublishedIsGood
  BY DEF PublishedInv
<1> QED BY <1>1, <1>2, <1>3, PTL DEF Spec
=============================================================================
