-------------------------- MODULE ImageAssetsProofs --------------------------
(***************************************************************************)
(* Theorems about ImageAssets, for any manifests, any command lines and    *)
(* any number of overlapping runs.                                         *)
(***************************************************************************)
EXTENDS ImageAssets, TLAPS

Places == {"off", "seek", "fetch", "stream", "look", "remove", "relink", "ready"}
Loops  == {"fetch", "stream", "remove", "relink"}   \* places inside a loop's body
OfDist(t) == Seq(Elems(Manifest[dist[t]]))

\* The type invariant in two halves.  The loops process assets of the
\* manifest only, so that every file and link is one of an image.
RunsInv ==
  /\ pc \in [Tools -> Places] /\ dist \in [Tools -> Dists]
  /\ keys \in [Tools -> Seq(Assets)] /\ todo \in [Tools -> Seq(Assets)]
  /\ \A t \in Tools : /\ keys[t] \in OfDist(t) /\ todo[t] \in OfDist(t)
                      /\ pc[t] \in Loops => todo[t] # <<>>
FilesInv ==
  /\ file \in [Images -> {"absent", "complete"} \cup Tools]
  /\ link \subseteq Images
  /\ stopped \subseteq Images /\ torn \subseteq Images /\ ready \subseteq Images

LEMMA OfManifest ==
  ASSUME NEW d \in Dists PROVE Seq(Elems(Manifest[d])) \subseteq Seq(Assets)
<1>1. Elems(Manifest[d]) \subseteq Assets
  BY ImageAssumption DEF Elems
<1> QED BY <1>1

\* The loops' current key is one of an image file.
LEMMA CurrentImage ==
  ASSUME RunsInv, NEW t \in Tools, todo[t] # <<>>
  PROVE  Cur(t) \in Images
<1>1. Head(todo[t]) \in Elems(Manifest[dist[t]]) /\ dist[t] \in Dists
  BY DEF RunsInv, OfDist
<1> QED BY <1>1 DEF Cur, Images

\* A run that goes on with its distribution keeps RunsInv if its loops keep
\* to that distribution's assets.
LEMMA RunStep ==
  ASSUME RunsInv, NEW t \in Tools, dist' = dist,
         pc' = [pc EXCEPT ![t] = pc'[t]], pc'[t] \in Places,
         keys' = [keys EXCEPT ![t] = keys'[t]], keys'[t] \in OfDist(t),
         todo' = [todo EXCEPT ![t] = todo'[t]], todo'[t] \in OfDist(t),
         pc'[t] \in Loops => todo'[t] # <<>>
  PROVE  RunsInv'
<1>1. keys'[t] \in Seq(Assets) /\ todo'[t] \in Seq(Assets)
  BY OfManifest DEF RunsInv, OfDist
<1> QED BY <1>1 DEF RunsInv, OfDist

\* The two ways a loop changes what it has still to process.
LEMMA LoopSteps ==
  ASSUME RunsInv, NEW t \in Tools
  PROVE  /\ <<>> \in OfDist(t) /\ keys[t] \in OfDist(t) /\ todo[t] \in OfDist(t)
         /\ todo[t] # <<>> => Tail(todo[t]) \in OfDist(t)
BY DEF RunsInv, OfDist

LEMMA TypeInit == Init => RunsInv /\ FilesInv
<1> SUFFICES ASSUME Init PROVE RunsInv /\ FilesInv
  OBVIOUS
<1>1. (CHOOSE d \in Dists : TRUE) \in Dists
  BY ImageAssumption
<1>2. PICK d \in Dists : dist = [t \in Tools |-> d]
  BY <1>1 DEF Init
<1>3. pc \in [Tools -> {"off"}] /\ keys \in [Tools -> {<<>>}] /\ todo \in [Tools -> {<<>>}]
  BY DEF Init
<1>4. RunsInv
  <2>1. \A S : <<>> \in Seq(S)
    OBVIOUS
  <2>2. pc \in [Tools -> Places] /\ \A t \in Tools : pc[t] \notin Loops
    BY <1>3 DEF Places, Loops
  <2>3. dist \in [Tools -> Dists]
    BY <1>2
  <2>4. keys \in [Tools -> Seq(Assets)] /\ todo \in [Tools -> Seq(Assets)]
    BY <1>3, <2>1
  <2>5. \A t \in Tools : keys[t] \in OfDist(t) /\ todo[t] \in OfDist(t)
    BY <1>3, <2>1 DEF OfDist
  <2> QED BY <2>2, <2>3, <2>4, <2>5 DEF RunsInv
<1>5. FilesInv
  BY DEF Init, FilesInv
<1> QED BY <1>4, <1>5

LEMMA RunsStep == RunsInv /\ [Next]_vars => RunsInv'
<1> SUFFICES ASSUME RunsInv, [Next]_vars PROVE RunsInv'
  OBVIOUS
<1>1. ASSUME NEW t \in Tools, NEW d \in Dists, NEW filter \in Filters, Start(t, d, filter)
      PROVE RunsInv'
  <2>1. Targeted(d, filter) \in Seq(Elems(Manifest[d])) /\ Targeted(d, filter) \in Seq(Assets)
    <3>1. Manifest[d] \in Seq(Elems(Manifest[d])) /\ Manifest[d] \in Seq(Assets)
      <4>1. Manifest[d] \in Seq(Assets)
        BY ImageAssumption
      <4>2. \A i \in 1..Len(Manifest[d]) : Manifest[d][i] \in Elems(Manifest[d])
        BY DEF Elems
      <4> QED BY <4>1, <4>2
    <3> QED BY <3>1, KnownAssumption, OfManifest DEF Targeted
  <2> DEFINE s == Targeted(d, filter)
  <2>2. /\ pc' = [pc EXCEPT ![t] = "seek"] /\ dist' = [dist EXCEPT ![t] = d]
        /\ keys' = [keys EXCEPT ![t] = s] /\ todo' = [todo EXCEPT ![t] = s]
    BY <1>1 DEF Start, Goto
  <2> HIDE DEF s
  <2>3. s \in Seq(Elems(Manifest[d])) /\ s \in Seq(Assets)
    BY <2>1 DEF s
  <2> QED BY <2>2, <2>3 DEF RunsInv, OfDist, Places, Loops
<1>2. ASSUME NEW t \in Tools, Step(t) \/ Stop(t) PROVE RunsInv'
  <2>0. /\ pc = [pc EXCEPT ![t] = pc[t]] /\ keys = [keys EXCEPT ![t] = keys[t]]
        /\ todo = [todo EXCEPT ![t] = todo[t]]
        /\ DOMAIN pc = Tools /\ DOMAIN keys = Tools /\ DOMAIN todo = Tools
        /\ pc[t] \in Places /\ (pc[t] \in Loops => todo[t] # <<>>)
    BY DEF RunsInv
  <2>1. /\ pc' = [pc EXCEPT ![t] = pc'[t]] /\ pc'[t] \in Places /\ dist' = dist
        /\ keys' = [keys EXCEPT ![t] = keys'[t]] /\ keys'[t] \in {keys[t], <<>>}
        /\ todo' = [todo EXCEPT ![t] = todo'[t]]
        /\ \/ todo'[t] \in {todo[t], keys[t], <<>>}
           \/ todo[t] # <<>> /\ todo'[t] = Tail(todo[t])
        /\ pc'[t] \in Loops => todo'[t] # <<>>
    <3> USE <2>0 DEF Goto, NextKey, End, Places, Loops
    <3>1. CASE Seek(t)
      BY <3>1 DEF Seek
    <3>2. CASE Open(t) \/ Finish(t)
      BY <3>2 DEF Open, Finish
    <3>3. CASE BeginLinks(t) \/ Look(t) \/ Report(t)
      BY <3>3 DEF BeginLinks, Look, Report
    <3>4. CASE Remove(t)
      BY <3>4 DEF Remove
    <3>5. CASE Relink(t)
      BY <3>5 DEF Relink
    <3>6. CASE Stop(t)
      BY <3>6 DEF Stop
    <3> QED BY <1>2, <3>1, <3>2, <3>3, <3>4, <3>5, <3>6 DEF Step
  <2>2. keys'[t] \in OfDist(t) /\ todo'[t] \in OfDist(t)
    BY <2>1, LoopSteps
  <2> QED BY <2>1, <2>2, RunStep
<1>3. ASSUME NEW f \in Images, Delete(f) PROVE RunsInv'
  BY <1>3 DEF Delete, runVars, RunsInv, OfDist
<1>4. CASE UNCHANGED vars
  BY <1>4 DEF vars, runVars, RunsInv, OfDist
<1> QED BY <1>1, <1>2, <1>3, <1>4 DEF Next

LEMMA FilesStep == RunsInv /\ FilesInv /\ [Next]_vars => FilesInv'
<1> SUFFICES ASSUME RunsInv, FilesInv, [Next]_vars PROVE FilesInv'
  OBVIOUS
<1>1. ASSUME NEW t \in Tools, pc[t] \in Loops PROVE Cur(t) \in Images
  BY <1>1, CurrentImage DEF RunsInv
<1>2. ASSUME NEW t \in Tools, NEW d \in Dists, NEW filter \in Filters, Start(t, d, filter)
      PROVE FilesInv'
  BY <1>2 DEF Start, FilesInv
<1>3. ASSUME NEW t \in Tools, Seek(t) \/ BeginLinks(t) \/ Look(t) \/ Report(t)
      PROVE FilesInv'
  BY <1>3 DEF Seek, BeginLinks, Look, Report, FilesInv
<1>4. ASSUME NEW t \in Tools, Open(t) \/ Finish(t) PROVE FilesInv'
  BY <1>4, <1>1 DEF Open, Finish, Written, FilesInv, Loops
<1>5. ASSUME NEW t \in Tools, Remove(t) \/ Relink(t) PROVE FilesInv'
  BY <1>5, <1>1 DEF Remove, Relink, FilesInv, Loops
<1>6. ASSUME NEW t \in Tools, Stop(t) PROVE FilesInv'
  BY <1>6, <1>1 DEF Stop, FilesInv, Loops
<1>7. ASSUME NEW f \in Images, Delete(f) PROVE FilesInv'
  BY <1>7 DEF Delete, FilesInv
<1>8. CASE UNCHANGED vars
  BY <1>8 DEF vars, FilesInv
<1> QED BY <1>2, <1>3, <1>4, <1>5, <1>6, <1>7, <1>8 DEF Next, Step

(* Every variable keeps its type; a run processes assets of its            *)
(* distribution's manifest only, whatever the command line asks for.       *)
THEOREM ImagesTypeCorrect == Spec => []TypeOK
<1>1. RunsInv /\ FilesInv => TypeOK
  <2> SUFFICES ASSUME RunsInv, FilesInv PROVE TypeOK
    OBVIOUS
  <2>1. ASSUME NEW t \in Tools PROVE Elems(keys[t]) \subseteq Elems(Manifest[dist[t]])
    <3> DEFINE S == Elems(Manifest[dist[t]])
    <3>1. keys[t] \in Seq(S)
      BY DEF RunsInv, OfDist
    <3> HIDE DEF S
    <3>2. Elems(keys[t]) \subseteq S
      BY <3>1 DEF Elems
    <3> QED BY <3>2 DEF S
  <2> QED BY <2>1 DEF RunsInv, FilesInv, TypeOK, Places, Loops
<1> QED BY <1>1, TypeInit, RunsStep, FilesStep, PTL DEF Spec

-----------------------------------------------------------------------------
(* Partial files, and the links of images reported ready.                  *)

\* What is reported ready is there, until it is opened again or deleted.
ReadyThere == \A f \in ready : file[f] # "absent"

FilesCause == RunsInv /\ FilesInv /\ PartialHasCause /\ ReadyThere /\ ReadyStaysLinked

LEMMA CauseInit == Init => FilesCause
<1>1. Init => PartialHasCause /\ ReadyThere /\ ReadyStaysLinked
  BY ImageAssumption DEF Init, PartialHasCause, ReadyThere, ReadyStaysLinked
<1> QED BY <1>1, TypeInit DEF FilesCause

\* A step of run t that leaves the files alone, and is not in a download.
LEMMA PartialKept ==
  ASSUME FilesCause, NEW t \in Tools, pc[t] # "stream",
         UNCHANGED file, stopped \subseteq stopped', dist' = dist \/ pc[t] \in Idle,
         \A u \in Tools \ {t} : /\ pc'[u] = pc[u] /\ todo'[u] = todo[u]
                                /\ dist'[u] = dist[u]
  PROVE  PartialHasCause'
<1> SUFFICES ASSUME NEW f \in Images, file[f] \in Tools, f \notin stopped'
             PROVE  Streams(file[f], f)'
  BY DEF PartialHasCause
<1>1. Streams(file[f], f)
  BY DEF FilesCause, PartialHasCause
<1> QED BY <1>1 DEF Streams, Cur

\* A step of run t that is not between a link's removal and re-creation.
LEMMA LinkedKept ==
  ASSUME FilesCause, NEW t \in Tools, pc[t] # "relink", ready' \subseteq ready,
         UNCHANGED <<link, torn>>,
         \A u \in Tools \ {t} : /\ pc'[u] = pc[u] /\ todo'[u] = todo[u]
                                /\ dist'[u] = dist[u]
  PROVE  ReadyStaysLinked'
<1> SUFFICES ASSUME NEW f \in ready', f \notin link, f \notin torn
             PROVE  \E u \in Tools : pc'[u] = "relink" /\ Cur(u)' = f
  BY DEF ReadyStaysLinked
<1>1. PICK u \in Tools : pc[u] = "relink" /\ Cur(u) = f
  BY DEF FilesCause, ReadyStaysLinked
<1> QED BY <1>1 DEF Cur

\* What a step of run t leaves to the other runs.
LEMMA OthersKept ==
  ASSUME RunsInv, NEW t \in Tools,
         Step(t) \/ Stop(t) \/ \E d \in Dists, filter \in Filters : Start(t, d, filter)
  PROVE  \A u \in Tools \ {t} : pc'[u] = pc[u] /\ todo'[u] = todo[u] /\ dist'[u] = dist[u]
BY DEF RunsInv, Step, Stop, Start, Seek, Open, Finish, BeginLinks, Look, Remove, Relink, Report,
       Goto, NextKey, End

LEMMA CauseStep == FilesCause /\ [Next]_vars => FilesCause'
<1> SUFFICES ASSUME FilesCause, [Next]_vars
             PROVE  PartialHasCause' /\ ReadyThere' /\ ReadyStaysLinked'
  BY RunsStep, FilesStep DEF FilesCause
<1>0. RunsInv /\ FilesInv /\ FilesInv'
  BY FilesStep DEF FilesCause
<1>1. ASSUME NEW t \in Tools, NEW d \in Dists, NEW filter \in Filters, Start(t, d, filter)
      PROVE PartialHasCause' /\ ReadyThere' /\ ReadyStaysLinked'
  <2>1. pc[t] \in Idle /\ pc[t] \notin {"stream", "relink"} /\ UNCHANGED <<file, link, stopped, torn, ready>>
    BY <1>1 DEF Start, Idle
  <2> QED BY <1>0, <1>1, <2>1, OthersKept, PartialKept, LinkedKept DEF FilesCause, ReadyThere
<1>2. ASSUME NEW t \in Tools, Seek(t) \/ BeginLinks(t) \/ Look(t)
      PROVE PartialHasCause' /\ ReadyThere' /\ ReadyStaysLinked'
  <2>1. /\ pc[t] \in {"seek", "look"} /\ UNCHANGED <<file, link, dist, stopped, torn, ready>>
        /\ Step(t)
    BY <1>2 DEF Seek, BeginLinks, Look, Step
  <2> QED BY <1>0, <2>1, OthersKept, PartialKept, LinkedKept DEF FilesCause, ReadyThere
<1>3. ASSUME NEW t \in Tools, Open(t)
      PROVE PartialHasCause' /\ ReadyThere' /\ ReadyStaysLinked'
  <2>1. /\ pc[t] = "fetch" /\ pc' = [pc EXCEPT ![t] = "stream"]
        /\ file' = [file EXCEPT ![Cur(t)] = t] /\ stopped' = stopped \ {Cur(t)}
        /\ ready' = ready \ {Cur(t)} /\ UNCHANGED <<link, dist, keys, todo, torn>> /\ Step(t)
    BY <1>3 DEF Open, Goto, Step
  <2>2. PartialHasCause'
    BY <1>0, <2>1 DEF FilesCause, PartialHasCause, Streams, Cur, RunsInv, FilesInv
  <2>3. ReadyThere'
    BY <1>0, <2>1, ImageAssumption DEF FilesCause, ReadyThere, FilesInv
  <2>4. ReadyStaysLinked'
    BY <1>0, <2>1, OthersKept, LinkedKept
  <2> QED BY <2>2, <2>3, <2>4
<1>4. ASSUME NEW t \in Tools, Finish(t)
      PROVE PartialHasCause' /\ ReadyThere' /\ ReadyStaysLinked'
  <2>1. /\ pc[t] = "stream" /\ file' = Written(t) /\ Step(t)
        /\ UNCHANGED <<link, dist, stopped, torn, ready>>
    BY <1>4 DEF Finish, Step
  <2>2. \A u \in Tools \ {t} : pc'[u] = pc[u] /\ todo'[u] = todo[u] /\ dist'[u] = dist[u]
    BY <1>0, <2>1, OthersKept
  <2>3. ASSUME NEW f \in Images
        PROVE  file'[f] \in {file[f], "complete"} /\ (file'[f] = t => f # Cur(t))
    BY <1>0, <2>1, ImageAssumption DEF Written, FilesInv
  <2>4. PartialHasCause'
    BY <1>0, <2>1, <2>2, <2>3, ImageAssumption DEF FilesCause, PartialHasCause, Streams, Cur
  <2>5. ReadyThere'
    BY <1>0, <2>1, <2>3 DEF FilesCause, ReadyThere, FilesInv
  <2> QED BY <2>1, <2>2, <2>4, <2>5, LinkedKept
<1>5. ASSUME NEW t \in Tools, Remove(t)
      PROVE PartialHasCause' /\ ReadyThere' /\ ReadyStaysLinked'
  <2>1. /\ pc[t] = "remove" /\ UNCHANGED <<file, dist, stopped, torn, ready>> /\ Step(t)
    BY <1>5 DEF Remove, Step
  <2>2. \A u \in Tools \ {t} : pc'[u] = pc[u] /\ todo'[u] = todo[u] /\ dist'[u] = dist[u]
    BY <1>0, <2>1, OthersKept
  <2>3. PartialHasCause' /\ ReadyThere'
    BY <2>1, <2>2, PartialKept DEF FilesCause, ReadyThere
  <2>4. CASE Cur(t) \in link
    <3>1. link' = link \ {Cur(t)} /\ pc'[t] = "relink" /\ todo'[t] = todo[t] /\ dist'[t] = dist[t]
      BY <1>0, <1>5, <2>4 DEF Remove, Goto, RunsInv
    <3> QED BY <2>1, <2>2, <2>3, <3>1 DEF FilesCause, ReadyStaysLinked, Cur
  <2>5. CASE Cur(t) \notin link
    BY <1>5, <2>1, <2>2, <2>3, <2>5, LinkedKept DEF Remove
  <2> QED BY <2>4, <2>5
<1>6. ASSUME NEW t \in Tools, Relink(t)
      PROVE PartialHasCause' /\ ReadyThere' /\ ReadyStaysLinked'
  <2>1. /\ pc[t] = "relink" /\ UNCHANGED <<file, dist, stopped, ready>> /\ Step(t)
    BY <1>6 DEF Relink, Step
  <2>2. \A u \in Tools \ {t} : pc'[u] = pc[u] /\ todo'[u] = todo[u] /\ dist'[u] = dist[u]
    BY <1>0, <2>1, OthersKept
  <2>3. PartialHasCause' /\ ReadyThere'
    BY <2>1, <2>2, PartialKept DEF FilesCause, ReadyThere
  <2>4. /\ Cur(t) \in ready => Cur(t) \in link'
        /\ link \subseteq link' /\ torn \subseteq torn' \cup link'
    BY <1>6 DEF Relink, MakesLink, FilesCause, ReadyThere
  <2>5. ReadyStaysLinked'
    BY <2>1, <2>2, <2>4 DEF FilesCause, ReadyStaysLinked, Cur
  <2> QED BY <2>3, <2>5
<1>7. ASSUME NEW t \in Tools, Report(t)
      PROVE PartialHasCause' /\ ReadyThere' /\ ReadyStaysLinked'
  <2>1. /\ pc[t] = "look" /\ UNCHANGED <<file, link, dist, stopped, torn>> /\ Step(t)
        /\ \A f \in ready' : f \in ready \/ (f \in link /\ file[f] # "absent")
    BY <1>7 DEF Report, Step
  <2>2. \A u \in Tools \ {t} : pc'[u] = pc[u] /\ todo'[u] = todo[u] /\ dist'[u] = dist[u]
    BY <1>0, <2>1, OthersKept
  <2>3. PartialHasCause' /\ ReadyThere'
    BY <2>1, <2>2, PartialKept DEF FilesCause, ReadyThere
  <2>4. ReadyStaysLinked'
    BY <2>1, <2>2 DEF FilesCause, ReadyStaysLinked, Cur
  <2> QED BY <2>3, <2>4
<1>8. ASSUME NEW t \in Tools, Stop(t)
      PROVE PartialHasCause' /\ ReadyThere' /\ ReadyStaysLinked'
  <2>1. /\ UNCHANGED <<file, link, dist, ready>>
        /\ stopped' = IF pc[t] = "stream" /\ file[Cur(t)] = t
                      THEN stopped \cup {Cur(t)} ELSE stopped
        /\ torn' = IF pc[t] = "relink" /\ Cur(t) \notin link THEN torn \cup {Cur(t)} ELSE torn
    BY <1>8 DEF Stop
  <2>2. \A u \in Tools \ {t} : pc'[u] = pc[u] /\ todo'[u] = todo[u] /\ dist'[u] = dist[u]
    BY <1>0, <1>8, OthersKept
  <2>3. PartialHasCause' /\ ReadyThere'
    BY <2>1, <2>2 DEF FilesCause, ReadyThere, PartialHasCause, Streams, Cur
  <2>4. ReadyStaysLinked'
    BY <2>1, <2>2 DEF FilesCause, ReadyStaysLinked, Cur
  <2> QED BY <2>3, <2>4
<1>9. ASSUME NEW f \in Images, Delete(f)
      PROVE PartialHasCause' /\ ReadyThere' /\ ReadyStaysLinked'
  <2>1. /\ \A t \in Tools : ~Streams(t, f)
        /\ file' = [file EXCEPT ![f] = "absent"] /\ stopped' = stopped \ {f}
        /\ ready' = ready \ {f} /\ UNCHANGED <<link, pc, dist, todo, torn>>
    BY <1>9 DEF Delete, runVars
  <2>2. PartialHasCause'
    BY <1>0, <2>1, ImageAssumption DEF FilesCause, PartialHasCause, Streams, Cur, FilesInv
  <2>3. ReadyThere' /\ ReadyStaysLinked'
    BY <1>0, <2>1 DEF FilesCause, ReadyThere, ReadyStaysLinked, Cur, FilesInv
  <2> QED BY <2>2, <2>3
<1>10. CASE UNCHANGED vars
  BY <1>10 DEF vars, runVars, FilesCause, PartialHasCause, ReadyThere, ReadyStaysLinked, Streams, Cur
<1> QED BY <1>1, <1>2, <1>3, <1>4, <1>5, <1>6, <1>7, <1>8, <1>9, <1>10 DEF Next, Step

LEMMA CauseAlways == Spec => []FilesCause
BY CauseInit, CauseStep, PTL DEF Spec

(* A partial file is the trace of a stopped download, or of one under way, *)
(* however many runs download it at once.                                  *)
THEOREM PartialFilesHaveCause == Spec => []PartialHasCause
<1>1. FilesCause => PartialHasCause
  BY DEF FilesCause
<1> QED BY <1>1, CauseAlways, PTL

(* The link of an image reported ready is there, but for the gap that a    *)
(* later run makes, for good if it is stopped in it.                       *)
THEOREM ReadyLinksStay == Spec => []ReadyStaysLinked
<1>1. FilesCause => ReadyStaysLinked
  BY DEF FilesCause
<1> QED BY <1>1, CauseAlways, PTL
=============================================================================
