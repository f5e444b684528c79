----------------------------- MODULE ImageAssets -----------------------------
(***************************************************************************)
(* download_os_images.py: runs of the tool that fetch the image files of a *)
(* distribution into one directory and point the generic links at them.    *)
(* Runs may overlap and may be stopped at any step (Ctrl-C, a lost         *)
(* connection, an exception), and the user may delete an image file.       *)
(***************************************************************************)
EXTENDS Integers, Sequences

CONSTANTS
  Dists,     \* distributions with a manifest
  Assets,    \* "disk", "kernel", "initrd"
  Manifest,  \* the assets of each distribution, in the order of its table
  Filters,   \* asset lists given on the command line, <<>> for none
  Tools,     \* runs of the tool that may be under way together
  MayStop,   \* whether a run may be stopped before its end
  MayDelete  \* whether the user may delete an image file

Elems(s) == {s[i] : i \in 1..Len(s)}

ASSUME ImageAssumption ==
  /\ Dists # {} /\ {"absent", "complete"} \cap Tools = {}
  /\ Manifest \in [Dists -> Seq(Assets)] /\ Filters \subseteq Seq(Assets)
  /\ {MayStop, MayDelete} \subseteq BOOLEAN

VARIABLES
  file,    \* of each image file: absent, complete, or the run that opened it
           \* last and has not written it to the end
  link,    \* the files whose generic link exists
  pc,      \* of each run: where it is
  dist,    \* of each run: args.dist
  keys,    \* of each run: targeted_keys
  todo,    \* of each run: the keys its current loop has still to process
  stopped, \* ghost: files whose last download was stopped
  torn,    \* ghost: files whose link a stopped run had just removed
  ready    \* ghost: files a run has linked and then reported ready

runVars == <<pc, dist, keys, todo>>
vars == <<file, link, runVars, stopped, torn, ready>>

Images == UNION {{<<d, k>> : k \in Elems(Manifest[d])} : d \in Dists}
Idle   == {"off", "ready"}
Cur(t) == <<dist[t], Head(todo[t])>>
Goto(t, to) == pc' = [pc EXCEPT ![t] = to]
NextKey(t)  == todo' = [todo EXCEPT ![t] = Tail(@)]
\* The process ends: its variables go with it.
End(t, as) == /\ Goto(t, as)
              /\ keys' = [keys EXCEPT ![t] = <<>>] /\ todo' = [todo EXCEPT ![t] = <<>>]
Streams(t, f) == pc[t] = "stream" /\ Cur(t) = f

Known(d, filter) == SelectSeq(filter, LAMBDA k : k \in Elems(Manifest[d]))

\* What SelectSeq() returns, said for the proofs, which cannot unfold it.
ASSUME KnownAssumption ==
  \A d \in Dists, filter \in Filters : Known(d, filter) \in Seq(Elems(Manifest[d]))

AnyAsset(d, filter) == IF filter = <<>> THEN Manifest[d] ELSE filter   \* slip: filter unchecked
\* Without a filter every asset of the manifest; otherwise those it has.
Targeted(d, filter) == IF filter = <<>> THEN Manifest[d] ELSE Known(d, filter)

Init ==
  /\ file = [f \in Images |-> "absent"] /\ link = {} /\ pc = [t \in Tools |-> "off"]
  /\ dist = [t \in Tools |-> CHOOSE d \in Dists : TRUE]
  /\ keys = [t \in Tools |-> <<>>] /\ todo = [t \in Tools |-> <<>>]
  /\ stopped = {} /\ torn = {} /\ ready = {}

Start(t, d, filter) ==
  /\ pc[t] \in Idle
  /\ Goto(t, "seek")
  /\ dist' = [dist EXCEPT ![t] = d]
  /\ keys' = [keys EXCEPT ![t] = Targeted(d, filter)]
  /\ todo' = [todo EXCEPT ![t] = Targeted(d, filter)]
  /\ UNCHANGED <<file, link, stopped, torn, ready>>

-----------------------------------------------------------------------------
(* The download loop.                                                      *)

Cached(f) == file[f] # "absent"

\* os.path.exists() of the unique name: a file that is there is skipped,
\* whatever is in it.
Seek(t) ==
  /\ pc[t] = "seek" /\ todo[t] # <<>>
  /\ IF Cached(Cur(t)) THEN NextKey(t) /\ UNCHANGED pc
                       ELSE Goto(t, "fetch") /\ UNCHANGED todo
  /\ UNCHANGED <<file, link, dist, keys, stopped, torn, ready>>

\* urlretrieve() opens the URL first, then the file itself, truncating it.
Open(t) ==
  /\ pc[t] = "fetch"
  /\ Goto(t, "stream")
  /\ file' = [file EXCEPT ![Cur(t)] = t]
  /\ stopped' = stopped \ {Cur(t)} /\ ready' = ready \ {Cur(t)}
  /\ UNCHANGED <<link, dist, keys, todo, torn>>

EarlyFinish(t) == file   \* slip: the loop goes on before the data is written
\* The run that truncated the file last is the one whose end completes it.
Written(t) == IF file[Cur(t)] = t THEN [file EXCEPT ![Cur(t)] = "complete"] ELSE file

Finish(t) ==
  /\ pc[t] = "stream"
  /\ file' = Written(t)
  /\ Goto(t, "seek") /\ NextKey(t)
  /\ UNCHANGED <<link, dist, keys, stopped, torn, ready>>

-----------------------------------------------------------------------------
(* update_symbolic_links(): one key after the other, link by link.         *)

BeginLinks(t) ==
  /\ pc[t] = "seek" /\ todo[t] = <<>>
  /\ Goto(t, "look") /\ todo' = [todo EXCEPT ![t] = keys[t]]
  /\ UNCHANGED <<file, link, dist, keys, stopped, torn, ready>>

Look(t) ==
  /\ pc[t] = "look" /\ todo[t] # <<>>
  /\ Goto(t, IF Cur(t) \in link THEN "remove" ELSE "relink")
  /\ UNCHANGED <<file, link, dist, keys, todo, stopped, torn, ready>>

\* os.remove(); it raises when another run has removed the link since.
Remove(t) ==
  /\ pc[t] = "remove"
  /\ IF Cur(t) \in link
     THEN link' = link \ {Cur(t)} /\ Goto(t, "relink") /\ UNCHANGED <<keys, todo>>
     ELSE End(t, "off") /\ UNCHANGED link
  /\ UNCHANGED <<file, dist, stopped, torn, ready>>

\* os.symlink(), if the file exists; it raises when the link exists again.
LinksNew(t) == file[Cur(t)] # "absent" /\ Cur(t) \notin ready   \* slip: once linked, never again
MakesLink(t) == file[Cur(t)] # "absent"

Relink(t) ==
  /\ pc[t] = "relink"
  /\ IF MakesLink(t) /\ Cur(t) \in link
     THEN End(t, "off") /\ UNCHANGED <<link, torn>>
     ELSE /\ link' = IF MakesLink(t) THEN link \cup {Cur(t)} ELSE link
          /\ torn' = IF MakesLink(t) THEN torn \ {Cur(t)} ELSE torn
          /\ Goto(t, "look") /\ NextKey(t) /\ UNCHANGED keys
  /\ UNCHANGED <<file, dist, stopped, ready>>

\* "Workspace alignment complete. Ready for agent deployment!"
Report(t) ==
  /\ pc[t] = "look" /\ todo[t] = <<>>
  /\ End(t, "ready")
  /\ ready' = ready \cup {f \in {<<dist[t], k>> : k \in Elems(keys[t])} :
                            f \in link /\ file[f] # "absent"}
  /\ UNCHANGED <<file, link, dist, stopped, torn>>

-----------------------------------------------------------------------------
(* What ends a run early, and the user.                                    *)

Stop(t) ==
  /\ MayStop /\ pc[t] \notin Idle
  /\ End(t, "off")
  /\ stopped' = IF pc[t] = "stream" /\ file[Cur(t)] = t
                THEN stopped \cup {Cur(t)} ELSE stopped
  /\ torn' = IF pc[t] = "relink" /\ Cur(t) \notin link THEN torn \cup {Cur(t)} ELSE torn
  /\ UNCHANGED <<file, link, dist, ready>>

Delete(f) ==
  /\ MayDelete /\ file[f] # "absent"
  /\ \A t \in Tools : ~Streams(t, f)
  /\ file' = [file EXCEPT ![f] = "absent"]
  /\ stopped' = stopped \ {f} /\ ready' = ready \ {f}
  /\ UNCHANGED <<link, runVars, torn>>

Step(t) ==
  \/ Seek(t) \/ Open(t) \/ Finish(t) \/ BeginLinks(t)
  \/ Look(t) \/ Remove(t) \/ Relink(t) \/ Report(t)

Next ==
  \/ \E t \in Tools : Step(t) \/ Stop(t)
                      \/ \E d \in Dists, filter \in Filters : Start(t, d, filter)
  \/ \E f \in Images : Delete(f)

Spec == Init /\ [][Next]_vars

-----------------------------------------------------------------------------
TypeOK ==
  /\ file \in [Images -> {"absent", "complete"} \cup Tools]
  /\ link \subseteq Images
  /\ pc \in [Tools -> {"off", "seek", "fetch", "stream", "look", "remove", "relink", "ready"}]
  /\ dist \in [Tools -> Dists]
  /\ keys \in [Tools -> Seq(Assets)] /\ todo \in [Tools -> Seq(Assets)]
  /\ stopped \subseteq Images /\ torn \subseteq Images /\ ready \subseteq Images
  /\ \A t \in Tools : Elems(keys[t]) \subseteq Elems(Manifest[dist[t]])
  /\ \A t \in Tools : pc[t] \in {"fetch", "stream", "remove", "relink"} => todo[t] # <<>>

(* A file that is there but not whole, linked or not, is the trace of a    *)
(* download that was stopped, or of the run that truncated it last and is  *)
(* still writing: two downloads of one file that overlap do not leave a    *)
(* partial file behind once both have ended by themselves.                 *)
PartialHasCause ==
  \A f \in Images : file[f] \in Tools => f \in stopped \/ Streams(file[f], f)

(* The link of an image that a run has reported ready is missing in one    *)
(* place only: between update_symbolic_links()'s os.remove() and its       *)
(* os.symlink(), for as long as a run is there, or for good if one was     *)
(* stopped there.  What the code says of the gap is LinksAtomic below.     *)
ReadyStaysLinked ==
  \A f \in ready : \/ f \in link \/ f \in torn
                   \/ \E t \in Tools : pc[t] = "relink" /\ Cur(t) = f

(* Line 210, "Handle atomic symlink mappings updates": an agent that looks *)
(* for an image that was reported ready finds its link, also while another *)
(* run updates the mappings.                                               *)
LinksAtomic == ready \subseteq link

(* What the tool reports (line 212: "Workspace alignment complete. Ready   *)
(* for agent deployment!"): the images it has linked are whole, or another *)
(* run is writing them.                                                    *)
ReadyImagesComplete ==
  \A f \in ready : file[f] = "complete" \/ Streams(file[f], f)
=============================================================================
