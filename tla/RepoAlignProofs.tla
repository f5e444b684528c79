--------------------------- MODULE RepoAlignProofs ---------------------------
(***************************************************************************)
(* Theorems about RepoAlign, for any number of tags, faults and edits.     *)
(***************************************************************************)
EXTENDS RepoAlign, TLAPS

Making == {"identity", "apply", "commit"}   \* a new branch is being made
Moving == {"stash", "checkout"}             \* on the way to the configured revision
Built  == {"build", "uninstall", "configure", "install", "end"}

-----------------------------------------------------------------------------
(* Type correctness.                                                       *)

\* One entry more, or one less, keeps the type of git's stash.
LEMMA StashTypes ==
  ASSUME NEW s \in Seq(SUBSET Tracked)
  PROVE  /\ \A e \in SUBSET Tracked : <<e>> \o s \in Seq(SUBSET Tracked)
         /\ s # <<>> => Tail(s) \in Seq(SUBSET Tracked) /\ Head(s) \in SUBSET Tracked
BY DEF Tracked

\* The type invariant in parts: the clone, the user's changes, Booleans, and
\* the script and the host.
CloneOK ==
  /\ kind \in Kinds /\ tag \in 1..MaxTag /\ have \subseteq 1..MaxTag
  /\ head \in {Branch, Default} \cup have /\ base \in 0..MaxTag
  /\ patch \in {"none", "loose", "in"} /\ base0 \in 0..MaxTag
ChangesOK ==
  /\ mess \subseteq Changes /\ made \subseteq Changes /\ swept \subseteq Changes
  /\ mess0 \subseteq Changes
  /\ stash \in Seq(SUBSET Tracked) /\ stash0 \in Seq(SUBSET Tracked)
FlagsOK ==
  /\ unmerged \in BOOLEAN /\ identity \in BOOLEAN /\ manifest \in BOOLEAN
  /\ dirty \in BOOLEAN /\ failed \in BOOLEAN
ScriptOK ==
  /\ host \in {None} \cup 0..MaxTag
  /\ pc \in {"clone", "idle", "status", "fetch", "look", "stash", "checkout", "identity",
             "apply", "commit", "pop", "build", "uninstall", "configure", "install", "end"}
  /\ faults \in 0..MaxFaults /\ edits \in 0..MaxEdits

LEMMA TypeParts == TypeOK <=> CloneOK /\ ChangesOK /\ FlagsOK /\ ScriptOK
BY DEF TypeOK, CloneOK, ChangesOK, FlagsOK, ScriptOK

LEMMA TypeInit == Init => CloneOK /\ ChangesOK /\ FlagsOK /\ ScriptOK
<1> SUFFICES ASSUME Init PROVE CloneOK /\ ChangesOK /\ FlagsOK /\ ScriptOK
  OBVIOUS
<1>1. CloneOK
  BY RepoAssumption DEF Init, CloneOK, Branch, Default
<1>2. ChangesOK
  BY DEF Init, ChangesOK
<1>3. ScriptOK
  BY RepoAssumption DEF Init, ScriptOK, None, Default
<1>4. FlagsOK
  BY DEF Init, FlagsOK
<1> QED BY <1>1, <1>2, <1>3, <1>4

LEMMA CloneStep == CloneOK /\ [Next]_vars => CloneOK'
<1> SUFFICES ASSUME CloneOK, [Next]_vars PROVE CloneOK'
  OBVIOUS
<1> USE DEF CloneOK, Put, git, tool, ghosts
<1>1. ASSUME Clone \/ CloneFails \/ Begin \/ Status \/ Look PROVE CloneOK'
  BY <1>1 DEF Clone, CloneFails, Begin, Status, Look
<1>2. ASSUME Fetch \/ Stash PROVE CloneOK'
  BY <1>2 DEF Fetch, Stash
<1>3. ASSUME Checkout PROVE CloneOK'
  <2>1. head' \in {Branch, Default} \cup have /\ base' \in 0..MaxTag
    BY <1>3, RepoAssumption DEF Checkout, Target, Creating, There
  <2> QED BY <1>3, <2>1 DEF Checkout
<1>4. ASSUME CheckoutFails \/ AlignGitIdentity \/ Apply \/ Commit \/ PatchFails \/ Pop
      PROVE CloneOK'
  BY <1>4 DEF CheckoutFails, AlignGitIdentity, Apply, Commit, PatchFails, Pop
<1>5. ASSUME Build \/ Uninstall \/ Configure \/ Install \/ BuildFails \/ End \/ Stop
      PROVE CloneOK'
  BY <1>5 DEF Build, Uninstall, Configure, Install, BuildFails, End, Stop
<1>6. ASSUME User PROVE CloneOK'
  <2>1. CASE Edit \/ Shelve \/ Leave \/ Resolve \/ RemoveTool
    BY <1>6, <2>1 DEF User, Edit, Shelve, Leave, Resolve, RemoveTool
  <2>2. CASE Raise
    BY <1>6, <2>2, RepoAssumption DEF User, Raise
  <2> QED BY <1>6, <2>1, <2>2 DEF User
<1>7. CASE UNCHANGED vars
  BY <1>7 DEF vars
<1> QED BY <1>1, <1>2, <1>3, <1>4, <1>5, <1>6, <1>7 DEF Next, Script

LEMMA ChangesStep == ChangesOK /\ [Next]_vars => ChangesOK'
<1> SUFFICES ASSUME ChangesOK, [Next]_vars PROVE ChangesOK'
  OBVIOUS
<1> USE DEF ChangesOK, Put, git, tool, ghosts
<1>1. ASSUME Clone \/ CloneFails \/ Begin \/ Status \/ Fetch \/ Look PROVE ChangesOK'
  BY <1>1 DEF Clone, CloneFails, Begin, Status, Fetch, Look
<1>2. ASSUME Stash PROVE ChangesOK'
  <2>1. stash' \in Seq(SUBSET Tracked) /\ mess' \subseteq mess
    BY <1>2, StashTypes DEF Stash
  <2> QED BY <1>2, <2>1 DEF Stash
<1>3. ASSUME Checkout \/ CheckoutFails \/ AlignGitIdentity \/ Apply \/ Commit \/ PatchFails
      PROVE ChangesOK'
  BY <1>3 DEF Checkout, CheckoutFails, AlignGitIdentity, Apply, Commit, PatchFails
<1>4. ASSUME Pop PROVE ChangesOK'
  <2>1. stash' \in Seq(SUBSET Tracked) /\ mess' \subseteq Changes
    BY <1>4, StashTypes DEF Pop, KeepEntry, Changes
  <2> QED BY <1>4, <2>1 DEF Pop
<1>5. ASSUME Build \/ Uninstall \/ Configure \/ Install \/ BuildFails \/ End \/ Stop
      PROVE ChangesOK'
  BY <1>5 DEF Build, Uninstall, Configure, Install, BuildFails, End, Stop
<1>6. ASSUME User PROVE ChangesOK'
  <2>0. UNCHANGED <<stash0, mess0>>
    BY <1>6 DEF User
  <2>1. CASE Edit
    BY <2>0, <2>1 DEF Edit, Changes, Tracked
  <2>2. CASE Shelve
    <3>1. {"shelved"} \in SUBSET Tracked /\ {"shelved"} \subseteq Changes
      BY DEF Changes, Tracked
    <3> QED BY <2>0, <2>2, <3>1, StashTypes DEF Shelve
  <2>3. CASE Resolve
    BY <2>0, <2>3, StashTypes DEF Resolve, Changes
  <2>4. CASE Leave \/ Raise \/ RemoveTool
    BY <2>0, <2>4 DEF Leave, Raise, RemoveTool
  <2> QED BY <1>6, <2>1, <2>2, <2>3, <2>4 DEF User
<1>7. CASE UNCHANGED vars
  BY <1>7 DEF vars
<1> QED BY <1>1, <1>2, <1>3, <1>4, <1>5, <1>6, <1>7 DEF Next, Script

LEMMA FlagsStep == FlagsOK /\ [Next]_vars => FlagsOK'
<1> SUFFICES ASSUME FlagsOK, [Next]_vars PROVE FlagsOK'
  OBVIOUS
<1> USE DEF FlagsOK, Fault, Fine, GiveUp, git, tool, ghosts
<1>1. ASSUME Clone \/ CloneFails \/ Begin \/ Status PROVE FlagsOK'
  BY <1>1 DEF Clone, CloneFails, Begin, Status
<1>2. ASSUME Fetch \/ Look PROVE FlagsOK'
  BY <1>2 DEF Fetch, Look
<1>3. ASSUME Stash \/ Pop PROVE FlagsOK'
  BY <1>3 DEF Stash, Pop
<1>4. ASSUME Checkout \/ CheckoutFails PROVE FlagsOK'
  BY <1>4 DEF Checkout, CheckoutFails
<1>5. ASSUME AlignGitIdentity \/ Apply \/ Commit \/ PatchFails PROVE FlagsOK'
  BY <1>5 DEF AlignGitIdentity, Apply, Commit, PatchFails
<1>6. ASSUME Build \/ Uninstall \/ Configure \/ End PROVE FlagsOK'
  BY <1>6 DEF Build, Uninstall, Configure, End
<1>7. ASSUME Install \/ BuildFails PROVE FlagsOK'
  BY <1>7 DEF Install, BuildFails
<1>8. ASSUME Stop PROVE FlagsOK'
  BY <1>8 DEF Stop
<1>9. ASSUME User PROVE FlagsOK'
  BY <1>9 DEF User, Edit, Shelve, Leave, Resolve, Raise, RemoveTool
<1>10. CASE UNCHANGED vars
  BY <1>10 DEF vars
<1> QED BY <1>1, <1>2, <1>3, <1>4, <1>5, <1>6, <1>7, <1>8, <1>9, <1>10 DEF Next, Script

LEMMA ScriptStep == CloneOK /\ ScriptOK /\ [Next]_vars => ScriptOK'
<1> SUFFICES ASSUME CloneOK, ScriptOK, [Next]_vars PROVE ScriptOK'
  OBVIOUS
<1> USE RepoAssumption
        DEF ScriptOK, Goto, Fault, Fine, Put, GiveUp, git, tool, ghosts
<1>1. ASSUME Clone \/ CloneFails \/ Begin PROVE ScriptOK'
  BY <1>1 DEF Clone, CloneFails, Begin
<1>2. ASSUME Status \/ Fetch \/ Look PROVE ScriptOK'
  BY <1>2 DEF Status, Fetch, Look
<1>3. ASSUME Stash PROVE ScriptOK'
  BY <1>3 DEF Stash
<1>4. ASSUME Checkout \/ CheckoutFails PROVE ScriptOK'
  BY <1>4 DEF Checkout, CheckoutFails, AfterCheckout, ToPop
<1>5. ASSUME AlignGitIdentity \/ Apply \/ Commit \/ PatchFails PROVE ScriptOK'
  BY <1>5 DEF AlignGitIdentity, Apply, Commit, PatchFails, ToPop
<1>6. ASSUME Pop PROVE ScriptOK'
  BY <1>6 DEF Pop
<1>7. ASSUME Build \/ Uninstall \/ Configure \/ End PROVE ScriptOK'
  BY <1>7 DEF Build, Uninstall, Uninstalled, Configure, End
<1>8. ASSUME Install \/ BuildFails PROVE ScriptOK'
  <2>1. Source \in 0..MaxTag
    BY DEF CloneOK, Source, Default, Branch
  <2>2. host' \in {host, Source}
    BY <1>8 DEF Install, BuildFails
  <2>3. pc' = "end" /\ edits' = edits /\ (faults' = faults \/ (faults > 0 /\ faults' = faults - 1))
    BY <1>8 DEF Install, BuildFails
  <2>4. host' \in {None} \cup 0..MaxTag
    BY <2>1, <2>2
  <2> QED BY <2>3, <2>4
<1>9. ASSUME Stop PROVE ScriptOK'
  BY <1>9 DEF Stop
<1>10. ASSUME User PROVE ScriptOK'
  <2>0. edits' \in 0..MaxEdits /\ UNCHANGED <<pc, faults>>
    BY <1>10 DEF User
  <2>1. host' \in {host, None}
    BY <1>10 DEF User, Edit, Shelve, Leave, Resolve, Raise, RemoveTool, Uninstalled
  <2> QED BY <2>0, <2>1
<1>11. CASE UNCHANGED vars
  BY <1>11 DEF vars
<1> QED BY <1>1, <1>2, <1>3, <1>4, <1>5, <1>6, <1>7, <1>8, <1>9, <1>10, <1>11
        DEF Next, Script

(* Every variable keeps its type; HEAD is a tag only when the clone has it. *)
THEOREM RepoTypeCorrect == Spec => []TypeOK
BY TypeInit, TypeParts, CloneStep, ChangesStep, FlagsStep, ScriptStep, PTL DEF Spec

-----------------------------------------------------------------------------
(* Nothing of the user's is lost.                                          *)

Held(s) == UNION {s[i] : i \in 1..Len(s)}   \* the changes in a stash s

\* What a stash holds with an entry more.
LEMMA PushHolds ==
  ASSUME NEW s \in Seq(SUBSET Tracked), NEW e \in SUBSET Tracked
  PROVE  Held(<<e>> \o s) = e \cup Held(s)
<1> DEFINE t == <<e>> \o s
<1>1. /\ Len(t) = Len(s) + 1 /\ Len(s) \in Nat /\ t[1] = e
      /\ \A i \in 1..Len(s) : t[i + 1] = s[i]
      /\ \A i \in 1..Len(t) : i # 1 => i - 1 \in 1..Len(s) /\ t[i] = s[i - 1]
  OBVIOUS
<1> HIDE DEF t
<1>2. ASSUME NEW x, x \in Held(t) PROVE x \in e \cup Held(s)
  <2>1. PICK i \in 1..Len(t) : x \in t[i]
    BY <1>2 DEF Held
  <2> QED BY <1>1, <2>1 DEF Held
<1>3. ASSUME NEW x, x \in e \cup Held(s) PROVE x \in Held(t)
  <2>1. CASE x \in e
    <3>1. 1 \in 1..Len(t) /\ x \in t[1]
      BY <1>1, <2>1
    <3> QED BY <3>1 DEF Held
  <2>2. CASE x \notin e
    <3>1. PICK i \in 1..Len(s) : x \in s[i]
      BY <1>3, <2>2 DEF Held
    <3>2. i + 1 \in 1..Len(t) /\ x \in t[i + 1]
      BY <1>1, <3>1
    <3> QED BY <3>2 DEF Held
  <2> QED BY <2>1, <2>2
<1>4. Held(t) = e \cup Held(s)
  BY <1>2, <1>3
<1> QED BY <1>4 DEF t

\* ... and with one less.
LEMMA PopHolds ==
  ASSUME NEW s \in Seq(SUBSET Tracked), s # <<>>
  PROVE  Held(s) \subseteq Head(s) \cup Held(Tail(s))
<1>1. ASSUME NEW x, x \in Held(s) PROVE x \in Head(s) \cup Held(Tail(s))
  <2>1. PICK i \in 1..Len(s) : x \in s[i]
    BY <1>1 DEF Held
  <2>2. CASE i = 1
    BY <2>1, <2>2
  <2>3. CASE i # 1
    <3>1. i - 1 \in 1..Len(Tail(s)) /\ Tail(s)[i - 1] = s[i]
      BY <2>1, <2>3
    <3> QED BY <2>1, <3>1 DEF Held
  <2> QED BY <2>2, <2>3
<1> QED BY <1>1

\* A step that leaves the stash and the tree alone, and uncommits nothing.
LEMMA KeptStep ==
  ASSUME NothingLost, UNCHANGED <<mess, stash, made, swept>>
  PROVE  NothingLost'
BY DEF NothingLost, Stashed

LEMMA LostStep == ChangesOK /\ NothingLost /\ [Next]_vars => NothingLost'
<1> SUFFICES ASSUME ChangesOK, NothingLost, [Next]_vars PROVE NothingLost'
  OBVIOUS
<1>0. stash \in Seq(SUBSET Tracked) /\ Stashed = Held(stash) /\ Stashed' = Held(stash')
  BY DEF ChangesOK, Stashed, Held
<1> USE DEF git, tool, ghosts
<1>1. ASSUME Clone \/ CloneFails \/ Begin \/ Status \/ Fetch \/ Look \/ Checkout
             \/ CheckoutFails \/ AlignGitIdentity \/ Apply \/ PatchFails \/ Build \/ Uninstall
             \/ Configure \/ Install \/ BuildFails \/ End \/ Stop
      PROVE NothingLost'
  BY <1>1, KeptStep DEF Clone, CloneFails, Begin, Status, Fetch, Look, Checkout, CheckoutFails,
       AlignGitIdentity, Apply, PatchFails, Build, Uninstall, Configure, Install, BuildFails,
       End, Stop
<1>2. ASSUME Stash PROVE NothingLost'
  <2> DEFINE saved == mess \cap Tracked
  <2>1. UNCHANGED <<made, swept>>
    BY <1>2 DEF Stash
  <2>2. CASE UNCHANGED <<mess, stash>>
    BY <2>1, <2>2, KeptStep
  <2>3. CASE mess' = mess \ saved /\ stash' = IF saved = {} THEN stash ELSE <<saved>> \o stash
    <3>1. saved \in SUBSET Tracked
      OBVIOUS
    <3>2. CASE saved = {}
      BY <2>1, <2>3, <3>2, KeptStep
    <3>3. CASE saved # {}
      <4>1. stash' = <<saved>> \o stash /\ mess' = mess \ saved
        BY <2>3, <3>3
      <4> HIDE DEF saved
      <4>2. Stashed' = saved \cup Stashed
        BY <1>0, <3>1, <4>1, PushHolds
      <4> QED BY <2>1, <4>1, <4>2 DEF NothingLost
    <3> QED BY <3>2, <3>3
  <2> QED BY <1>2, <2>2, <2>3 DEF Stash
<1>3. ASSUME Commit PROVE NothingLost'
  BY <1>3 DEF Commit, NothingLost, Stashed
<1>4. ASSUME stash # <<>>, mess' = mess \cup Head(stash), stash' = Tail(stash),
             UNCHANGED <<made, swept>>
      PROVE NothingLost'
  <2>1. Stashed \subseteq Head(stash) \cup Stashed'
    BY <1>0, <1>4, PopHolds
  <2> QED BY <1>4, <2>1 DEF NothingLost
<1>5. ASSUME Pop PROVE NothingLost'
  BY <1>4, <1>5, KeptStep DEF Pop, KeepEntry
<1>6. ASSUME User PROVE NothingLost'
  <2>1. CASE Edit
    BY <2>1 DEF Edit, NothingLost, Stashed
  <2>2. CASE Shelve
    <3>1. {"shelved"} \in SUBSET Tracked
      BY DEF Tracked
    <3>2. Stashed' = {"shelved"} \cup Stashed
      BY <1>0, <2>2, <3>1, PushHolds DEF Shelve
    <3> QED BY <2>2, <3>2 DEF Shelve, NothingLost
  <2>3. CASE Resolve
    BY <1>4, <2>3 DEF Resolve
  <2>4. CASE Leave \/ Raise \/ RemoveTool
    BY <2>4, KeptStep DEF Leave, Raise, RemoveTool
  <2> QED BY <1>6, <2>1, <2>2, <2>3, <2>4 DEF User
<1>7. CASE UNCHANGED vars
  BY <1>7, KeptStep DEF vars
<1> QED BY <1>1, <1>2, <1>3, <1>5, <1>6, <1>7 DEF Next, Script

(* Whatever fails and wherever a run stops, a change of the user's is in   *)
(* the working tree, in the stash or in the commit of the patch.           *)
THEOREM ChangesAreKept == Spec => []NothingLost
<1>1. Init => NothingLost
  BY DEF Init, NothingLost
<1> QED BY <1>1, TypeInit, ChangesStep, LostStep, PTL DEF Spec

-----------------------------------------------------------------------------
(* The revision a run ends on, and the patch of a new branch.              *)

\* What a run that finds no branch makes, and what one that finds it leaves.
Kept == IF base0 = 0 THEN base = tag /\ patch = "in" ELSE base = base0

\* Where HEAD and the branch are, by the place of the script.  A loose patch
\* is one of the branch that is checked out, so a run that has to move HEAD
\* finds none.
Placed ==
  /\ head = Branch => base # 0
  /\ pc \in Making => kind = "both" /\ base = tag /\ base0 = 0 /\ head = Branch
  /\ patch = "loose" => kind = "both" /\ head = Branch
  /\ pc \in Moving => ~Aligned
  /\ pc \in {"fetch", "look"} \cup Moving => base0 = base
  /\ ~failed /\ pc \in Making \cup Built \cup {"pop"} => Aligned
  /\ ~failed /\ pc \in Built \cup {"pop"} /\ kind = "both" => Kept
  /\ ~failed /\ pc = "end" /\ kind = "tag" => Matches

PlacedInv == TypeOK /\ Placed

LEMMA PlacedInit == Init => Placed
BY RepoAssumption DEF Init, Placed, Making, Moving, Built, Aligned, Branch, Default

LEMMA PlacedStep == PlacedInv /\ [Next]_vars => Placed'
<1> SUFFICES ASSUME TypeOK, Placed, [Next]_vars PROVE Placed'
  BY DEF PlacedInv
<1> USE DEF Placed, Kept, Making, Moving, Built, Aligned, Goto, Fine, Put, GiveUp, git, tool, ghosts
<1>1. ASSUME Clone \/ CloneFails \/ Begin \/ Status \/ Fetch PROVE Placed'
  BY <1>1 DEF Clone, CloneFails, Begin, Status, Fetch
<1>2. ASSUME Look PROVE Placed'
  BY <1>2 DEF Look
<1>3. ASSUME Stash PROVE Placed'
  BY <1>3 DEF Stash
<1>4. ASSUME Checkout PROVE Placed'
  <2>1. /\ Aligned' /\ head' = Target
        /\ UNCHANGED <<kind, tag, patch, failed, host, base0>> /\ base0 = base
    BY <1>4 DEF Checkout, Target
  <2>2. pc = "checkout" /\ pc' = AfterCheckout
    BY <1>4 DEF Checkout
  <2>3. CASE Creating
    <3>1. /\ pc' = "identity" /\ base' = tag /\ tag # 0 /\ base = 0
          /\ kind = "both" /\ head' = Branch
      BY <1>4, <2>1, <2>2, <2>3, RepoAssumption
         DEF Checkout, AfterCheckout, Creating, Target, TypeOK
    <3> QED BY <2>1, <2>2, <3>1
  <2>4. CASE ~Creating
    <3>1. pc' \in {"pop", "build"} /\ base' = base
      BY <1>4, <2>2, <2>4 DEF Checkout, AfterCheckout, ToPop
    <3>2. patch # "loose"
      BY <2>2
    <3>3. head' = Branch \/ kind = "both" => base # 0
      BY <1>4, <2>1, <2>4 DEF Checkout, There, Target, TypeOK, Branch, Creating
    <3> QED BY <2>1, <2>2, <2>4, <3>1, <3>2, <3>3 DEF Creating
  <2> QED BY <2>3, <2>4
<1>5. ASSUME CheckoutFails PROVE Placed'
  BY <1>5 DEF CheckoutFails, Fault, ToPop
<1>6. ASSUME AlignGitIdentity \/ Apply \/ Commit PROVE Placed'
  BY <1>6 DEF AlignGitIdentity, Apply, Commit, ToPop
<1>7. ASSUME PatchFails \/ Stop PROVE Placed'
  BY <1>7 DEF PatchFails, Stop, Fault, ToPop
<1>8. ASSUME Pop PROVE Placed'
  BY <1>8 DEF Pop, Fault
<1>9. ASSUME Build PROVE Placed'
  BY <1>9 DEF Build, Outdated, Matches
<1>10. ASSUME Uninstall \/ Configure \/ BuildFails \/ End PROVE Placed'
  <2>1. /\ pc \in Built /\ UNCHANGED <<kind, tag, head, base, patch, base0>>
        /\ failed' \/ (failed' = failed /\ pc' \in {"configure", "install", "idle"})
        /\ pc' \in Built \cup {"idle"}
    BY <1>10 DEF Uninstall, Configure, BuildFails, End, Fault
  <2> QED BY <2>1
<1>11. ASSUME Install PROVE Placed'
  <2>1. kind = "tag" /\ ~failed => Matches'
    BY <1>11 DEF Install, Source, Matches, TypeOK, Branch
  <2> QED BY <1>11, <2>1 DEF Install
<1>12. ASSUME User PROVE Placed'
  <2>1. /\ pc = "idle" /\ UNCHANGED <<kind, pc, failed, base, patch, base0>>
        /\ head' \in {head, Default}
        /\ patch = "loose" => head' = head
    BY <1>12 DEF User, Edit, Shelve, Leave, Resolve, Raise, RemoveTool
  <2> QED BY <2>1 DEF Branch, Default
<1>13. CASE UNCHANGED vars
  BY <1>13 DEF vars, Matches
<1> QED BY <1>1, <1>2, <1>3, <1>4, <1>5, <1>6, <1>7, <1>8, <1>9, <1>10, <1>11, <1>12, <1>13
        DEF Next, Script

LEMMA PlacedAlways == Spec => []PlacedInv
<1>1. TypeOK /\ Placed <=> PlacedInv
  BY DEF PlacedInv
<1> QED BY <1>1, PlacedInit, PlacedStep, RepoTypeCorrect, PTL DEF Spec

(* A run in which no command fails ends on the configured tag, with a      *)
(* version of the tool on the host that passes for it, or on the branch:   *)
(* one it has made, from the configured tag and with the patch committed,  *)
(* or the one that was there, which it neither raises nor patches.         *)
THEOREM CleanRunsAlign == Spec => []CleanRunAligns
<1>1. PlacedInv => CleanRunAligns
  BY RepoAssumption DEF PlacedInv, TypeOK, Placed, Kept, CleanRunAligns, Built, Aligned
<1> QED BY <1>1, PlacedAlways, PTL

-----------------------------------------------------------------------------
(* The stash of a run in which no command fails.                           *)

\* While a run moves HEAD, the stash is as it was, under the run's own entry
\* if the run has made one.
WithEntry ==
  stash = IF mess0 \cap Tracked = {} THEN stash0 ELSE <<mess0 \cap Tracked>> \o stash0

StashPlaced ==
  /\ pc \in {"fetch", "look", "stash"} =>
       /\ stash = stash0 /\ mess = mess0
       /\ dirty <=> (mess # {} \/ unmerged \/ patch = "loose")
  /\ pc \in {"stash", "pop"} => dirty
  /\ ~failed /\ pc \in {"checkout", "pop"} \cup Making =>
       IF dirty THEN mess0 # {} /\ WithEntry ELSE stash = stash0
  /\ StashGivenBack

LEMMA StashInit == Init => StashPlaced
BY DEF Init, StashPlaced, StashGivenBack, Making

LEMMA StashStep == PlacedInv /\ StashPlaced /\ [Next]_vars => StashPlaced'
<1> SUFFICES ASSUME TypeOK, Placed, StashPlaced, [Next]_vars PROVE StashPlaced'
  BY DEF PlacedInv
<1> USE DEF StashPlaced, StashGivenBack, WithEntry, Making, Goto, Fine, Put, GiveUp,
            git, tool, ghosts
<1>1. ASSUME Clone \/ CloneFails \/ Begin PROVE StashPlaced'
  BY <1>1 DEF Clone, CloneFails, Begin
<1>2. ASSUME Status PROVE StashPlaced'
  BY <1>2 DEF Status
<1>3. ASSUME Fetch PROVE StashPlaced'
  BY <1>3 DEF Fetch
<1>4. ASSUME Look PROVE StashPlaced'
  BY <1>4 DEF Look
<1>5. ASSUME Stash PROVE StashPlaced'
  <2>1. pc = "stash" /\ stash = stash0 /\ mess = mess0 /\ dirty /\ patch # "loose"
    BY <1>5 DEF Stash, Placed, Moving, Aligned
  <2>2. UNCHANGED <<dirty, stash0, mess0, unmerged>>
    BY <1>5 DEF Stash
  <2>3. CASE pc' = "build" /\ failed'
    BY <2>3
  <2>4. CASE /\ ~unmerged /\ pc' = "checkout"
             /\ stash' = IF mess \cap Tracked = {} THEN stash ELSE <<mess \cap Tracked>> \o stash
    BY <2>1, <2>2, <2>4
  <2> QED BY <1>5, <2>3, <2>4 DEF Stash, Fault
<1>6. ASSUME Checkout PROVE StashPlaced'
  BY <1>6 DEF Checkout, AfterCheckout, ToPop
<1>7. ASSUME CheckoutFails \/ PatchFails \/ Stop PROVE StashPlaced'
  BY <1>7 DEF CheckoutFails, PatchFails, Stop, Fault, ToPop
<1>8. ASSUME AlignGitIdentity \/ Apply \/ Commit PROVE StashPlaced'
  <2>1. pc \in Making /\ UNCHANGED <<stash, stash0, mess0, dirty, failed>>
    BY <1>8 DEF AlignGitIdentity, Apply, Commit
  <2>2. pc' \in {"apply", "commit"} \/ (dirty /\ pc' = "pop") \/ (~dirty /\ pc' = "build")
    BY <1>8 DEF AlignGitIdentity, Apply, Commit, ToPop
  <2> QED BY <2>1, <2>2
<1>9. ASSUME Pop PROVE StashPlaced'
  <2>1. /\ pc = "pop" /\ pc' = "build" /\ UNCHANGED <<stash0, mess0>>
        /\ failed' \/ (failed' = failed /\ stash # <<>> /\ stash' = Tail(stash))
    BY <1>9 DEF Pop
  <2>2. CASE failed'
    BY <2>1, <2>2
  <2>3. CASE ~failed'
    <3>1. ~failed /\ stash # <<>> /\ stash' = Tail(stash) /\ mess0 # {} /\ WithEntry
      <4>1. ~failed /\ stash # <<>> /\ stash' = Tail(stash)
        BY <2>1, <2>3
      <4>2. dirty
        BY <2>1
      <4> QED BY <2>1, <4>1, <4>2
    <3>2. CASE mess0 \cap Tracked = {}
      <4>1. mess0 = {"untracked"}
        BY <3>1, <3>2 DEF TypeOK, Changes
      <4>2. stash = stash0
        BY <3>1, <3>2
      <4> QED BY <2>1, <3>1, <4>1, <4>2
    <3>3. CASE mess0 \cap Tracked # {}
      <4> DEFINE e == mess0 \cap Tracked
      <4>1. stash = <<e>> \o stash0
        BY <3>1, <3>3
      <4> HIDE DEF e
      <4>2. Tail(<<e>> \o stash0) = stash0
        BY DEF TypeOK
      <4>3. stash' = stash0'
        BY <2>1, <3>1, <4>1, <4>2
      <4> QED BY <2>1, <4>3
    <3> QED BY <3>2, <3>3
  <2> QED BY <2>2, <2>3
<1>10. ASSUME Build \/ Uninstall \/ Configure \/ Install \/ BuildFails \/ End PROVE StashPlaced'
  BY <1>10 DEF Build, Uninstall, Configure, Install, BuildFails, End
<1>11. ASSUME User PROVE StashPlaced'
  BY <1>11 DEF User
<1>12. CASE UNCHANGED vars
  BY <1>12 DEF vars
<1> QED BY <1>1, <1>2, <1>3, <1>4, <1>5, <1>6, <1>7, <1>8, <1>9, <1>10, <1>11, <1>12
        DEF Next, Script

(* A run in which no command fails leaves git's stash as it found it, but  *)
(* for a tree with untracked changes only, which takes an entry too many.  *)
THEOREM StashIsGivenBack == Spec => []StashGivenBack
<1>1. StashPlaced => StashGivenBack
  BY DEF StashPlaced
<1> QED BY <1>1, PlacedAlways, StashInit, StashStep, PTL DEF Spec
=============================================================================
