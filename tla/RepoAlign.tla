------------------------------ MODULE RepoAlign ------------------------------
(***************************************************************************)
(* One repository in the loop of workspace_setup.py: runs of the script    *)
(* clone it, align it with the configured tag or branch around the user's  *)
(* own changes, patch a new branch, and build and install the tool in it.  *)
(* Any command may fail, the script may be stopped at any step, and        *)
(* between runs the user edits, stashes, switches and raises the tag.      *)
(***************************************************************************)
EXTENDS Integers, Sequences

CONSTANTS
  Kinds,      \* which of tag and branch the blueprint gives: "tag", "branch", "both"
  MaxTag,     \* bound: tags 1..MaxTag exist upstream, the configured one only grows
  MaxFaults,  \* bound: failing commands and stopped runs
  MaxEdits,   \* bound: things the user does between runs
  Alike       \* pairs of a tag and the version, not of that tag, whose "--version" has it
              \* in its text, as a build between two tags of verilator may; {} for QEMU

None    == -1   \* no tool on the host
Branch  == -2   \* HEAD is the configured branch
Default == 0    \* HEAD is the tip of the branch that was cloned

ASSUME RepoAssumption ==
  /\ Kinds \subseteq {"tag", "branch", "both"} /\ MaxTag \in Nat \ {0}
  /\ MaxFaults \in Nat /\ MaxEdits \in Nat
  /\ Alike \subseteq (1..MaxTag) \X (0..MaxTag)

VARIABLES
  kind,      \* fixed: one of Kinds
  tag,       \* the configured tag
  have,      \* tags in the clone
  head,      \* what is checked out: Default, a tag, or Branch
  base,      \* tag the configured branch was made from, 0 while there is none
  patch,     \* the patch: "none", "loose" in the working tree, "in" the branch
  mess,      \* the user's changes in the working tree
  stash,     \* git's stash, each entry the changes it saves, latest first
  unmerged,  \* a conflicting stash pop has left conflicts in the tree
  identity,  \* git knows user.name and user.email
  host,      \* version of the tool installed on the host
  manifest,  \* the build directory lists the files that were installed
  pc,        \* where the script is; "idle" between runs, "clone" before the first
  dirty,     \* is_dirty
  faults, edits,  \* what is left of the two bounds
  made,      \* ghost: changes the user has made
  swept,     \* ghost: changes of the user committed with the patch
  stash0, mess0, base0,  \* ghost: stash, mess and base when the run looked at them
  failed     \* ghost: a command of this run has failed

git    == <<have, head, base, patch, mess, stash, unmerged, identity>>
tool   == <<host, manifest>>
ghosts == <<made, swept, stash0, mess0, base0>>
vars == <<kind, tag, git, tool, pc, dirty, faults, edits, ghosts, failed>>

Tracked == {"tracked", "shelved"}   \* "untracked" is the other kind of change
Changes == Tracked \cup {"untracked"}
Stashed == UNION {stash[i] : i \in 1..Len(stash)}
Source  == IF head = Branch THEN base ELSE head   \* the version a build compiles

Init ==
  /\ kind \in Kinds /\ tag = 1 /\ have = {} /\ head = Default
  /\ base = IF kind = "branch" THEN 1 ELSE 0
  /\ patch = "none" /\ mess = {} /\ stash = <<>> /\ unmerged = FALSE
  /\ identity \in BOOLEAN
  /\ host \in {None, Default} /\ manifest = FALSE
  /\ pc = "clone" /\ dirty = FALSE
  /\ faults = MaxFaults /\ edits = MaxEdits
  /\ made = {} /\ swept = {} /\ stash0 = <<>> /\ mess0 = {} /\ base0 = 0
  /\ failed = FALSE

Goto(from, to) == pc = from /\ pc' = to
Fault == faults > 0 /\ faults' = faults - 1 /\ failed' = TRUE
Fine  == UNCHANGED <<faults, failed>>
Put   == UNCHANGED <<kind, tag, edits>>

-----------------------------------------------------------------------------
(* Clone and look.                                                         *)

Clone ==
  /\ Goto("clone", "status") /\ failed' = FALSE /\ UNCHANGED faults
  /\ UNCHANGED <<git, tool, dirty, ghosts>> /\ Put

\* "Failed to fetch repository": the loop goes on with the next one.
CloneFails ==
  /\ pc = "clone" /\ Fault
  /\ UNCHANGED <<pc, git, tool, dirty, ghosts>> /\ Put

Begin ==
  /\ Goto("idle", "status")
  /\ failed' = FALSE
  /\ UNCHANGED <<git, tool, dirty, faults, ghosts>> /\ Put

\* git status --porcelain
Status ==
  /\ Goto("status", IF kind = "branch" THEN "look" ELSE "fetch")
  /\ dirty' = (mess # {} \/ unmerged \/ patch = "loose")
  /\ stash0' = stash /\ mess0' = mess /\ base0' = base /\ Fine
  /\ UNCHANGED <<git, tool, made, swept>> /\ Put

\* git fetch of the tag; its exit status is ignored.
Fetch ==
  /\ Goto("fetch", "look")
  /\ \/ have' = have \cup {tag} /\ Fine
     \/ UNCHANGED have /\ Fault
  /\ UNCHANGED <<head, base, patch, mess, stash, unmerged, identity, tool, dirty,
                 ghosts>> /\ Put

Creating == kind = "both" /\ base = 0
Target   == IF kind = "tag" THEN tag ELSE Branch
Aligned  == IF kind = "tag" THEN head = tag ELSE head = Branch

Look ==
  /\ Goto("look", IF Aligned THEN "build" ELSE IF dirty THEN "stash" ELSE "checkout")
  /\ Fine
  /\ UNCHANGED <<git, tool, dirty, ghosts>> /\ Put

-----------------------------------------------------------------------------
(* run_checkout(), and the making of a branch around the user's changes.   *)

\* An exception of git ends the alignment; the build goes on all the same.
GiveUp == pc' = "build" /\ failed' = TRUE

\* git stash: it saves what is tracked, makes no entry for nothing, and
\* refuses while there are conflicts.
Stash ==
  /\ pc = "stash"
  /\ LET saved == mess \cap Tracked
     IN \/ /\ ~unmerged /\ pc' = "checkout" /\ Fine
           /\ stash' = IF saved = {} THEN stash ELSE <<saved>> \o stash
           /\ mess' = mess \ saved
        \/ /\ unmerged /\ GiveUp /\ UNCHANGED <<stash, mess, faults>>
        \/ /\ Fault /\ GiveUp /\ UNCHANGED <<stash, mess>>
  /\ UNCHANGED <<have, head, base, patch, unmerged, identity, tool, dirty,
                 ghosts>> /\ Put

NeverPop == "build"   \* slip: the way out of a new branch forgets the pop
ToPop == IF dirty THEN "pop" ELSE "build"
NoCheck == TRUE   \* slip: the exit status of the checkout is not looked at
There == IF kind = "tag" \/ Creating THEN tag \in have ELSE base # 0
SkipPatch == ToPop   \* slip: a new branch is left unpatched
AfterCheckout == IF Creating THEN "identity" ELSE ToPop

Checkout ==
  /\ Goto("checkout", AfterCheckout)
  /\ There
  /\ head' = Target
  /\ base' = IF Creating THEN tag ELSE base
  /\ Fine
  /\ UNCHANGED <<have, patch, mess, stash, unmerged, identity, tool, dirty,
                 ghosts>> /\ Put

\* Only the failure to make a branch puts the user's changes back.
CheckoutFails ==
  /\ pc = "checkout"
  /\ IF There THEN Fault ELSE failed' = TRUE /\ UNCHANGED faults
  /\ pc' = IF Creating THEN ToPop ELSE "build"
  /\ UNCHANGED <<git, tool, dirty, ghosts>> /\ Put

AlignGitIdentity ==
  /\ Goto("identity", "apply") /\ identity' = TRUE /\ Fine
  /\ UNCHANGED <<have, head, base, patch, mess, stash, unmerged, tool, dirty,
                 ghosts>> /\ Put

\* git apply --check, git apply
Apply ==
  /\ Goto("apply", "commit") /\ patch' = "loose" /\ Fine
  /\ UNCHANGED <<have, head, base, mess, stash, unmerged, identity, tool, dirty,
                 ghosts>> /\ Put

\* git add . and git commit: what the stash has left in the tree goes in too.
Commit ==
  /\ Goto("commit", ToPop) /\ identity /\ Fine
  /\ patch' = "in" /\ swept' = swept \cup mess /\ mess' = {}
  /\ UNCHANGED <<have, head, base, stash, unmerged, identity, tool, dirty,
                 made, stash0, mess0, base0>> /\ Put

\* A patch that does not apply is dropped, a commit that fails is left loose;
\* when the identity cannot be set, the user's changes stay in the stash.
PatchFails ==
  /\ pc \in {"identity", "apply", "commit"} /\ Fault
  /\ pc' = IF pc = "identity" THEN "build" ELSE ToPop
  /\ UNCHANGED <<git, tool, dirty, ghosts>> /\ Put

\* git stash pop: the latest entry, whoever made it; nothing to pop is an
\* error, and a conflict keeps the entry.
DropEntry == Tail(stash)   \* slip: the entry goes even when it conflicts
KeepEntry == stash

Pop ==
  /\ pc = "pop"
  /\ \/ /\ stash # <<>> /\ ~unmerged /\ pc' = "build" /\ Fine
        /\ mess' = mess \cup Head(stash) /\ stash' = Tail(stash)
        /\ UNCHANGED unmerged
     \/ /\ stash # <<>> /\ Fault /\ GiveUp
        /\ unmerged' = TRUE /\ stash' = KeepEntry /\ UNCHANGED mess
     \/ /\ stash = <<>> /\ GiveUp /\ UNCHANGED <<mess, stash, unmerged, faults>>
  /\ UNCHANGED <<have, head, base, patch, identity, tool, dirty, ghosts>> /\ Put

-----------------------------------------------------------------------------
(* build_repo(), for a tool that is installed on the host.                 *)

\* QEMU's version has to be the tag's; the text of verilator's has to have
\* the tag in it.
Matches    == host = tag \/ <<tag, host>> \in Alike
AnyVersion == host = None   \* slip: whatever version is installed will do
Outdated   == ~Matches

Build ==
  /\ pc = "build"
  /\ pc' = IF kind # "tag" \/ ~Outdated THEN "end"
           ELSE IF host # None THEN "uninstall" ELSE "configure"
  /\ Fine /\ UNCHANGED <<git, tool, dirty, ghosts>> /\ Put

\* Verilator's uninstaller knows its files from the manifest only: without
\* one its "rm" runs without arguments, and the old version stays.
Uninstalled == host' = None \/ (~manifest /\ UNCHANGED host)

Uninstall ==
  /\ Goto("uninstall", "configure")
  /\ \/ Uninstalled /\ Fine
     \/ UNCHANGED host /\ Fault
  /\ UNCHANGED <<git, manifest, dirty, ghosts>> /\ Put

\* The build directory is made anew and configured, twice at most.
Configure ==
  /\ Goto("configure", "install") /\ manifest' = FALSE /\ Fine
  /\ UNCHANGED <<git, host, dirty, ghosts>> /\ Put

\* ninja and install; "Finished compiling" is printed in either case.
Install ==
  /\ Goto("install", "end") /\ host' = Source /\ manifest' = TRUE /\ Fine
  /\ UNCHANGED <<git, dirty, ghosts>> /\ Put

\* The old build directory may resist removal; an installation may stop half-way.
BuildFails ==
  /\ pc \in {"configure", "install"} /\ Fault
  /\ pc' = "end"
  /\ manifest' \in {FALSE, manifest}
  /\ host' \in {host} \cup (IF pc = "install" THEN {Source} ELSE {})
  /\ UNCHANGED <<git, dirty, ghosts>> /\ Put

End ==
  /\ Goto("end", "idle") /\ Fine
  /\ UNCHANGED <<git, tool, dirty, ghosts>> /\ Put

\* Ctrl-C, or a command that raises what nothing catches.
Stop ==
  /\ pc \notin {"idle", "clone", "end"} /\ Fault
  /\ pc' = "idle"
  /\ UNCHANGED <<git, tool, dirty, ghosts>> /\ Put

-----------------------------------------------------------------------------
(* The user, between runs.                                                 *)

Edit ==
  \E c \in {"tracked", "untracked"} \ (mess \cup Stashed \cup swept) :
    /\ mess' = mess \cup {c} /\ made' = made \cup {c}
    /\ UNCHANGED <<tag, have, head, base, patch, stash, unmerged, tool, swept>>
Shelve ==
  /\ "shelved" \notin made
  /\ stash' = <<{"shelved"}>> \o stash /\ made' = made \cup {"shelved"}
  /\ UNCHANGED <<tag, have, head, base, patch, mess, unmerged, tool, swept>>
Leave ==
  /\ head # Default /\ mess \cap Tracked = {} /\ ~unmerged /\ patch # "loose"
  /\ head' = Default
  /\ UNCHANGED <<tag, have, base, patch, mess, stash, unmerged, tool, made, swept>>
Resolve ==
  /\ unmerged /\ stash # <<>>
  /\ unmerged' = FALSE /\ mess' = mess \cup Head(stash) /\ stash' = Tail(stash)
  /\ UNCHANGED <<tag, have, head, base, patch, tool, made, swept>>
Raise ==
  /\ tag < MaxTag /\ tag' = tag + 1
  /\ UNCHANGED <<git, tool, made, swept>>
\* --uninstall, which succeeds in any case
RemoveTool ==
  /\ host # None /\ (Uninstalled \/ UNCHANGED host)
  /\ UNCHANGED <<tag, git, manifest, made, swept>>

User ==
  /\ pc = "idle" /\ edits > 0 /\ edits' = edits - 1
  /\ Edit \/ Shelve \/ Leave \/ Resolve \/ Raise \/ RemoveTool
  /\ UNCHANGED <<kind, identity, pc, dirty, faults, failed, stash0, mess0, base0>>

Script ==
  \/ Clone \/ CloneFails \/ Begin \/ Status \/ Fetch \/ Look
  \/ Stash \/ Checkout \/ CheckoutFails \/ AlignGitIdentity \/ Apply \/ Commit
  \/ PatchFails \/ Pop
  \/ Build \/ Uninstall \/ Configure \/ Install \/ BuildFails \/ End

Next == Script \/ Stop \/ User

Spec == Init /\ [][Next]_vars
\* The user runs the script again, and a run goes on to its end.
FairSpec == Spec /\ WF_vars(Script)

-----------------------------------------------------------------------------
TypeOK ==
  /\ kind \in Kinds /\ tag \in 1..MaxTag /\ have \subseteq 1..MaxTag
  /\ head \in {Branch, Default} \cup have /\ base \in 0..MaxTag
  /\ patch \in {"none", "loose", "in"} /\ mess \subseteq Changes
  /\ stash \in Seq(SUBSET Tracked)
  /\ unmerged \in BOOLEAN /\ identity \in BOOLEAN /\ manifest \in BOOLEAN
  /\ host \in {None} \cup 0..MaxTag
  /\ pc \in {"clone", "idle", "status", "fetch", "look", "stash", "checkout", "identity",
             "apply", "commit", "pop", "build", "uninstall", "configure", "install", "end"}
  /\ dirty \in BOOLEAN /\ failed \in BOOLEAN
  /\ faults \in 0..MaxFaults /\ edits \in 0..MaxEdits
  /\ made \subseteq Changes /\ swept \subseteq Changes
  /\ stash0 \in Seq(SUBSET Tracked) /\ mess0 \subseteq Changes /\ base0 \in 0..MaxTag

(* Whatever fails and wherever a run stops, what the user has changed is   *)
(* in the working tree, in the stash, or in the commit of the patch.       *)
NothingLost == made \subseteq mess \cup Stashed \cup swept

(* A run in which no command fails leaves the stash as it found it: it     *)
(* takes back its own entry.  The exception is a tree whose only changes   *)
(* are untracked: "git stash" makes no entry, and the pop takes the user's *)
(* own latest one.                                                         *)
StashGivenBack ==
  pc = "build" /\ ~failed =>
    \/ stash = stash0
    \/ mess0 = {"untracked"} /\ stash0 # <<>> /\ stash = Tail(stash0)

(* A run in which no command fails ends on the configured revision: on the *)
(* tag, with a version on the host that the script's check takes for it,   *)
(* or on the branch.  A branch the run has made starts from the configured *)
(* tag and has the patch committed; one that was there is left as it is.   *)
CleanRunAligns ==
  pc = "end" /\ ~failed =>
    CASE kind = "tag"    -> head = tag /\ Matches
      [] kind = "branch" -> head = Branch
      [] kind = "both"   -> /\ head = Branch
                            /\ IF base0 = 0 THEN base = tag /\ patch = "in" ELSE base = base0

(* What the code says and does not keep.  "Aligned on branch ... at tag    *)
(* ..." (line 670): the branch that is reported so was made from that tag, *)
(* and has the patch that the making of a branch is to commit.             *)
AlignedAtTag ==
  pc = "look" /\ kind = "both" /\ Aligned => base = tag /\ patch = "in"

(* apply_patch() "safely and atomically applies" the patch: outside of it, *)
(* a patch is committed or not there at all.                               *)
PatchAtomic == patch = "loose" => pc = "commit"

(* Once commands stop failing and the user stops changing things, repeated *)
(* runs install a version for good that the check takes for the configured *)
(* one, unless a pop has left conflicts that nobody has resolved.          *)
Converges == kind = "tag" => <>[](Matches \/ unmerged)
=============================================================================
