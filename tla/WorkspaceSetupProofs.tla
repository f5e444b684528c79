------------------------- MODULE WorkspaceSetupProofs -------------------------
(***************************************************************************)
(* Theorems about WorkspaceSetup, for any blueprint, any directories, and  *)
(* any number of failing commands, stopped runs and removals.              *)
(***************************************************************************)
EXTENDS WorkspaceSetup, TLAPS

-----------------------------------------------------------------------------
(* Type correctness: TypeOK in four parts that are inductive one by one.   *)

ConfigOK ==
  /\ file \in {"none", "torn", "ok"} /\ cfg \in Config /\ plan \in Config
  /\ ticked \subseteq Scopes /\ target \in {"none", "all"} \cup Scopes \cup Repos
  /\ todo \subseteq Repos /\ loose \subseteq Scopes

HostOK ==
  /\ pkgs \subseteq Packages
  /\ tree \in [Roots -> [Repos -> {"none", "bare", "full"}]]
  /\ link \in [Linked -> Roots \cup {"none"}]
  /\ bashrc \in {"none", "plain", "set"}

NetOK == net \in [headers : BOOLEAN, caps : BOOLEAN, lua : {"none", "part", "full"},
                  rules : BOOLEAN, cache : BOOLEAN]

FlowOK ==
  /\ pc \in {"idle", "write", "dump", "packages", "repos", "sparse", "links", "headers",
             "wireshark", "lua", "sudoers", "visudo", "cp", "x11", "done", "purge",
             "rmtree", "update"}
  /\ failed \in BOOLEAN
  /\ scars \subseteq {"sparse", "lua", "rules", "moved"}

BoundsOK == faults \in 0..MaxFaults /\ removes \in 0..MaxRemoves

LEMMA EmptyConfig == Empty \in Config
BY DEF Empty, Config

\* What a set-up is going to write.
LEMMA CompiledConfig ==
  ASSUME NEW old \in Config, NEW ss \in SUBSET Scopes, NEW d \in Roots
  PROVE  /\ Compile(old, ss, d) \in Config
         /\ Compile(old, ss, d).root = d
         /\ old.scopes \subseteq Compile(old, ss, d).scopes
         /\ old.repos \subseteq Compile(old, ss, d).repos
         /\ PkgsOf(ss) \subseteq Compile(old, ss, d).packages
<1>1. old.repos \subseteq Repos /\ old.scopes \subseteq Scopes \ RepoScopes
  BY DEF Config
<1>2. Union(old, ss) \subseteq Scopes \ RepoScopes /\ old.scopes \subseteq Union(old, ss)
  BY <1>1 DEF Union
<1>3. Needed(ss) \subseteq Packages /\ PkgsOf(ss) \subseteq Needed(ss)
  BY DEF Needed, PkgsOf, Packages
<1>4. BaseRepos \cup (ss \cap RepoScopes) \cup (old.repos \ BaseRepos) \subseteq Repos
  BY <1>1 DEF Repos
<1> QED BY <1>1, <1>2, <1>3, <1>4 DEF Compile, Config

LEMMA ConfigStep == ConfigOK /\ [Next]_vars => ConfigOK'
<1> SUFFICES ASSUME ConfigOK, [Next]_vars PROVE ConfigOK'
  OBVIOUS
<1> USE EmptyConfig DEF ConfigOK, run, host, Work, Exit, Goto
<1>1. ASSUME Setup PROVE ConfigOK'
  <2>1. PICK ss \in SUBSET Scopes, d \in Roots :
          ticked' = ss /\ plan' = Compile(IF file = "ok" THEN cfg ELSE Empty, ss, d)
    BY <1>1 DEF Setup
  <2>2. plan' \in Config
    BY <2>1, CompiledConfig
  <2> QED BY <1>1, <2>1, <2>2 DEF Setup
<1>2. ASSUME Remove PROVE ConfigOK'
  <2>1. target' \in {"all"} \cup Scopes \cup Repos
    BY <1>2 DEF Remove, Config
  <2> QED BY <1>2, <2>1 DEF Remove
<1>3. ASSUME Truncate PROVE ConfigOK'
  BY <1>3 DEF Truncate
<1>4. ASSUME Dump PROVE ConfigOK'
  <2>1. loose' \subseteq Scopes
    BY <1>4 DEF Dump, SharesWith
  <2> QED BY <1>4, <2>1 DEF Dump
<1>5. ASSUME InstallPackages PROVE ConfigOK'
  <2>1. plan.repos \subseteq Repos
    BY DEF Config
  <2> QED BY <1>5, <2>1 DEF InstallPackages
<1>6. ASSUME Clone \/ CloneFails \/ SparseSet \/ ReposDone PROVE ConfigOK'
  BY <1>6 DEF Clone, CloneFails, SparseSet, ReposDone, Rest
<1>7. ASSUME VerifySymlinks \/ Headers \/ Wireshark \/ Dissector \/ Sudoers \/ Visudo
             \/ CopyRules \/ X11Resources \/ Done \/ Purge \/ Rmtree \/ Stop
      PROVE ConfigOK'
  BY <1>7 DEF VerifySymlinks, Headers, Wireshark, Dissector, Sudoers, Visudo, CopyRules,
              X11Resources, Done, Purge, Rmtree, Stop
<1>8. ASSUME Update PROVE ConfigOK'
  <2>1. [plan EXCEPT !.scopes = @ \ GoneScopes, !.repos = @ \ GoneRepos,
                     !.packages = @ \ PkgsOf(GoneScopes)] \in Config
    BY DEF Config
  <2> QED BY <1>8, <2>1 DEF Update
<1>9. ASSUME DeleteConfig PROVE ConfigOK'
  BY <1>9 DEF DeleteConfig
<1>10. CASE UNCHANGED vars
  BY <1>10 DEF vars
<1> QED BY <1>1, <1>2, <1>3, <1>4, <1>5, <1>6, <1>7, <1>8, <1>9, <1>10 DEF Next, Step

LEMMA HostStep == ConfigOK /\ HostOK /\ [Next]_vars => HostOK'
<1> SUFFICES ASSUME ConfigOK, HostOK, [Next]_vars PROVE HostOK'
  OBVIOUS
<1> USE DEF HostOK, run, host, Work, Exit, Goto
<1>1. ASSUME Setup \/ Remove \/ Truncate \/ Dump \/ CloneFails \/ ReposDone \/ Headers
             \/ Wireshark \/ Dissector \/ Sudoers \/ Visudo \/ CopyRules \/ Done \/ Update
             \/ Stop \/ DeleteConfig
      PROVE HostOK'
  BY <1>1 DEF Setup, Remove, Truncate, Dump, CloneFails, ReposDone, Headers, Wireshark,
              Dissector, Sudoers, Visudo, CopyRules, Done, Update, Stop, DeleteConfig
<1>2. ASSUME InstallPackages PROVE HostOK'
  <2>1. plan.packages \subseteq Packages
    BY DEF ConfigOK, Config
  <2> QED BY <1>2, <2>1 DEF InstallPackages
<1>3. ASSUME Clone PROVE HostOK'
  <2>1. This \in todo /\ todo \subseteq Repos
    BY <1>3 DEF Clone, This, ConfigOK
  <2> QED BY <1>3, <2>1 DEF Clone
<1>4. ASSUME SparseSet PROVE HostOK'
  BY <1>4 DEF SparseSet
<1>5. ASSUME VerifySymlinks PROVE HostOK'
  <2>1. plan.root \in Roots \cup {"none"}
    BY DEF ConfigOK, Config
  <2> QED BY <1>5, <2>1 DEF VerifySymlinks
<1>6. ASSUME X11Resources PROVE HostOK'
  BY <1>6 DEF X11Resources, LineAppended
<1>7. ASSUME Purge PROVE HostOK'
  BY <1>7 DEF Purge
<1>8. ASSUME Rmtree PROVE HostOK'
  BY <1>8 DEF Rmtree
<1>9. CASE UNCHANGED vars
  BY <1>9 DEF vars
<1> QED BY <1>1, <1>2, <1>3, <1>4, <1>5, <1>6, <1>7, <1>8, <1>9 DEF Next, Step

LEMMA NetStep == NetOK /\ [Next]_vars => NetOK'
<1> SUFFICES ASSUME NetOK, [Next]_vars PROVE NetOK'
  OBVIOUS
<1> USE DEF NetOK, run, host, Work, Exit, Goto
<1>1. ASSUME Setup \/ Remove \/ Truncate \/ Dump \/ InstallPackages \/ Clone \/ CloneFails
             \/ SparseSet \/ ReposDone \/ VerifySymlinks \/ CopyRules \/ X11Resources \/ Done
             \/ Rmtree \/ Update \/ Stop \/ DeleteConfig
      PROVE net' = net \/ net' = [net EXCEPT !.rules = TRUE]
  BY <1>1 DEF Setup, Remove, Truncate, Dump, InstallPackages, Clone, CloneFails, SparseSet,
              ReposDone, VerifySymlinks, CopyRules, X11Resources, Done, Rmtree, Update, Stop,
              DeleteConfig
<1>2. ASSUME Headers \/ Dissector \/ Sudoers \/ Visudo PROVE NetOK'
  BY <1>2 DEF Headers, Dissector, Sudoers, Visudo, DropCache
<1>3. ASSUME Wireshark \/ Purge PROVE NetOK'
  <2>1. PICK b \in BOOLEAN : net' = net \/ net' = [net EXCEPT !.caps = b]
    <3>1. net' = net \/ net' = [net EXCEPT !.caps = (@ \/ "wireshark" \in pkgs)]
                     \/ net' = [net EXCEPT !.caps = (@ /\ "wireshark" \in pkgs')]
      BY <1>3 DEF Wireshark, Purge
    <3>2. (net.caps \/ "wireshark" \in pkgs) \in BOOLEAN
          /\ (net.caps /\ "wireshark" \in pkgs') \in BOOLEAN
      OBVIOUS
    <3> QED BY <3>1, <3>2
  <2> QED BY <2>1
<1>4. CASE UNCHANGED vars
  BY <1>4 DEF vars
<1> QED BY <1>1, <1>2, <1>3, <1>4 DEF Next, Step

LEMMA FlowStep == FlowOK /\ [Next]_vars => FlowOK'
<1> SUFFICES ASSUME FlowOK, [Next]_vars PROVE FlowOK'
  OBVIOUS
<1> USE DEF FlowOK, run, host, Work, Exit, Goto, Fault, Fine
<1>1. ASSUME Setup \/ Remove \/ Truncate \/ Dump \/ InstallPackages \/ Clone \/ CloneFails
             \/ SparseSet \/ ReposDone \/ VerifySymlinks
      PROVE FlowOK'
  BY <1>1 DEF Setup, Remove, Truncate, Dump, InstallPackages, Clone, CloneFails, SparseSet,
              ReposDone, VerifySymlinks
<1>2. ASSUME Headers \/ Wireshark \/ Dissector \/ Sudoers \/ Visudo \/ CopyRules \/ X11Resources
             \/ Done
      PROVE FlowOK'
  BY <1>2 DEF Headers, Wireshark, Dissector, Sudoers, Visudo, CopyRules, X11Resources, Done
<1>3. ASSUME Purge \/ Rmtree \/ Update \/ DeleteConfig PROVE FlowOK'
  BY <1>3 DEF Purge, Rmtree, Update, DeleteConfig
<1>4. ASSUME Stop PROVE FlowOK'
  BY <1>4 DEF Stop
<1>5. CASE UNCHANGED vars
  BY <1>5 DEF vars
<1> QED BY <1>1, <1>2, <1>3, <1>4, <1>5 DEF Next, Step

LEMMA BoundsStep == BoundsOK /\ [Next]_vars => BoundsOK'
<1> SUFFICES ASSUME BoundsOK, [Next]_vars PROVE BoundsOK'
  OBVIOUS
<1>1. \/ UNCHANGED <<faults, removes>>
      \/ faults > 0 /\ faults' = faults - 1 /\ removes' = removes
      \/ removes > 0 /\ removes' = removes - 1 /\ faults' = faults
  BY DEF Next, Step, Setup, Remove, Truncate, Dump, InstallPackages, Clone, CloneFails,
         SparseSet, ReposDone, VerifySymlinks, Headers, Wireshark, Dissector, Sudoers, Visudo,
         CopyRules, X11Resources, Done, Purge, Rmtree, Update, Stop, DeleteConfig, Work, Fault,
         Fine, vars
<1> QED BY <1>1, SetupAssumption DEF BoundsOK

\* The configuration, the host and the run keep their types, through
\* whatever sequence of set-ups, removals, failures and stops.
THEOREM SetupTypeCorrect == Spec => []TypeOK
<1>1. Init => ConfigOK /\ FlowOK
  BY EmptyConfig DEF Init, ConfigOK, FlowOK
<1>2. Init => HostOK
  BY DEF Init, HostOK
<1>3. Init => NetOK
  BY DEF Init, NetOK
<1>4. Init => BoundsOK
  BY SetupAssumption DEF Init, BoundsOK
<1>5. ConfigOK /\ HostOK /\ NetOK /\ FlowOK /\ BoundsOK => TypeOK
  BY DEF ConfigOK, HostOK, NetOK, FlowOK, BoundsOK, TypeOK
<1> QED BY <1>1, <1>2, <1>3, <1>4, <1>5, ConfigStep, HostStep, NetStep, FlowStep, BoundsStep,
           PTL DEF Spec
-----------------------------------------------------------------------------
(* What .configs.json says, and what a run is going to write into it.      *)

Writing  == pc \in {"write", "dump"}
Removing == pc \in {"purge", "rmtree", "update"}
SetupRun == pc # "idle" /\ target = "none"

\* The options of c, other than those in ls, list their packages in c.
Listed(c, ls) == \A s \in c.scopes \ ls : Pkgs[s] \subseteq c.packages

\* A set-up adds to what the file says and takes the packages of all it has
\* ticked; a removal takes the packages that no other option shares.
FileInv ==
  /\ file = "none" => cfg = Empty
  /\ Removing => plan = cfg /\ file = "ok" /\ target # "none"
  /\ Writing /\ target = "none" =>
       /\ PkgsOf(ticked) \subseteq plan.packages
       /\ cfg.scopes \subseteq plan.scopes /\ cfg.repos \subseteq plan.repos
  /\ Writing /\ target # "none" =>
       /\ target # "all"
       /\ Listed(plan, loose \cup (IF target \in Scopes \ RepoScopes
                                   THEN SharesWith(target) ELSE {}))
  /\ RemovableOptions

LEMMA FileStep == ConfigOK /\ FileInv /\ [Next]_vars => FileInv'
<1> SUFFICES ASSUME ConfigOK, FileInv, [Next]_vars PROVE FileInv'
  OBVIOUS
<1> USE DEF run, host, Work, Exit, Goto
<1>1. ASSUME UNCHANGED <<file, cfg, loose>>, ~Writing', ~Removing' PROVE FileInv'
  BY <1>1 DEF FileInv, RemovableOptions
<1>2. ASSUME Setup PROVE FileInv'
  <2> DEFINE old == IF file = "ok" THEN cfg ELSE Empty
  <2>1. PICK ss \in SUBSET Scopes, d \in Roots : ticked' = ss /\ plan' = Compile(old, ss, d)
    BY <1>2 DEF Setup
  <2>2. old = cfg /\ old \in Config
    BY <1>2, EmptyConfig DEF Setup, FileInv, ConfigOK
  <2>3. /\ PkgsOf(ticked') \subseteq plan'.packages
        /\ cfg.scopes \subseteq plan'.scopes /\ cfg.repos \subseteq plan'.repos
    BY <2>1, <2>2, CompiledConfig
  <2>4. pc' = "write" /\ target' = "none" /\ UNCHANGED <<file, cfg, loose>>
    BY <1>2 DEF Setup
  <2> QED BY <2>3, <2>4 DEF FileInv, RemovableOptions, Writing, Removing, PkgsOf
<1>3. ASSUME Remove PROVE FileInv'
  <2>1. /\ pc' = "purge" /\ plan' = cfg /\ file = "ok" /\ UNCHANGED <<file, cfg, loose>>
        /\ target' \in {"all"} \cup cfg.repos \cup cfg.scopes
    BY <1>3 DEF Remove
  <2>2. target' # "none"
    BY <2>1, SetupAssumption DEF ConfigOK, Config, Repos
  <2> QED BY <2>1, <2>2 DEF FileInv, RemovableOptions, Writing, Removing
<1>4. ASSUME Truncate PROVE FileInv'
  <2>1. /\ pc = "write" /\ pc' = "dump" /\ file' = "torn"
        /\ UNCHANGED <<cfg, plan, ticked, target, loose>>
    BY <1>4 DEF Truncate
  <2> QED BY <2>1 DEF FileInv, RemovableOptions, Writing, Removing, Listed, PkgsOf, SharesWith
<1>5. ASSUME Dump PROVE FileInv'
  <2>1. /\ pc = "dump" /\ pc' \in {"packages", "done"} /\ file' = "ok" /\ cfg' = plan
        /\ loose' = IF target = "none" THEN Scopes \ ticked
                    ELSE IF target \in Scopes \ RepoScopes THEN loose \cup SharesWith(target)
                    ELSE loose
    BY <1>5 DEF Dump
  <2>2. plan.scopes \subseteq Scopes
    BY DEF ConfigOK, Config
  <2>3. \A s \in plan.scopes \ loose' : Pkgs[s] \subseteq plan.packages
    <3>1. CASE target = "none"
      BY <2>1, <2>2, <3>1 DEF FileInv, Writing, PkgsOf
    <3>2. CASE target # "none"
      BY <2>1, <3>2 DEF FileInv, Writing, Listed
    <3> QED BY <3>1, <3>2
  <2>4. file' # "none" /\ ~Writing' /\ ~Removing'
    BY <2>1 DEF Writing, Removing
  <2> QED BY <2>1, <2>3, <2>4 DEF FileInv, RemovableOptions
<1>6. ASSUME InstallPackages \/ ReposDone \/ SparseSet \/ Clone \/ CloneFails \/ VerifySymlinks
             \/ Headers \/ Wireshark \/ Dissector \/ Sudoers \/ Visudo \/ CopyRules
             \/ X11Resources \/ Done \/ Stop
      PROVE UNCHANGED <<file, cfg, loose>> /\ ~Writing' /\ ~Removing'
  <2>1. UNCHANGED <<file, cfg, loose>>
    BY <1>6 DEF InstallPackages, ReposDone, SparseSet, Clone, CloneFails, VerifySymlinks, Headers,
                Wireshark, Dissector, Sudoers, Visudo, CopyRules, X11Resources, Done, Stop
  <2>2. ~Writing' /\ ~Removing'
    BY <1>6 DEF InstallPackages, ReposDone, SparseSet, Clone, CloneFails, VerifySymlinks, Headers,
                Wireshark, Dissector, Sudoers, Visudo, CopyRules, X11Resources, Done, Stop,
                Writing, Removing
  <2> QED BY <2>1, <2>2
<1>7. ASSUME Purge \/ Rmtree PROVE FileInv'
  <2>1. /\ Removing /\ pc' \in {"rmtree", "update"}
        /\ UNCHANGED <<file, cfg, plan, target, loose>>
    BY <1>7 DEF Purge, Rmtree, Removing
  <2> QED BY <2>1 DEF FileInv, RemovableOptions, Writing, Removing
<1>8. ASSUME Update PROVE FileInv'
  <2>0. plan = cfg /\ file = "ok" /\ target # "none" /\ RemovableOptions
    BY <1>8 DEF Update, Removing, FileInv
  <2>1. CASE target = "all"
    BY <1>8, <2>1, <1>1 DEF Update, FileInv, RemovableOptions, Writing, Removing, Empty
  <2>2. CASE target # "all" /\ PkgsOf(GoneScopes) \subseteq plan.packages
    <3>1. /\ pc' = "write" /\ UNCHANGED <<file, cfg, target, loose>>
          /\ plan'.scopes = plan.scopes \ GoneScopes
          /\ plan'.packages = plan.packages \ PkgsOf(GoneScopes)
      BY <1>8, <2>2 DEF Update, ConfigOK, Config
    <3> DEFINE ls == loose \cup (IF target \in Scopes \ RepoScopes THEN SharesWith(target)
                                                                  ELSE {})
    <3>2. Listed(plan', ls)
      <4> SUFFICES ASSUME NEW s \in plan'.scopes \ ls PROVE Pkgs[s] \subseteq plan'.packages
        BY DEF Listed
      <4>1. s \in Scopes /\ Pkgs[s] \subseteq plan.packages
        BY <2>0, <3>1 DEF RemovableOptions, ConfigOK, Config
      <4>2. Pkgs[s] \cap PkgsOf(GoneScopes) = {}
        <5>1. \A t \in GoneScopes : t = target /\ t \in Scopes \ RepoScopes
          BY <2>2 DEF GoneScopes, ConfigOK, Config
        <5>2. \A t \in GoneScopes : Pkgs[s] \cap Pkgs[t] = {}
          BY <4>1, <5>1 DEF SharesWith
        <5> QED BY <5>2 DEF PkgsOf
      <4> QED BY <3>1, <4>1, <4>2
    <3>3. Listed(plan, loose \cup (IF target \in Scopes \ RepoScopes THEN SharesWith(target) ELSE {}))'
      BY <3>1, <3>2 DEF Listed, SharesWith
    <3> QED BY <2>0, <2>2, <3>1, <3>3 DEF FileInv, RemovableOptions, Writing, Removing
  <2>3. CASE target # "all" /\ ~(PkgsOf(GoneScopes) \subseteq plan.packages)
    <3>1. UNCHANGED <<file, cfg, loose>> /\ ~Writing' /\ ~Removing'
      BY <1>8, <2>3 DEF Update, Writing, Removing
    <3> QED BY <1>1, <3>1
  <2> QED BY <2>1, <2>2, <2>3
<1>9. ASSUME DeleteConfig PROVE FileInv'
  BY <1>9 DEF DeleteConfig, FileInv, RemovableOptions, Writing, Removing
<1>10. CASE UNCHANGED vars
  BY <1>10 DEF vars, FileInv, RemovableOptions, Writing, Removing, Listed, PkgsOf, SharesWith
<1> QED BY <1>1, <1>2, <1>3, <1>4, <1>5, <1>6, <1>7, <1>8, <1>9, <1>10 DEF Next, Step

LEMMA FileInit == Init => FileInv
BY DEF Init, FileInv, RemovableOptions, Writing, Removing

LEMMA ConfigInit == Init => ConfigOK
BY EmptyConfig DEF Init, ConfigOK

\* An option in .configs.json can be removed without an exception, unless it
\* was kept unticked or shares a package with an option removed since.
THEOREM OptionsRemovable == Spec => []RemovableOptions
<1>1. FileInv => RemovableOptions
  BY DEF FileInv
<1> QED BY <1>1, FileInit, ConfigInit, ConfigStep, FileStep, PTL DEF Spec

\* No set-up forgets an option or a repository that the file has recorded,
\* whatever is ticked in its menu.
THEOREM OptionsStay == Spec => OptionsKept
<1> DEFINE Keeps == file = "torn" /\ file' = "ok" /\ target = "none" =>
                      cfg.scopes \subseteq cfg'.scopes /\ cfg.repos \subseteq cfg'.repos
<1>1. ConfigOK /\ FileInv /\ [Next]_vars => [Keeps]_vars
  <2> SUFFICES ASSUME FileInv, [Next]_vars, file = "torn", file' = "ok", target = "none"
               PROVE  cfg.scopes \subseteq cfg'.scopes /\ cfg.repos \subseteq cfg'.repos
    OBVIOUS
  <2>1. Dump
    BY DEF Next, Step, Setup, Remove, Truncate, InstallPackages, ReposDone, SparseSet, Clone,
           CloneFails, VerifySymlinks, Headers, Wireshark, Dissector, Sudoers, Visudo, CopyRules,
           X11Resources, Done, Purge, Rmtree, Update, Stop, DeleteConfig, Work, vars, FileInv,
           Removing, Goto
  <2> QED BY <2>1 DEF Dump, Goto, FileInv, Writing
<1> QED BY <1>1, FileInit, ConfigInit, ConfigStep, FileStep, PTL DEF Spec, OptionsKept
-----------------------------------------------------------------------------
(* What a set-up without a failing command leaves behind.                  *)

Sniffing == {"headers", "wireshark", "lua", "sudoers", "visudo", "cp"}
Cloning  == {"repos", "sparse"}
Phases   == {"packages", "links", "x11"} \cup Cloning \cup Sniffing
\* The set-up is at one of the places ps, and nothing has failed in it.
CleanAt(ps) == target = "none" /\ ~failed /\ pc \in ps

\* Once .configs.json is written, the run works on what it says.
PlanInv ==
  /\ pc \in Phases => target = "none"
  /\ target = "none" /\ pc \in Phases \cup {"write", "dump", "done"} => plan.root \in Roots
  /\ target = "none" /\ pc \in Phases \cup {"done"} => plan = cfg
  /\ Writing => plan.root = cfg.root \/ cfg.root = "none"

LEMMA PlanStep == FileInv /\ ConfigOK /\ PlanInv /\ [Next]_vars => PlanInv'
<1> SUFFICES ASSUME FileInv, ConfigOK, PlanInv, [Next]_vars PROVE PlanInv'
  OBVIOUS
<1> USE DEF run, Work, Exit, Goto, Phases, Cloning, Sniffing, Writing
<1>1. ASSUME Setup PROVE PlanInv'
  <2> DEFINE old == IF file = "ok" THEN cfg ELSE Empty
  <2>1. PICK ss \in SUBSET Scopes, d \in Roots :
          (file = "ok" => d = cfg.root) /\ ticked' = ss /\ plan' = Compile(old, ss, d)
    BY <1>1 DEF Setup
  <2>2. old \in Config
    BY EmptyConfig DEF ConfigOK
  <2>3. plan'.root = d
    BY <2>1, <2>2, CompiledConfig
  <2>4. file # "ok" => cfg.root = "none"
    BY <1>1 DEF Setup, FileInv, ConfigOK, Empty
  <2>5. pc' = "write" /\ target' = "none" /\ cfg' = cfg
    BY <1>1 DEF Setup
  <2> QED BY <2>1, <2>3, <2>4, <2>5 DEF PlanInv
<1>2. ASSUME Remove PROVE PlanInv'
  <2>1. pc' = "purge"
    BY <1>2 DEF Remove
  <2> QED BY <2>1 DEF PlanInv
<1>3. ASSUME Truncate PROVE PlanInv'
  BY <1>3 DEF Truncate, PlanInv
<1>4. ASSUME Dump PROVE PlanInv'
  BY <1>4 DEF Dump, PlanInv
<1>5. ASSUME InstallPackages \/ Clone \/ CloneFails \/ SparseSet \/ ReposDone \/ VerifySymlinks
             \/ Headers \/ Wireshark \/ Dissector \/ Sudoers \/ Visudo \/ CopyRules
             \/ X11Resources \/ Stop \/ Done
      PROVE PlanInv'
  <2>1. cfg' = cfg /\ (pc' = "idle" \/ (pc \in Phases /\ pc' \in Phases \cup {"done"}
                                         /\ UNCHANGED <<plan, target>>))
    BY <1>5 DEF InstallPackages, Clone, CloneFails, SparseSet, ReposDone, VerifySymlinks, Headers,
                Wireshark, Dissector, Sudoers, Visudo, CopyRules, X11Resources, Stop, Done
  <2> QED BY <2>1 DEF PlanInv
<1>6. ASSUME Purge \/ Rmtree PROVE PlanInv'
  BY <1>6 DEF Purge, Rmtree, PlanInv
<1>7. ASSUME Update PROVE PlanInv'
  <2>1. target # "none" /\ plan = cfg
    BY <1>7 DEF Update, FileInv, Removing
  <2>2. \/ pc' = "done" /\ target' = target
        \/ pc' = "write" /\ target' = target /\ cfg' = cfg /\ plan'.root = plan.root
        \/ pc' = "idle"
    BY <1>7 DEF Update, ConfigOK, Config
  <2> QED BY <2>1, <2>2 DEF PlanInv
<1>8. ASSUME DeleteConfig PROVE PlanInv'
  BY <1>8 DEF DeleteConfig, PlanInv
<1>9. CASE UNCHANGED vars
  BY <1>9 DEF vars, PlanInv
<1> QED BY <1>1, <1>2, <1>3, <1>4, <1>5, <1>6, <1>7, <1>8, <1>9 DEF Next, Step

\* The packages are there from the end of the apt command on.
PkgsInv == CleanAt((Phases \ {"packages"}) \cup {"done"}) => plan.packages \subseteq pkgs

LEMMA PkgsStep == FileInv /\ PlanInv /\ PkgsInv /\ [Next]_vars => PkgsInv'
<1> SUFFICES ASSUME FileInv, PlanInv, PkgsInv, [Next]_vars PROVE PkgsInv'
  OBVIOUS
<1> USE DEF run, host, Work, Exit, Goto, Fault, Fine, Phases, Cloning, Sniffing, CleanAt
<1>1. ASSUME Setup \/ Remove \/ Truncate \/ Dump \/ Done \/ Purge \/ Rmtree \/ Stop \/ DeleteConfig
      PROVE ~CleanAt((Phases \ {"packages"}) \cup {"done"})'
  BY <1>1 DEF Setup, Remove, Truncate, Dump, Done, Purge, Rmtree, Stop, DeleteConfig
<1>2. ASSUME InstallPackages PROVE PkgsInv'
  BY <1>2 DEF InstallPackages, PkgsInv
<1>3. ASSUME Clone \/ CloneFails \/ SparseSet \/ ReposDone \/ VerifySymlinks \/ Headers
             \/ Wireshark \/ Dissector \/ Sudoers \/ Visudo \/ CopyRules \/ X11Resources
      PROVE PkgsInv'
  <2>1. pc' = "idle" \/ (pc \in Phases \ {"packages"} /\ (failed' \/ failed' = failed)
                          /\ UNCHANGED <<plan, target, pkgs>>)
    BY <1>3 DEF Clone, CloneFails, SparseSet, ReposDone, VerifySymlinks, Headers, Wireshark,
                Dissector, Sudoers, Visudo, CopyRules, X11Resources
  <2> QED BY <2>1 DEF PkgsInv
<1>4. ASSUME Update PROVE ~CleanAt((Phases \ {"packages"}) \cup {"done"})'
  <2>1. target # "none"
    BY <1>4 DEF Update, FileInv, Removing
  <2> QED BY <1>4, <2>1 DEF Update
<1>5. CASE UNCHANGED vars
  BY <1>5 DEF vars, PkgsInv
<1> QED BY <1>1, <1>2, <1>3, <1>4, <1>5 DEF Next, Step, PkgsInv

\* A clone without its sparse-checkout is the trace of a run that was cut
\* short there; what the loop has visited without a failure is cloned.
TreeInv ==
  /\ \A d \in Roots : \A r \in Repos :
       tree[d][r] = "bare" => "sparse" \in scars \/ (pc = "sparse" /\ d = plan.root /\ r = This)
  /\ CleanAt(Cloning) => \A r \in plan.repos \ todo : Cloned(r)
  /\ CleanAt({"links", "x11", "done"} \cup Sniffing) => \A r \in plan.repos : Cloned(r)

LEMMA TreeStep ==
  ConfigOK /\ HostOK /\ FileInv /\ PlanInv /\ TreeInv /\ [Next]_vars => TreeInv'
<1> SUFFICES ASSUME ConfigOK, HostOK, FileInv, PlanInv, TreeInv, [Next]_vars PROVE TreeInv'
  OBVIOUS
<1> USE DEF run, host, Work, Exit, Goto, Fault, Fine, CleanAt
<1>0. \A r : Cloned(r)' = (tree'[plan'.root][r] # "none")
  BY DEF Cloned
<1>1. ASSUME tree' = tree, scars \subseteq scars', pc # "sparse" \/ "sparse" \in scars',
             pc' # "sparse", ~CleanAt({"links", "x11", "done"} \cup Sniffing)',
             ~CleanAt(Cloning)'
      PROVE  TreeInv'
  BY <1>1 DEF TreeInv
<1>2. ASSUME Setup \/ Remove \/ Truncate \/ Dump \/ Purge \/ Stop \/ DeleteConfig \/ Done
      PROVE TreeInv'
  <2>2. ASSUME Setup \/ Remove \/ Truncate \/ Dump \/ Purge \/ Done \/ DeleteConfig PROVE TreeInv'
    <3>1. /\ tree' = tree /\ scars \subseteq scars' /\ pc # "sparse" /\ pc' # "sparse"
          /\ pc' \in {"idle", "purge", "write", "dump", "packages", "rmtree"}
               \/ (pc' = "done" /\ target' # "none")
      BY <2>2 DEF Setup, Remove, Truncate, Dump, Purge, Done, DeleteConfig
    <3> QED BY <1>1, <3>1 DEF Cloning, Sniffing
  <2>3. ASSUME Stop PROVE TreeInv'
    <3>1. tree' = tree /\ pc' = "idle" /\ scars \subseteq scars'
      BY <2>3 DEF Stop
    <3>2. pc = "sparse" => "sparse" \in scars'
      BY <2>3 DEF Stop
    <3> QED BY <1>1, <3>1, <3>2 DEF Cloning, Sniffing
  <2> QED BY <1>2, <2>2, <2>3
<1>3. ASSUME InstallPackages PROVE TreeInv'
  <2>1. /\ pc = "packages" /\ pc' = "repos" /\ todo' = plan.repos
        /\ UNCHANGED <<tree, plan, target, scars>>
    BY <1>3 DEF InstallPackages
  <2> QED BY <2>1 DEF TreeInv, Sniffing
<1>4. ASSUME Clone PROVE TreeInv'
  <2> DEFINE r0 == This
  <2>1. /\ pc = "repos" /\ todo # {} /\ UNCHANGED <<plan, target, scars, failed>>
        /\ tree' = IF Cloned(r0) THEN tree
                   ELSE [tree EXCEPT ![plan.root][r0] = IF r0 \in Sparse THEN "bare" ELSE "full"]
        /\ \/ ~Cloned(r0) /\ r0 \in Sparse /\ pc' = "sparse" /\ todo' = todo
           \/ (Cloned(r0) \/ r0 \notin Sparse) /\ pc' = "repos" /\ todo' = todo \ {r0}
    BY <1>4 DEF Clone, Rest
  <2>2. r0 \in todo /\ r0 \in Repos /\ plan.root \in Roots /\ plan.repos \subseteq Repos
        /\ target = "none"
    BY <2>1 DEF This, ConfigOK, Config, PlanInv, Phases, Cloning
  <2>3. todo' = todo => This' = r0
    BY DEF This
  <2> HIDE DEF r0
  <2>4. /\ \A d \in Roots, r \in Repos : d # plan.root \/ r # r0 => tree'[d][r] = tree[d][r]
        /\ ~Cloned(r0) => tree'[plan.root][r0] = IF r0 \in Sparse THEN "bare" ELSE "full"
        /\ Cloned(r0) => tree' = tree
    BY <2>1, <2>2 DEF HostOK
  <2>5. tree'[plan.root][r0] # "none"
    BY <2>4 DEF Cloned
  <2>6. \A d \in Roots : \A r \in Repos :
          tree'[d][r] = "bare" => "sparse" \in scars' \/ (pc' = "sparse" /\ d = plan'.root /\ r = This')
    BY <2>1, <2>3, <2>4 DEF TreeInv
  <2>7. ~failed => \A r \in plan.repos \ todo' : tree'[plan.root][r] # "none"
    <3> SUFFICES ASSUME ~failed, NEW r \in plan.repos \ todo' PROVE tree'[plan.root][r] # "none"
      OBVIOUS
    <3>1. r = r0 \/ r \in plan.repos \ todo
      BY <2>1
    <3>2. CASE r # r0
      <4>1. tree[plan.root][r] # "none"
        BY <2>1, <2>2, <3>1, <3>2 DEF TreeInv, Cloning, Cloned
      <4> QED BY <2>2, <2>4, <3>2, <4>1
    <3> QED BY <2>5, <3>2
  <2>8. pc' \in Cloning /\ plan' = plan /\ failed' = failed
    BY <2>1 DEF Cloning
  <2> QED BY <1>0, <2>6, <2>7, <2>8 DEF TreeInv, Cloning, Sniffing
<1>5. ASSUME CloneFails PROVE TreeInv'
  <2>1. tree' = tree /\ scars' = scars /\ failed' /\ pc = "repos" /\ pc' \in {"repos", "idle"}
    BY <1>5 DEF CloneFails
  <2> QED BY <2>1 DEF TreeInv
<1>6. ASSUME SparseSet PROVE TreeInv'
  <2> DEFINE r0 == This
  <2>0. pc = "sparse" /\ plan.root \in Roots
    BY <1>6 DEF SparseSet, PlanInv, Phases, Cloning
  <2>1. CASE pc' = "idle"
    <3>1. tree' = tree /\ "sparse" \in scars'
      BY <1>6, <2>1 DEF SparseSet
    <3> QED BY <2>1, <3>1 DEF TreeInv, Cloning, Sniffing
  <2>2. CASE pc' # "idle"
    <3>1. /\ pc' = "repos" /\ UNCHANGED <<plan, target, scars, failed>>
          /\ tree' = [tree EXCEPT ![plan.root][r0] = "full"] /\ todo' = todo \ {r0}
      BY <1>6, <2>2 DEF SparseSet, Rest
    <3> HIDE DEF r0
    <3>2. \A d \in Roots, r \in Repos :
            tree'[d][r] = IF d = plan.root /\ r = r0 THEN "full" ELSE tree[d][r]
      BY <2>0, <3>1 DEF HostOK
    <3>3. \A d \in Roots : \A r \in Repos :
            tree[d][r] = "bare" => "sparse" \in scars \/ (d = plan.root /\ r = r0)
      BY DEF TreeInv, r0
    <3>4. \A d \in Roots : \A r \in Repos : tree'[d][r] = "bare" => "sparse" \in scars'
      BY <3>1, <3>2, <3>3
    <3>5. target = "none" /\ ~failed => \A r \in plan.repos \ todo' : tree'[plan.root][r] # "none"
      <4> SUFFICES ASSUME target = "none", ~failed, NEW r \in plan.repos \ todo'
                   PROVE  tree'[plan.root][r] # "none"
        OBVIOUS
      <4>1. r \in Repos /\ (r = r0 \/ r \in plan.repos \ todo)
        BY <3>1 DEF ConfigOK, Config
      <4>2. r # r0 => tree[plan.root][r] # "none"
        BY <2>0, <4>1 DEF TreeInv, Cloning, Cloned
      <4> QED BY <2>0, <3>2, <4>1, <4>2
    <3> QED BY <1>0, <3>1, <3>4, <3>5 DEF TreeInv, Cloning, Sniffing
  <2> QED BY <2>1, <2>2
<1>7. ASSUME ReposDone PROVE TreeInv'
  <2>1. /\ pc = "repos" /\ pc' = "links" /\ todo = {}
        /\ UNCHANGED <<tree, plan, target, scars, failed>>
    BY <1>7 DEF ReposDone
  <2> QED BY <1>0, <2>1 DEF TreeInv, Cloning, Sniffing, Cloned
<1>8. ASSUME VerifySymlinks \/ Headers \/ Wireshark \/ Dissector \/ Sudoers \/ Visudo \/ CopyRules
             \/ X11Resources
      PROVE TreeInv'
  <2>1. /\ tree' = tree /\ scars \subseteq scars'
        /\ \/ pc' = "idle"
           \/ /\ pc \in {"links", "x11"} \cup Sniffing
              /\ pc' \in {"links", "x11", "done"} \cup Sniffing
              /\ UNCHANGED <<plan, target>> /\ (failed' \/ failed' = failed)
        /\ pc \in {"links", "x11"} \cup Sniffing
    BY <1>8 DEF VerifySymlinks, Headers, Wireshark, Dissector, Sudoers, Visudo, CopyRules,
                X11Resources, Sniffing
  <2> QED BY <1>0, <2>1 DEF TreeInv, Sniffing, Cloning, Cloned
<1>9. ASSUME Rmtree PROVE TreeInv'
  <2>1. /\ pc = "rmtree" /\ pc' = "update" /\ scars' = scars
        /\ tree' = tree \/ tree' = [tree EXCEPT ![plan.root] =
                                      [r \in Repos |-> IF r \in GoneRepos THEN "none" ELSE @[r]]]
    BY <1>9 DEF Rmtree
  <2>2. \A d \in Roots : \A r \in Repos : tree'[d][r] = "bare" => tree[d][r] = "bare"
    BY <2>1 DEF HostOK
  <2> QED BY <2>1, <2>2 DEF TreeInv, Cloning, Sniffing
<1>10. ASSUME Update PROVE TreeInv'
  <2>1. /\ pc = "update" /\ target # "none" /\ tree' = tree /\ scars \subseteq scars'
        /\ pc' \in {"idle", "write"} \/ (pc' = "done" /\ target' # "none")
    BY <1>10 DEF Update, FileInv, Removing
  <2> QED BY <1>1, <2>1 DEF Cloning, Sniffing
<1>11. CASE UNCHANGED vars
  BY <1>11, <1>0 DEF vars, TreeInv, Cloned, This
<1> QED BY <1>2, <1>3, <1>4, <1>5, <1>6, <1>7, <1>8, <1>9, <1>10, <1>11 DEF Next, Step

\* As long as the workspace has not moved, links point into its root.
LinkInv ==
  /\ "moved" \in scars \/ \A r \in Linked : link[r] \in {"none", cfg.root}
  /\ CleanAt({"x11", "done"} \cup Sniffing) =>
       "moved" \in scars \/ \A r \in Linked \cap plan.repos : link[r] = plan.root

LEMMA LinkStep ==
  HostOK /\ FileInv /\ PlanInv /\ TreeInv /\ LinkInv /\ [Next]_vars => LinkInv'
<1> SUFFICES ASSUME HostOK, FileInv, PlanInv, TreeInv, LinkInv, [Next]_vars PROVE LinkInv'
  OBVIOUS
<1> USE DEF run, host, Work, Exit, Goto, Fault, Fine, CleanAt
<1>1. ASSUME UNCHANGED <<link, cfg>>, scars \subseteq scars', ~CleanAt({"x11", "done"} \cup Sniffing)'
      PROVE  LinkInv'
  BY <1>1 DEF LinkInv
<1>2. ASSUME Setup \/ Remove \/ Truncate \/ InstallPackages \/ Clone \/ CloneFails \/ SparseSet
             \/ ReposDone \/ Purge \/ Rmtree \/ Stop \/ Done
      PROVE LinkInv'
  <2>1. /\ UNCHANGED <<link, cfg>> /\ scars \subseteq scars'
        /\ pc' \in {"write", "purge", "dump", "repos", "sparse", "links", "rmtree", "update", "idle"}
    BY <1>2 DEF Setup, Remove, Truncate, InstallPackages, Clone, CloneFails, SparseSet, ReposDone,
                Purge, Rmtree, Stop, Done
  <2> QED BY <1>1, <2>1 DEF Sniffing
<1>3. ASSUME Dump PROVE LinkInv'
  <2>1. /\ UNCHANGED <<link, scars, target>> /\ cfg' = plan /\ Writing
        /\ pc' = IF target = "none" THEN "packages" ELSE "done"
    BY <1>3 DEF Dump, Writing
  <2>2. plan.root = cfg.root \/ cfg.root = "none"
    BY <2>1 DEF PlanInv
  <2>3. "moved" \in scars \/ \A r \in Linked : link[r] \in {"none", plan.root}
    BY <2>2 DEF LinkInv
  <2> QED BY <2>1, <2>3 DEF LinkInv, Sniffing
<1>4. ASSUME VerifySymlinks PROVE LinkInv'
  <2>1. /\ pc = "links" /\ UNCHANGED <<plan, target, scars, failed, cfg>>
        /\ link' = [r \in Linked |-> IF r \in plan.repos /\ Cloned(r) /\ Unlinked(r)
                                     THEN plan.root ELSE link[r]]
    BY <1>4 DEF VerifySymlinks
  <2>2. target = "none" /\ plan = cfg
    BY <2>1 DEF PlanInv, Phases
  <2>3. "moved" \in scars \/ \A r \in Linked : link'[r] \in {"none", cfg.root}
    BY <2>1, <2>2 DEF LinkInv
  <2>4. ~failed => "moved" \in scars \/ \A r \in Linked \cap plan.repos : link'[r] = plan.root
    <3> SUFFICES ASSUME ~failed, "moved" \notin scars, NEW r \in Linked \cap plan.repos
                 PROVE  link'[r] = plan.root
      OBVIOUS
    <3>1. Cloned(r)
      BY <2>1, <2>2 DEF TreeInv
    <3>2. link[r] = "none" \/ link[r] = plan.root
      BY <2>2 DEF LinkInv
    <3> QED BY <2>1, <3>1, <3>2 DEF Unlinked
  <2> QED BY <2>1, <2>3, <2>4 DEF LinkInv
<1>5. ASSUME Headers \/ Wireshark \/ Dissector \/ Sudoers \/ Visudo \/ CopyRules \/ X11Resources
      PROVE LinkInv'
  <2>1. /\ UNCHANGED <<link, cfg>> /\ scars \subseteq scars' /\ pc \in {"x11"} \cup Sniffing
        /\ pc' = "idle" \/ (UNCHANGED <<plan, target>> /\ (failed' \/ failed' = failed))
    BY <1>5 DEF Headers, Wireshark, Dissector, Sudoers, Visudo, CopyRules, X11Resources, Sniffing
  <2> QED BY <2>1 DEF LinkInv, Sniffing
<1>6. ASSUME Update PROVE LinkInv'
  <2>1. target # "none"
    BY <1>6 DEF Update, FileInv, Removing
  <2>2. \/ "moved" \in scars' /\ target' = target
        \/ UNCHANGED <<link, cfg>> /\ scars' = scars /\ pc' \in {"write", "idle"}
    BY <1>6 DEF Update
  <2> QED BY <1>1, <2>1, <2>2 DEF LinkInv, Sniffing
<1>7. ASSUME DeleteConfig PROVE LinkInv'
  BY <1>7 DEF DeleteConfig, LinkInv
<1>8. CASE UNCHANGED vars
  BY <1>8 DEF vars, LinkInv
<1> QED BY <1>2, <1>3, <1>4, <1>5, <1>6, <1>7, <1>8 DEF Next, Step

\* The sniffer's parts are set up one after the other; a dissector or rules
\* that are there in part have been cut short.
Sniffer(ps) == CleanAt(ps) /\ Ebpf /\ "networking" \in plan.scopes
SnifferInv ==
  /\ net.lua = "part" => "lua" \in scars
  /\ net.cache => net.rules \/ "rules" \in scars \/ pc \in {"visudo", "cp"}
  /\ Sniffer({"x11", "done"} \cup (Sniffing \ {"headers"})) => net.headers
  /\ Sniffer({"x11", "done", "lua", "sudoers", "visudo", "cp"}) =>
       ("wireshark" \in pkgs => net.caps)
  /\ Sniffer({"x11", "done", "sudoers", "visudo", "cp"}) => net.lua # "none"
  /\ Sniffer({"x11", "done", "visudo", "cp"}) => net.cache

LEMMA SnifferStep == NetOK /\ FileInv /\ SnifferInv /\ [Next]_vars => SnifferInv'
<1> SUFFICES ASSUME NetOK, FileInv, SnifferInv, [Next]_vars PROVE SnifferInv'
  OBVIOUS
<1> USE DEF run, host, Work, Exit, Goto, Fault, Fine, CleanAt, Sniffer, Sniffing
<1>1. ASSUME net' = net \/ \E b : net' = [net EXCEPT !.caps = b], scars \subseteq scars',
             pc \in {"visudo", "cp"} => "rules" \in scars',
             ~CleanAt({"x11", "done"} \cup Sniffing)'
      PROVE  SnifferInv'
  <2>1. net'.lua = net.lua /\ net'.cache = net.cache /\ net'.rules = net.rules
    BY <1>1 DEF NetOK
  <2>2. ~Sniffer({"x11", "done"} \cup Sniffing)'
    BY <1>1
  <2> QED BY <1>1, <2>1, <2>2 DEF SnifferInv
<1>2. ASSUME Setup \/ Remove \/ Truncate \/ Dump \/ InstallPackages \/ Clone \/ CloneFails
             \/ SparseSet \/ ReposDone \/ Rmtree \/ Done \/ DeleteConfig
      PROVE SnifferInv'
  <2>1. /\ net' = net /\ scars \subseteq scars' /\ pc \notin {"visudo", "cp"}
        /\ \/ pc' \in {"write", "purge", "dump", "packages", "repos", "sparse", "links", "update",
                       "idle"}
           \/ pc' = "done" /\ target' # "none"
    BY <1>2 DEF Setup, Remove, Truncate, Dump, InstallPackages, Clone, CloneFails, SparseSet,
                ReposDone, Rmtree, Done, DeleteConfig
  <2> QED BY <1>1, <2>1
<1>3. ASSUME Purge PROVE SnifferInv'
  <2>1. /\ net' = net \/ \E b : net' = [net EXCEPT !.caps = b]
        /\ scars' = scars /\ pc = "purge" /\ pc' = "rmtree"
    BY <1>3 DEF Purge
  <2> QED BY <1>1, <2>1
<1>4. ASSUME Stop PROVE SnifferInv'
  <2>1. net' = net /\ pc' = "idle" /\ scars \subseteq scars'
    BY <1>4 DEF Stop
  <2>2. pc \in {"visudo", "cp"} => "rules" \in scars'
    BY <1>4 DEF Stop
  <2> QED BY <1>1, <2>1, <2>2
<1>5. ASSUME Update PROVE SnifferInv'
  <2>1. target # "none"
    BY <1>5 DEF Update, FileInv, Removing
  <2>2. /\ net' = net /\ scars \subseteq scars' /\ pc = "update"
        /\ pc' \in {"write", "idle"} \/ (pc' = "done" /\ target' = target)
    BY <1>5 DEF Update
  <2> QED BY <1>1, <2>1, <2>2
<1>6. ASSUME VerifySymlinks PROVE SnifferInv'
  <2>1. /\ pc = "links" /\ UNCHANGED <<net, scars, plan>>
        /\ pc' = IF Ebpf /\ "networking" \in plan.scopes THEN "headers" ELSE "x11"
    BY <1>6 DEF VerifySymlinks
  <2> QED BY <2>1 DEF SnifferInv
<1>7. ASSUME Headers PROVE SnifferInv'
  <2>1. /\ pc = "headers" /\ scars' = scars
        /\ \/ pc' = "wireshark" /\ net' = [net EXCEPT !.headers = TRUE]
           \/ pc' = "idle" /\ net' = net
    BY <1>7 DEF Headers
  <2>2. /\ net'.lua = net.lua /\ net'.cache = net.cache /\ net'.rules = net.rules
        /\ pc' = "wireshark" => net'.headers
    BY <2>1 DEF NetOK
  <2> QED BY <2>1, <2>2 DEF SnifferInv
<1>8. ASSUME Wireshark PROVE SnifferInv'
  <2>1. /\ pc = "wireshark" /\ pc' = "lua" /\ UNCHANGED <<scars, plan, target, pkgs>>
        /\ \/ net' = [net EXCEPT !.caps = @ \/ "wireshark" \in pkgs] /\ failed' = failed
           \/ net' = net /\ failed'
    BY <1>8 DEF Wireshark
  <2>2. /\ net'.lua = net.lua /\ net'.cache = net.cache /\ net'.rules = net.rules
        /\ net'.headers = net.headers
    BY <2>1 DEF NetOK
  <2>3. ~failed' => failed' = failed /\ ("wireshark" \in pkgs => net'.caps)
    BY <2>1 DEF NetOK
  <2> QED BY <2>1, <2>2, <2>3 DEF SnifferInv
<1>9. ASSUME Dissector PROVE SnifferInv'
  <2>1. /\ pc = "lua" /\ pkgs' = pkgs
        /\ \/ /\ pc' = "sudoers" /\ UNCHANGED <<scars, plan, target, failed>>
              /\ net' = [net EXCEPT !.lua = IF @ = "none" THEN "full" ELSE @]
           \/ /\ net' = [net EXCEPT !.lua = "part"] /\ scars' = scars \cup {"lua"} /\ failed'
              /\ pc' \in {"idle", "sudoers"}
    BY <1>9 DEF Dissector
  <2>2. /\ net'.caps = net.caps /\ net'.cache = net.cache /\ net'.rules = net.rules
        /\ net'.headers = net.headers
    BY <2>1 DEF NetOK
  <2>3. \/ failed' /\ "lua" \in scars' /\ scars \subseteq scars'
        \/ /\ UNCHANGED <<scars, plan, target, failed>> /\ net'.lua # "none"
           /\ net'.lua = "part" => net.lua = "part"
    BY <2>1 DEF NetOK
  <2> QED BY <2>1, <2>2, <2>3 DEF SnifferInv
<1>10. ASSUME Sudoers PROVE SnifferInv'
  <2>1. /\ pc = "sudoers" /\ UNCHANGED <<pkgs, scars, plan, target, failed>>
        /\ pc' = IF net.cache THEN "x11" ELSE "visudo"
        /\ net' = [net EXCEPT !.cache = TRUE]
    BY <1>10 DEF Sudoers
  <2>2. /\ net'.caps = net.caps /\ net'.lua = net.lua /\ net'.rules = net.rules
        /\ net'.headers = net.headers /\ net'.cache
    BY <2>1 DEF NetOK
  <2>3. net.cache => net.rules \/ "rules" \in scars
    BY <2>1 DEF SnifferInv
  <2> QED BY <2>1, <2>2, <2>3 DEF SnifferInv
<1>11. ASSUME Visudo PROVE SnifferInv'
  <2>1. /\ pc = "visudo" /\ UNCHANGED <<pkgs, scars, plan, target>>
        /\ \/ pc' = "cp" /\ net' = net /\ failed' = failed
           \/ pc' = "x11" /\ net' = [net EXCEPT !.cache = FALSE] /\ failed'
    BY <1>11 DEF Visudo, DropCache
  <2>2. net'.lua = net.lua /\ (pc' = "x11" => ~net'.cache)
    BY <2>1 DEF NetOK
  <2> QED BY <2>1, <2>2 DEF SnifferInv
<1>12. ASSUME CopyRules PROVE SnifferInv'
  <2>1. /\ pc = "cp" /\ pc' = "x11" /\ UNCHANGED <<pkgs, plan, target>>
        /\ \/ net' = [net EXCEPT !.rules = TRUE] /\ UNCHANGED <<failed, scars>>
           \/ net' = net /\ failed' /\ scars' = scars \cup {"rules"}
    BY <1>12 DEF CopyRules
  <2>2. /\ net'.caps = net.caps /\ net'.lua = net.lua /\ net'.headers = net.headers
        /\ net'.cache = net.cache /\ (net'.rules \/ "rules" \in scars')
    BY <2>1 DEF NetOK
  <2> QED BY <2>1, <2>2 DEF SnifferInv
<1>13. ASSUME X11Resources PROVE SnifferInv'
  <2>1. /\ pc = "x11" /\ UNCHANGED <<pkgs, net, scars, failed>>
        /\ pc' = "idle" \/ (pc' = "done" /\ UNCHANGED <<plan, target>>)
    BY <1>13 DEF X11Resources
  <2> QED BY <2>1 DEF SnifferInv
<1>14. CASE UNCHANGED vars
  BY <1>14 DEF vars, SnifferInv
<1> QED BY <1>2, <1>3, <1>4, <1>5, <1>6, <1>7, <1>8, <1>9, <1>10, <1>11, <1>12, <1>13, <1>14
        DEF Next, Step

LEMMA CompleteInit == Init => PlanInv /\ PkgsInv /\ TreeInv /\ LinkInv /\ SnifferInv
BY DEF Init, PlanInv, PkgsInv, TreeInv, LinkInv, SnifferInv, Sniffer, CleanAt, Phases, Cloning,
       Sniffing, Writing

\* A set-up that comes to "Setup completed" without a failing command has
\* made up for whatever earlier runs left undone, except what they left in a
\* state that it takes for complete.
THEOREM SetupRepairs == Spec => []CompleteWhenDone
<1>1. ConfigOK /\ HostOK /\ NetOK /\ PlanInv /\ PkgsInv /\ TreeInv /\ LinkInv /\ SnifferInv
        => CompleteWhenDone
  <2> SUFFICES ASSUME ConfigOK, HostOK, NetOK, PlanInv, PkgsInv, TreeInv, LinkInv, SnifferInv,
                      pc = "done", target = "none", ~failed
               PROVE  CompleteWhenDone
    BY DEF CompleteWhenDone
  <2> USE DEF CleanAt
  <2>1. plan.packages \subseteq pkgs
    BY DEF PkgsInv
  <2>2. \A r \in plan.repos : tree[plan.root][r] = "full" \/ (Cloned(r) /\ "sparse" \in scars)
    <3> SUFFICES ASSUME NEW r \in plan.repos
                 PROVE  tree[plan.root][r] = "full" \/ (Cloned(r) /\ "sparse" \in scars)
      OBVIOUS
    <3>1. r \in Repos /\ plan.root \in Roots /\ Cloned(r)
      BY DEF ConfigOK, Config, PlanInv, TreeInv
    <3>2. tree[plan.root][r] \in {"none", "bare", "full"}
      BY <3>1 DEF HostOK
    <3> QED BY <3>1, <3>2 DEF TreeInv, Cloned
  <2>3. \A r \in Linked \cap plan.repos : link[r] = plan.root \/ "moved" \in scars
    BY DEF LinkInv
  <2>4. Ebpf /\ "networking" \in plan.scopes =>
          /\ net.headers /\ ("wireshark" \in pkgs => net.caps)
          /\ net.lua = "full" \/ "lua" \in scars
          /\ net.rules \/ "rules" \in scars
    <3>1. net.lua \in {"none", "part", "full"}
      BY DEF NetOK
    <3> QED BY <3>1 DEF SnifferInv, Sniffer
  <2> QED BY <2>1, <2>2, <2>3, <2>4 DEF CompleteWhenDone
<1>2. Init => HostOK /\ NetOK
  BY DEF Init, HostOK, NetOK
<1> QED BY <1>1, <1>2, ConfigInit, ConfigStep, HostStep, NetStep, FileInit, FileStep, CompleteInit,
           PlanStep, PkgsStep, TreeStep, LinkStep, SnifferStep, PTL DEF Spec
=============================================================================
