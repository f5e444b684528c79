---------------------------- MODULE WorkspaceSetup ----------------------------
(***************************************************************************)
(* workspace_setup.py as the user sees it over many runs: each run merges  *)
(* the options ticked in its menu with those .configs.json remembers,      *)
(* rewrites that file, installs packages, clones, links and configures the *)
(* host; "--remove" takes an option or a repository away again.  Commands  *)
(* fail, and a run may be stopped at any step.  What happens inside one    *)
(* clone, its branch and its build, is RepoAlign.                          *)
(***************************************************************************)
EXTENDS Integers, FiniteSets

CONSTANTS
  Scopes,     \* ids of the options in the blueprint
  BaseRepos,  \* repositories every workspace has
  RepoScopes, \* options that bring a repository, named like the option
  Sparse,     \* repositories of which only some directories are checked out
  Linked,     \* repositories that verify_project_symlinks() links to
  BasePkgs,   \* packages every workspace needs
  Pkgs,       \* packages of each option
  Ebpf,       \* the host's kernel has a BPF JIT
  Roots,      \* directories the user may name for the clones
  MaxFaults,  \* bound: failing commands and stopped runs
  MaxRemoves  \* bound: removals

Repos    == BaseRepos \cup RepoScopes
Packages == BasePkgs \cup UNION {Pkgs[s] : s \in Scopes}

ASSUME SetupAssumption ==
  /\ RepoScopes \subseteq Scopes /\ "networking" \in Scopes \ RepoScopes
  /\ Sparse \subseteq Repos /\ Linked \subseteq Repos
  /\ {"all", "none"} \cap (Scopes \cup Repos) = {} /\ BaseRepos \cap Scopes = {}
  /\ Ebpf \in BOOLEAN /\ MaxFaults \in Nat /\ MaxRemoves \in Nat

VARIABLES
  file,     \* .configs.json: "none", "torn" or "ok"
  cfg,      \* what it says, or said last before it was torn
  pkgs,     \* packages on the host
  tree,     \* of each root and repository: "none", "full", or "bare", a clone
            \* whose sparse-checkout was never set
  link,     \* of each linked repository: the root its link points to, or "none"
  net,      \* the packet sniffer: kernel headers, dumpcap's capabilities, the
            \* Lua dissector, the sudoers rules and the cache of these rules
  bashrc,   \* ~/.bashrc: "none", "plain", or "set" with the xrdb line in it
  pc,       \* where the run is, "idle" between runs
  plan,     \* compiled_config, or the config_state a removal works on
  ticked,   \* selections
  target,   \* args.remove, "none" in a set-up
  todo,     \* repositories the loop has still to visit
  faults, removes,  \* what is left of the two bounds
  failed,   \* ghost: a command of this run has failed
  scars,    \* ghost: what a fault or a move has left that no later run looks at
  loose     \* ghost: options whose packages the file need not list any more

host  == <<pkgs, tree, link, net, bashrc>>
vars == <<file, cfg, host, pc, plan, ticked, target, todo, faults, removes, failed,
          scars, loose>>
run  == <<plan, ticked, target, todo>>

PkgsOf(ss) == UNION {Pkgs[s] : s \in ss}
Empty == [repos |-> {}, scopes |-> {}, packages |-> {}, root |-> "none"]

Init ==
  /\ file = "none" /\ cfg = Empty
  /\ pkgs = {} /\ tree = [d \in Roots |-> [r \in Repos |-> "none"]]
  /\ link = [r \in Linked |-> "none"]
  /\ net = [headers |-> FALSE, caps |-> FALSE, lua |-> "none", rules |-> FALSE, cache |-> FALSE]
  /\ bashrc \in {"none", "plain"}
  /\ pc = "idle" /\ plan = Empty /\ ticked = {} /\ target = "none" /\ todo = {}
  /\ faults = MaxFaults /\ removes = MaxRemoves
  /\ failed = FALSE /\ scars = {} /\ loose = {}

Goto(from, to) == pc = from /\ pc' = to
\* The process ends, and its variables with it.
Exit == /\ pc' = "idle"
        /\ plan' = Empty /\ ticked' = {} /\ target' = "none" /\ todo' = {}
Fault == faults > 0 /\ faults' = faults - 1 /\ failed' = TRUE
Fine  == UNCHANGED <<faults, failed>>
\* A step that leaves .configs.json alone.
Work  == UNCHANGED <<file, cfg, removes, loose>>

-----------------------------------------------------------------------------
(* The menu and .configs.json.                                             *)

Forget(old, ss)  == ss \ RepoScopes     \* slip: only this run's options are kept
Doubled(old, ss) == old.scopes \cup ss  \* slip: repository options are recorded twice
\* selected_scope_ids: an option that brings a repository is recorded there.
Union(old, ss) == old.scopes \cup (ss \ RepoScopes)

BaseOnly(ss) == BasePkgs   \* slip: the options' packages are forgotten
Needed(ss)   == BasePkgs \cup PkgsOf(ss)

Compile(old, ss, d) ==
  [repos    |-> BaseRepos \cup (ss \cap RepoScopes) \cup (old.repos \ BaseRepos),
   scopes   |-> Union(old, ss),
   packages |-> Needed(ss),
   root     |-> d]

\* A torn file ends the run in load_json().  The directories are asked for
\* only when there is no file.
Setup ==
  /\ Goto("idle", "write") /\ file # "torn"
  /\ \E ss \in SUBSET Scopes, d \in Roots :
       LET old == IF file = "ok" THEN cfg ELSE Empty
       IN /\ file = "ok" => d = cfg.root
          /\ ticked' = ss /\ plan' = Compile(old, ss, d)
  /\ target' = "none" /\ todo' = {} /\ failed' = FALSE
  /\ UNCHANGED <<file, cfg, host, removes, faults, scars, loose>>

\* open(..., "w") has truncated the file; json.dump() has still to fill it.
Truncate ==
  /\ Goto("write", "dump") /\ file' = "torn" /\ Fine
  /\ UNCHANGED <<cfg, host, run, removes, scars, loose>>

SharesWith(s) == {t \in Scopes : Pkgs[t] \cap Pkgs[s] # {}}

Dump ==
  /\ Goto("dump", IF target = "none" THEN "packages" ELSE "done")
  /\ file' = "ok" /\ cfg' = plan /\ Fine
  /\ loose' = IF target = "none" THEN Scopes \ ticked
              ELSE IF target \in Scopes \ RepoScopes THEN loose \cup SharesWith(target)
              ELSE loose
  /\ UNCHANGED <<host, run, removes, scars>>

-----------------------------------------------------------------------------
(* The set-up of the host.                                                 *)

\* apt: "Package alignment halted", and the run goes on.
InstallPackages ==
  /\ Goto("packages", "repos")
  /\ \/ pkgs' = pkgs \cup plan.packages /\ Fine
     \/ ~(plan.packages \subseteq pkgs) /\ UNCHANGED pkgs /\ Fault
  /\ todo' = plan.repos
  /\ UNCHANGED <<tree, link, net, bashrc, plan, ticked, target, scars>> /\ Work

Cloned(r) == tree[plan.root][r] # "none"
This == CHOOSE r \in todo : TRUE   \* the loop goes through a sorted list
Rest == todo \ {This}

\* align_repo_state() and build_repo() of the repository: see RepoAlign.
Clone ==
  LET r == This IN
  /\ pc = "repos" /\ todo # {}
  /\ IF ~Cloned(r) /\ r \in Sparse THEN pc' = "sparse" /\ UNCHANGED todo
                                   ELSE todo' = Rest /\ UNCHANGED pc
  /\ tree' = IF Cloned(r) THEN tree
             ELSE [tree EXCEPT ![plan.root][r] = IF r \in Sparse THEN "bare" ELSE "full"]
  /\ Fine
  /\ UNCHANGED <<pkgs, link, net, bashrc, plan, ticked, target, scars>> /\ Work

\* The message of a failed clone names `repo`, which only the loops over the
\* options have bound: without one the handler itself raises.
CloneFails ==
  /\ pc = "repos" /\ todo # {} /\ ~Cloned(This) /\ Fault
  /\ IF ticked # {} \/ plan.repos # BaseRepos
     THEN todo' = Rest /\ UNCHANGED <<pc, plan, ticked, target>>
     ELSE Exit
  /\ UNCHANGED <<host, scars>> /\ Work

\* git sparse-checkout set: its failure ends the run, and the next one finds
\* a clone.
SparseSet ==
  /\ \/ /\ Goto("sparse", "repos") /\ Fine
        /\ tree' = [tree EXCEPT ![plan.root][This] = "full"] /\ todo' = Rest
        /\ UNCHANGED <<plan, ticked, target, scars>>
     \/ /\ pc = "sparse" /\ Exit /\ Fault
        /\ scars' = scars \cup {"sparse"} /\ UNCHANGED tree
  /\ UNCHANGED <<pkgs, link, net, bashrc>> /\ Work

Unlinked(r) == link[r] = "none"

\* A link that exists is left alone, wherever it points.
VerifySymlinks ==
  /\ Goto("links", IF Ebpf /\ "networking" \in plan.scopes THEN "headers" ELSE "x11")
  /\ link' = [r \in Linked |-> IF r \in plan.repos /\ Cloned(r) /\ Unlinked(r)
                               THEN plan.root ELSE link[r]]
  /\ Fine /\ UNCHANGED <<pkgs, tree, net, bashrc, run, scars>> /\ Work

ReposDone ==
  /\ Goto("repos", "links") /\ todo = {} /\ Fine
  /\ UNCHANGED <<host, run, scars>> /\ Work

-----------------------------------------------------------------------------
(* The packet sniffer, the X resources.                                    *)

\* A command that fails here ends the run, except the first apt of a
\* distribution kernel, which has a fallback.
Headers ==
  /\ pc = "headers"
  /\ \/ pc' = "wireshark" /\ net' = [net EXCEPT !.headers = TRUE] /\ Fine /\ UNCHANGED run
     \/ ~net.headers /\ Exit /\ UNCHANGED net /\ Fault
  /\ UNCHANGED <<pkgs, tree, link, bashrc, scars>> /\ Work

\* Without dumpcap on the host there is nothing to give capabilities to.
Wireshark ==
  /\ Goto("wireshark", "lua")
  /\ \/ net' = [net EXCEPT !.caps = @ \/ "wireshark" \in pkgs] /\ Fine
     \/ ~net.caps /\ UNCHANGED net /\ Fault
  /\ UNCHANGED <<pkgs, tree, link, bashrc, run, scars>> /\ Work

\* shutil.copy2(): a dissector that is there is left alone; one that fails
\* or is stopped half-way stays behind.
Dissector ==
  /\ pc = "lua"
  /\ \/ /\ pc' = "sudoers" /\ Fine /\ UNCHANGED <<run, scars>>
        /\ net' = [net EXCEPT !.lua = IF @ = "none" THEN "full" ELSE @]
     \/ /\ net.lua = "none" /\ (Exit \/ (pc' = "sudoers" /\ UNCHANGED run)) /\ Fault
        /\ net' = [net EXCEPT !.lua = "part"] /\ scars' = scars \cup {"lua"}
  /\ UNCHANGED <<pkgs, tree, link, bashrc>> /\ Work

\* The rules are configured when the cache has them.
Sudoers ==
  /\ pc = "sudoers"
  /\ pc' = IF net.cache THEN "x11" ELSE "visudo"
  /\ net' = [net EXCEPT !.cache = TRUE] /\ Fine
  /\ UNCHANGED <<pkgs, tree, link, bashrc, run, scars>> /\ Work

KeepCache == net   \* slip: rules that visudo has refused stay in the cache
DropCache == [net EXCEPT !.cache = FALSE]

Visudo ==
  /\ pc = "visudo"
  /\ \/ pc' = "cp" /\ UNCHANGED net /\ Fine
     \/ pc' = "x11" /\ net' = DropCache /\ Fault
  /\ UNCHANGED <<pkgs, tree, link, bashrc, run, scars>> /\ Work

\* sudo cp, chown, chmod
CopyRules ==
  /\ Goto("cp", "x11")
  /\ \/ net' = [net EXCEPT !.rules = TRUE] /\ Fine /\ UNCHANGED scars
     \/ UNCHANGED net /\ Fault /\ scars' = scars \cup {"rules"}
  /\ UNCHANGED <<pkgs, tree, link, bashrc, run>> /\ Work

NeedsX11(c) == c.scopes \cap {"networking", "debug"} # {}

HasXrdb     == "x11-xserver-utils" \in pkgs
NotYet      == bashrc   \* slip: the line is appended once xrdb has run
LineAppended == "set"

\* Without a .bashrc `content` is unbound; without xrdb, which is called once
\* the line is there, the call raises.  Nothing catches either.
X11Resources ==
  /\ pc = "x11"
  /\ IF ~NeedsX11(plan) \/ bashrc = "set" THEN pc' = "done" /\ UNCHANGED <<bashrc, run>>
     ELSE \/ bashrc = "none" /\ Exit /\ UNCHANGED bashrc
          \/ bashrc = "plain" /\ ~HasXrdb /\ Exit /\ bashrc' = LineAppended
          \/ bashrc = "plain" /\ HasXrdb /\ pc' = "done" /\ bashrc' = "set" /\ UNCHANGED run
  /\ Fine /\ UNCHANGED <<pkgs, tree, link, net, scars>> /\ Work

\* setup_kvm_permissions() and the last message: "Setup completed".
Done ==
  /\ pc = "done" /\ Exit /\ failed' = FALSE
  /\ UNCHANGED <<host, faults, scars>> /\ Work

-----------------------------------------------------------------------------
(* remove_components()                                                     *)

Remove ==
  /\ Goto("idle", "purge") /\ file = "ok" /\ removes > 0 /\ removes' = removes - 1
  /\ target' \in {"all"} \cup cfg.repos \cup cfg.scopes
  /\ plan' = cfg /\ ticked' = {} /\ todo' = {} /\ failed' = FALSE
  /\ UNCHANGED <<file, cfg, host, faults, scars, loose>>

\* The options removed are those of selected_scopes: never one that brings a
\* repository, whose packages stay.
GoneScopes == IF target = "all" THEN plan.scopes ELSE plan.scopes \cap {target}
GoneRepos  == IF target = "all" THEN plan.repos ELSE plan.repos \cap {target}

Purge ==
  /\ Goto("purge", "rmtree")
  /\ \/ /\ pkgs' = pkgs \ PkgsOf(GoneScopes) /\ Fine
        /\ net' = [net EXCEPT !.caps = @ /\ "wireshark" \in pkgs']
     \/ UNCHANGED <<pkgs, net>> /\ Fault
  /\ UNCHANGED <<tree, link, bashrc, run, scars>> /\ Work

Rmtree ==
  /\ Goto("rmtree", "update")
  /\ \/ /\ tree' = [tree EXCEPT ![plan.root] =
                      [r \in Repos |-> IF r \in GoneRepos THEN "none" ELSE @[r]]]
        /\ Fine
     \/ UNCHANGED tree /\ Fault
  /\ UNCHANGED <<pkgs, link, net, bashrc, run, scars>> /\ Work

\* list.remove() raises for a package the file does not list, and the file
\* stays as it was.
Update ==
  /\ pc = "update" /\ Fine
  /\ IF target = "all"
     THEN /\ pc' = "done" /\ file' = "none" /\ scars' = scars \cup {"moved"}
          /\ cfg' = Empty /\ loose' = {} /\ UNCHANGED run
     ELSE IF PkgsOf(GoneScopes) \subseteq plan.packages
     THEN /\ pc' = "write" /\ UNCHANGED <<file, cfg, ticked, target, todo, loose, scars>>
          /\ plan' = [plan EXCEPT !.scopes = @ \ GoneScopes, !.repos = @ \ GoneRepos,
                                  !.packages = @ \ PkgsOf(GoneScopes)]
     ELSE Exit /\ UNCHANGED <<file, cfg, loose, scars>>
  /\ UNCHANGED <<host, removes>>

-----------------------------------------------------------------------------
\* Ctrl-C, or an exception nothing catches.
Stop ==
  /\ pc \notin {"idle", "done"} /\ Fault
  /\ Exit
  /\ scars' = scars \cup CASE pc = "sparse" -> {"sparse"}
                           [] pc \in {"visudo", "cp"} -> {"rules"}
                           [] OTHER -> {}
  /\ UNCHANGED host /\ Work

\* What is left to the user whose .configs.json does not parse.
DeleteConfig ==
  /\ pc = "idle" /\ file = "torn"
  /\ file' = "none" /\ cfg' = Empty /\ loose' = {} /\ scars' = scars \cup {"moved"}
  /\ UNCHANGED <<host, pc, run, removes, faults, failed>>

Step ==
  \/ Truncate \/ Dump \/ InstallPackages \/ ReposDone \/ SparseSet
  \/ Clone \/ CloneFails
  \/ VerifySymlinks \/ Headers \/ Wireshark \/ Dissector
  \/ Sudoers \/ Visudo \/ CopyRules \/ X11Resources \/ Done
  \/ Purge \/ Rmtree \/ Update

Next == Setup \/ Remove \/ Step \/ Stop \/ DeleteConfig

Spec == Init /\ [][Next]_vars
\* A run that has begun goes on, and the user sets up again and again.
FairSpec == Spec /\ WF_vars(Step) /\ WF_vars(Setup)

-----------------------------------------------------------------------------
Config == [repos : SUBSET Repos, scopes : SUBSET (Scopes \ RepoScopes),
           packages : SUBSET Packages, root : Roots \cup {"none"}]

TypeOK ==
  /\ file \in {"none", "torn", "ok"} /\ cfg \in Config /\ plan \in Config
  /\ pkgs \subseteq Packages
  /\ tree \in [Roots -> [Repos -> {"none", "bare", "full"}]]
  /\ link \in [Linked -> Roots \cup {"none"}]
  /\ net \in [headers : BOOLEAN, caps : BOOLEAN, lua : {"none", "part", "full"},
              rules : BOOLEAN, cache : BOOLEAN]
  /\ bashrc \in {"none", "plain", "set"}
  /\ pc \in {"idle", "write", "dump", "packages", "repos", "sparse", "links", "headers",
             "wireshark", "lua", "sudoers", "visudo", "cp", "x11", "done", "purge",
             "rmtree", "update"}
  /\ ticked \subseteq Scopes /\ target \in {"none", "all"} \cup Scopes \cup Repos
  /\ todo \subseteq Repos
  /\ faults \in 0..MaxFaults /\ removes \in 0..MaxRemoves /\ failed \in BOOLEAN
  /\ scars \subseteq {"sparse", "lua", "rules", "moved"} /\ loose \subseteq Scopes

(* A set-up that ends without a failing command has repaired what earlier  *)
(* runs left undone: every listed package and clone is there, every link   *)
(* points into the root, and the sniffer is ready.  What it does not see   *)
(* is a sparse-checkout, a dissector or sudoers rules cut short earlier,   *)
(* and links into the root of a workspace given up.                        *)
CompleteWhenDone ==
  pc = "done" /\ target = "none" /\ ~failed =>
    /\ plan.packages \subseteq pkgs
    /\ \A r \in plan.repos : tree[plan.root][r] = "full" \/ (Cloned(r) /\ "sparse" \in scars)
    /\ \A r \in Linked \cap plan.repos : link[r] = plan.root \/ "moved" \in scars
    /\ Ebpf /\ "networking" \in plan.scopes =>
         /\ net.headers /\ ("wireshark" \in pkgs => net.caps)
         /\ net.lua = "full" \/ "lua" \in scars
         /\ net.rules \/ "rules" \in scars

(* The options in .configs.json can be removed: the file lists all their   *)
(* packages, so list.remove() does not raise.  Exceptions are an option    *)
(* that was kept although unticked in the last set-up, and one that shares *)
(* a package with an option removed since.                                 *)
RemovableOptions ==
  file = "ok" => \A s \in cfg.scopes \ loose : Pkgs[s] \subseteq cfg.packages

(* An option the file records is there until a removal takes it out: no    *)
(* set-up, whatever is ticked in it, forgets one.                          *)
OptionsKept ==
  [][ file = "torn" /\ file' = "ok" /\ target = "none" =>
        cfg.scopes \subseteq cfg'.scopes /\ cfg.repos \subseteq cfg'.repos ]_vars

(* Once commands stop failing, set-ups reach "Setup completed" again and   *)
(* again, whatever is ticked and whatever is missing on the host: an error *)
(* that ends one, like that of a missing xrdb, does not end all of them.   *)
(* Two do: a file that a run has left torn, and a missing .bashrc.         *)
SetupCompletes ==
  []<>( \/ pc = "done" /\ target = "none"
        \/ pc = "idle" /\ file = "torn"
        \/ bashrc = "none" )

(* What the code says and does not keep.  "... removed from host system",  *)
(* the last word of a removal: one in which no command fails takes its     *)
(* target out of .configs.json.                                            *)
RemovalRecorded ==
  [][ target \notin {"none", "all"} /\ pc' = "idle" /\ ~failed' =>
        target \notin cfg'.scopes \cup cfg'.repos ]_vars

(* "Sudoers rules ... already configured": then they are in sudoers.d.     *)
AlreadyConfigured == pc = "sudoers" /\ net.cache => net.rules
=============================================================================
