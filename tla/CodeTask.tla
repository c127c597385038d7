------------------------------ MODULE CodeTask ------------------------------
(***************************************************************************)
(* One code task of a worker agent: the private clone its attempts share,  *)
(* the result of an attempt (_result_from) and the git references it       *)
(* returns (_attach_git), while the daemon is killed between git commands, *)
(* agents and what they left running go on committing, resetting, merging  *)
(* and checking out other branches in the clone, and people commit, merge  *)
(* and check out branches in the repository.                               *)
(*                                                                         *)
(* A branch is the set of its commits (its history); base..HEAD is the     *)
(* difference of two histories. The patch is read from the clone's HEAD,   *)
(* the branch is fetched by name: they agree as long as the agents do as   *)
(* the prompt says (runtime.py:145, "Commit your changes there").          *)
(*                                                                         *)
(* Grain: one git command, but for the three reads of Worktree.summary and *)
(* the two of write_patch. Abstracted: commit contents, uncommitted edits  *)
(* (they only change a limitation's wording), texts, the number of         *)
(* attempts and uploads that fail (module OwnerNode: for the clone, a      *)
(* failed upload ends the attempt as a kill does).                         *)
(***************************************************************************)
EXTENDS Naturals, FiniteSets

CONSTANTS
  AgentCommits,  \* commits the task's agents may make
  OtherCommits,  \* commits other people may make in the repository
  Claims,        \* bound: the statuses agents claim, "none" without a structured result
  MaxKills,      \* bound: deaths of the daemon within an attempt
  MaxSwitches,   \* bound: checkouts of an older commit in the repository
  MaxRewrites    \* bound: resets and checkouts by the agents in the clone

ASSUME CommitsAssumption ==
  IsFiniteSet(AgentCommits) /\ IsFiniteSet(OtherCommits) /\ AgentCommits \cap OtherCommits = {}
ASSUME BoundsAssumption ==
  /\ Claims \subseteq {"complete", "partial", "failed", "none"}
  /\ MaxKills \in Nat /\ MaxSwitches \in Nat /\ MaxRewrites \in Nat

Commits   == AgentCommits \cup OtherCommits
Histories == SUBSET Commits
Statuses  == {"complete", "partial", "failed"}
ResultType == [status : Statuses \cup {"none"}, branch : BOOLEAN, patch : Histories]

VARIABLES
  main,      \* history of the repository's HEAD
  imported,  \* history of the task's branch in the repository, {} if it has none
  clone,     \* "absent"; "cloning": the directory exists; "cloned": no task branch yet; "ready"
  head,      \* history of the clone's HEAD
  branch,    \* history of the task's branch in the clone
  onBranch,  \* HEAD is on the task's branch
  orphan,    \* an agent of an earlier life, or a process an agent left behind, is running
  step,      \* how far _execute has come
  base,      \* history of Worktree.base in this attempt
  claim,     \* the agent's own status, "none" without a structured result
  exitOk,    \* its process exited with 0
  body,      \* status of the result being prepared
  found,     \* commits Worktree.summary listed
  patch,     \* commits in the patch file
  result,    \* the RESULT sent, of status "none" while the task is open
  kills, switches, rewrites,
  \* history
  made,      \* commits the agents made before they were done, and did not drop again
  taken,     \* commits of the repository the agents merged, or began the task's branch with
  export     \* what was done in the clone since summary(): "clean" nothing, "grown" commits
             \* and merges only, "other" anything else, or HEAD was off the branch before

attemptVars == <<base, claim, exitOk, body, found, patch>>   \* locals of _execute
repoVars    == <<main, imported, switches>>
cloneVars   == <<clone, head, branch, onBranch, rewrites, made, taken>>
vars == <<repoVars, cloneVars, orphan, step, attemptVars, result, kills, export>>

Steps == {"idle", "cloning", "running", "exited", "summarised", "importing", "exported", "done"}

(* What the clone of this attempt holds that its base does not. *)
NewCommits == head \ base

Init ==
  /\ main = {} /\ imported = {}
  /\ clone = "absent" /\ head = {} /\ branch = {} /\ onBranch = FALSE /\ orphan = FALSE
  /\ step = "idle"
  /\ base = {} /\ claim = "none" /\ exitOk = TRUE /\ body = "failed" /\ found = {} /\ patch = {} /\ export = "other"
  /\ result = [status |-> "none", branch |-> FALSE, patch |-> {}]
  /\ kills = 0 /\ switches = 0 /\ rewrites = 0
  /\ made = {} /\ taken = {}

Finish(status, ref, commits) ==
  /\ result' = [status |-> status, branch |-> ref, patch |-> commits]
  /\ step' = "done"

-----------------------------------------------------------------------------
(* Worktree.create: rev-parse, then the clone unless its directory exists. *)

(* Mutant of Create: a resumed task is cloned anew. *)
CreateAnew ==
  /\ step = "idle"
  /\ base' = main
  /\ step' = "cloning" /\ clone' = "cloning" /\ head' = {} /\ branch' = {} /\ onBranch' = FALSE
  /\ UNCHANGED <<repoVars, rewrites, made, taken, orphan, claim, exitOk, body, found, patch, result, kills, export>>

Create ==
  /\ step = "idle"
  /\ base' = main
  /\ IF clone = "absent"
       THEN step' = "cloning" /\ clone' = "cloning"
       ELSE step' = "running" /\ UNCHANGED clone
  /\ UNCHANGED <<repoVars, head, branch, onBranch, rewrites, made, taken, orphan, claim, exitOk, body,
                 found, patch, result, kills, export>>

(* git clone --no-checkout, a process that a killed daemon leaves running. *)
CloneDone ==
  /\ clone = "cloning"
  /\ clone' = "cloned" /\ head' = main
  /\ UNCHANGED <<repoVars, branch, onBranch, rewrites, made, taken, orphan, step, attemptVars, result, kills, export>>

(* Mutant of Checkout: the branch starts where the clone's HEAD is. *)
CheckoutHead ==
  /\ step = "cloning" /\ clone = "cloned"
  /\ clone' = "ready" /\ branch' = head /\ onBranch' = TRUE /\ step' = "running"
  /\ UNCHANGED <<repoVars, head, rewrites, made, taken, orphan, attemptVars, result, kills, export>>

Checkout ==
  /\ step = "cloning" /\ clone = "cloned"
  /\ clone' = "ready" /\ head' = base /\ branch' = base /\ onBranch' = TRUE /\ step' = "running"
  /\ UNCHANGED <<repoVars, rewrites, made, taken, orphan, attemptVars, result, kills, export>>

(* A GitError of rev-parse, clone (which removes its directory) or         *)
(* checkout fails the task.                                                *)
CreateFails ==
  /\ step \in {"idle", "cloning"}
  /\ clone' = IF step = "cloning" /\ clone = "cloning" THEN "absent" ELSE clone
  /\ Finish("failed", FALSE, {})
  /\ UNCHANGED <<repoVars, head, branch, onBranch, rewrites, made, taken, orphan, attemptVars, kills, export>>

-----------------------------------------------------------------------------
(* Git in the hands of the agents, this attempt's and what earlier ones    *)
(* left running. Exporting goes on meanwhile.                              *)

InClone == (step = "running" \/ orphan) /\ clone \in {"cloned", "ready"}
Exporting == step \in {"summarised", "importing"}

(* HEAD moves to history h, and the branch it is on with it. *)
MoveHead(h) ==
  /\ head' = h /\ branch' = IF onBranch THEN h ELSE branch
  /\ UNCHANGED <<repoVars, clone, onBranch, orphan, step, attemptVars, result, kills>>

Grows    == export' = IF Exporting /\ export = "clean" THEN "grown" ELSE export
Rewrites == export' = (IF Exporting THEN "other" ELSE export) /\ made' = made \cap head'

CommitInClone(c) ==
  /\ InClone /\ c \in AgentCommits \ head
  /\ MoveHead(head \cup {c}) /\ Grows
  /\ made' = IF step \in {"idle", "running"} THEN made \cup {c} ELSE made
  /\ UNCHANGED <<rewrites, taken>>

(* A pull of what is in the repository. *)
MergeOrigin ==
  /\ InClone /\ ~(main \subseteq head)
  /\ MoveHead(head \cup main) /\ Grows
  /\ taken' = taken \cup (main \ head)
  /\ UNCHANGED <<rewrites, made>>

(* Commits are taken back; an amend is this and a commit. *)
Reset ==
  /\ InClone /\ rewrites < MaxRewrites /\ rewrites' = rewrites + 1
  /\ \E h \in SUBSET head : h # head /\ MoveHead(h)
  /\ Rewrites /\ UNCHANGED taken

(* A checkout of something else than the task's branch, ... *)
LeaveBranch ==
  /\ InClone /\ onBranch /\ rewrites < MaxRewrites /\ rewrites' = rewrites + 1
  /\ onBranch' = FALSE /\ head' \in SUBSET head
  /\ Rewrites
  /\ UNCHANGED <<repoVars, clone, branch, taken, orphan, step, attemptVars, result, kills>>

(* ... or of the task's branch, made here if it is missing. *)
TakeBranch ==
  /\ InClone /\ ~onBranch /\ onBranch' = TRUE
  /\ clone' = "ready"
  /\ IF clone = "ready"
       THEN head' = branch /\ UNCHANGED <<branch, taken>>
       ELSE branch' = head /\ taken' = taken \cup head /\ UNCHANGED head
  /\ Rewrites
  /\ UNCHANGED <<repoVars, rewrites, orphan, step, attemptVars, result, kills>>

OrphanExits ==
  /\ orphan /\ orphan' = FALSE
  /\ UNCHANGED <<repoVars, cloneVars, step, attemptVars, result, kills, export>>

-----------------------------------------------------------------------------
(* The run ends without a result to prepare: it timed out or raised, or a  *)
(* CANCEL or the agent's tools closed the task. "failed" stands for them.  *)
RunFails ==
  /\ step = "running"
  /\ Finish("failed", FALSE, {})
  /\ UNCHANGED <<repoVars, cloneVars, orphan, attemptVars, kills, export>>

(* _result_from: the agent's status, a claimed "complete" downgraded when  *)
(* its process failed; without a structured result never better than       *)
(* "partial".                                                              *)
ResultFrom(c, ok) ==
  CASE c = "none"               -> IF ok THEN "partial" ELSE "failed"
    [] c = "complete" /\ ~ok    -> "partial"
    [] OTHER                    -> c

(* Mutant of AgentExits: the claim is taken as it is. *)
AgentExitsTrusted ==
  /\ step = "running" /\ step' = "exited"
  /\ \E c \in Claims, ok \in BOOLEAN : claim' = c /\ exitOk' = ok /\ body' = c
  /\ orphan' \in {orphan, TRUE}
  /\ UNCHANGED <<repoVars, cloneVars, base, found, patch, result, kills, export>>

(* The agent's process ends; one it started may go on. *)
AgentExits ==
  /\ step = "running" /\ step' = "exited"
  /\ \E c \in Claims, ok \in BOOLEAN :
       claim' = c /\ exitOk' = ok /\ body' = ResultFrom(c, ok)
  /\ orphan' \in {orphan, TRUE}
  /\ UNCHANGED <<repoVars, cloneVars, base, found, patch, result, kills, export>>

-----------------------------------------------------------------------------
(* _attach_git *)

Summarise ==
  /\ step = "exited" /\ clone \in {"cloned", "ready"}
  /\ found' = NewCommits /\ step' = "summarised"
  /\ export' = IF onBranch THEN "clean" ELSE "other"
  /\ UNCHANGED <<repoVars, cloneVars, orphan, base, claim, exitOk, body, patch, result, kills>>

WritePatch ==
  /\ step = "summarised"
  /\ patch' = NewCommits
  /\ step' = IF found = {} THEN "exported" ELSE "importing"
  /\ UNCHANGED <<repoVars, cloneVars, orphan, base, claim, exitOk, body, found, result, kills, export>>

(* Mutant of ImportBranch: a branch the repository already has is kept. *)
ImportBranchOnce ==
  /\ step = "importing" /\ clone = "ready"
  /\ imported' = IF imported = {} THEN branch ELSE imported
  /\ step' = "exported"
  /\ UNCHANGED <<main, switches, cloneVars, orphan, attemptVars, result, kills, export>>

(* The task's branch, and only it, is fetched into the repository. *)
ImportBranch ==
  /\ step = "importing" /\ clone = "ready"
  /\ imported' = branch /\ step' = "exported"
  /\ UNCHANGED <<main, switches, cloneVars, orphan, attemptVars, result, kills, export>>

(* A GitError of any command becomes a limitation: the result is sent as   *)
(* it is, without references. A clone still being made cannot be read; one *)
(* without the task's branch has nothing to fetch.                         *)
ExportFails ==
  /\ step \in {"exited", "summarised", "importing"}
  /\ Finish(body, FALSE, {})
  /\ UNCHANGED <<repoVars, cloneVars, orphan, attemptVars, kills, export>>

(* Branch and patch are attached; "complete" needs a commit. *)
Deliver ==
  /\ step = "exported"
  /\ Finish(IF found = {} /\ body = "complete" THEN "partial" ELSE body, TRUE, patch)
  /\ UNCHANGED <<repoVars, cloneVars, orphan, attemptVars, kills, export>>

-----------------------------------------------------------------------------
(* The locals of _execute as an attempt begins. *)
Forget ==
  /\ base' = {} /\ claim' = "none" /\ exitOk' = TRUE /\ body' = "failed" /\ found' = {} /\ patch' = {}
  /\ export' = "other"

(* The daemon is killed inside an attempt; recover() will start another.   *)
(* The agent, in a session of its own, may outlive it.                     *)
Killed ==
  /\ step # "idle" /\ kills < MaxKills
  /\ kills' = kills + 1
  /\ step' = "idle" /\ Forget
  /\ orphan' \in IF step = "running" THEN {orphan, TRUE} ELSE {orphan}
  /\ UNCHANGED <<repoVars, cloneVars, result>>

(* People: a commit, a merge of the task's branch, ... *)
Commit(c) ==
  /\ c \in OtherCommits \ main
  /\ main' = main \cup {c}
  /\ UNCHANGED <<imported, switches, cloneVars, orphan, step, attemptVars, result, kills, export>>

Merge ==
  /\ ~(imported \subseteq main)
  /\ main' = main \cup imported
  /\ UNCHANGED <<imported, switches, cloneVars, orphan, step, attemptVars, result, kills, export>>

(* ... or a checkout of an older commit or another branch. *)
Switch ==
  /\ switches < MaxSwitches /\ switches' = switches + 1
  /\ \E h \in SUBSET main : h # main /\ main' = h
  /\ UNCHANGED <<imported, cloneVars, orphan, step, attemptVars, result, kills, export>>

-----------------------------------------------------------------------------
Agents == (\E c \in AgentCommits : CommitInClone(c)) \/ MergeOrigin \/ Reset \/ LeaveBranch \/ TakeBranch

(* After the result is sent nothing reads the clone or the repository.     *)
Next ==
  /\ step # "done"
  /\ \/ Create \/ CloneDone \/ Checkout \/ CreateFails
     \/ Agents \/ OrphanExits \/ RunFails \/ AgentExits
     \/ Summarise \/ WritePatch \/ ImportBranch \/ ExportFails \/ Deliver
     \/ Killed
     \/ \E c \in OtherCommits : Commit(c)
     \/ Merge \/ Switch

Spec == Init /\ [][Next]_vars

-----------------------------------------------------------------------------
(* Every variable has its type. *)
TypeOK ==
  /\ main \in Histories /\ imported \in Histories /\ head \in Histories /\ branch \in Histories
  /\ clone \in {"absent", "cloning", "cloned", "ready"} /\ step \in Steps
  /\ onBranch \in BOOLEAN /\ orphan \in BOOLEAN /\ exitOk \in BOOLEAN
  /\ base \in Histories /\ found \in Histories /\ patch \in Histories
  /\ claim \in Statuses \cup {"none"} /\ body \in Statuses
  /\ result \in ResultType
  /\ kills \in Nat /\ switches \in Nat /\ rewrites \in Nat
  /\ made \in Histories /\ taken \in Histories /\ export \in {"clean", "grown", "other"}

Sent == step = "done"

(* The daemon never upgrades a result (docs/MESSAGE_PROTOCOL.md:58): a     *)
(* task that ends "complete" was claimed complete by an agent that exited  *)
(* cleanly, and where its branch was read in peace it has a commit to show.*)
HonestResult ==
  Sent /\ result.status = "complete" =>
    claim = "complete" /\ exitOk /\ (result.branch /\ export # "other" => result.patch # {})

(* Result, patch and branch agree although each is read by a command of    *)
(* its own, from a clone that is committed to meanwhile: what summary()    *)
(* listed is in the patch (and nothing else, if nobody touched the clone), *)
(* and what is in the patch is on the branch in the repository. The one    *)
(* exception among commits and merges: the first of them comes after       *)
(* summary(), so that the patch has it and the import is skipped. An agent *)
(* that is off its branch, or takes commits back during the export, is not *)
(* covered.                                                                *)
PatchIsOnBranch ==
  Sent /\ result.branch /\ export # "other" =>
    /\ found \subseteq result.patch
    /\ result.patch \subseteq imported \/ (found = {} /\ export = "grown")
    /\ export = "clean" => found = result.patch

(* Work survives crashes (worktree.py:58: "resumed after a crash: keep the *)
(* work done so far"): what the agents of all attempts committed before    *)
(* the last one exited, and did not drop themselves, is in the patch of    *)
(* the result, unless it is in the commit the patch starts from.           *)
WorkIsDelivered == Sent /\ result.branch => made \subseteq result.patch \cup base

(* What is exported are the agents' own commits (worktree.py:9: "the new   *)
(* commits") and what they took from the repository themselves, whatever   *)
(* other people commit and merge in between; unless these took the         *)
(* repository back to an older commit, or HEAD was off the task's branch   *)
(* (as in a clone that was never checked out).                             *)
OnlyNewCommits ==
  Sent /\ switches = 0 /\ export # "other" => result.patch \subseteq AgentCommits \cup taken
=============================================================================
