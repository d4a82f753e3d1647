# skuare: specifications, model checking and proofs

skuare is a registry of *skills* (directories with a `SKILL.md`) and of
`AGENTS.md` files, each published under an identifier and a version. It has two
programs: `skuare-svc`, an HTTP service in Go that keeps the registry on a file
system, and `skuare-cli` (`skr`), a TypeScript command that publishes, installs
and removes, either through the service or through a Git repository used as a
registry. This directory holds TLA+ models of the parts in which order,
concurrency and failure matter, the TLC configurations that check them, and
TLAPS proofs about them.

## Inventory

| Component (source) | State | Operations | What makes it hard | What makes it correct |
|---|---|---|---|---|
| Skill store (`skuare-svc/internal/store/fs_store.go`) | `<author>/<skill>/<version>/` directories, `.bak-*` and `.tmp-*` siblings, `.skuare/index.json`, one lock file per skill | Create, Delete, Validate, Reindex, GetVersion, List, GetSkill | the lock is per skill and the index is shared; readers and Reindex take no lock; a replacement is two renames; every call can fail half way; the process can stop | a published version is replaced only on request, never lost, has one home; the index can be rebuilt; every call is answered |
| AgentsMD store (same file) | `agentsmd/<id>/<version>/` with `AGENTS.md` and `meta.json` | CreateAgentsMD, ListAgentsMD, GetAgentsMD, GetAgentsMDVersion, DeleteAgentsMD | no lock, no staging: check, make, write, write | the first creation wins, a version is whole or absent once nobody works on it |
| HTTP routes (`internal/http/handler.go`, `error.go`) | none | one handler per route; migrate export and import | export reads a list and then each item; import is a sequence of creations | an import never overwrites and a repeated import converges |
| Request authorisation (`internal/authz`) | the nonces seen and when they expire | Verify, claimNonce | a request delivered twice or retried; clocks | a delivery is accepted at most once while its time stamp is acceptable |
| Git registry (`skuare-cli/src/registry/git_backend.ts`) | a checkout per machine with its branch, its files and the time of its last refresh; the remote branch | refresh, publish, delete, import, export, list, get for skills and AGENTS.md | stale checkouts, refused pulls and pushes, interrupted commands, left-over files, processes sharing a checkout | success means published; nothing published is overwritten unasked; a write starts from what the remote holds |
| HTTP registry client (`registry/http_backend.ts`, `http/client.ts`) | none | one HTTP call per method | mapping of replies | the reply of the service is passed on unchanged |
| Publish, update, delete (`commands/write.ts`, `utils/versioning.ts`, `utils/skill_manifest.ts`) | the skill directories people work in: `SKILL.md`, `skill-deps.json`, `skill-deps.lock.json` | format, build, publish with dependencies, update, delete | two dependency files written one after the other and read by different commands; dependencies uploaded one by one, answers lost, other people publishing meanwhile | what is published can be installed; success means published; an update only raises the version |
| Install, remove, deps (`commands/query.ts`) | `.{tool}/skills/*` with wrap metadata and symbolic links; the graph being resolved | select a skill, resolve dependencies, get, deps, remove | ambiguous references; cycles, diamonds and version conflicts in a graph read while it is walked; targets compared first and written later; commands that stop half-way or overlap | a graph is accepted exactly when it can be installed; an install holds all of it; nothing is overwritten unasked; a dependency stays as long as something needs it |
| Migration command (`commands/remote_migrate.ts`) | none | export, plan, import | two registries change meanwhile | nothing is overwritten |
| CLI configuration and remote sources (`config/*.ts`, `commands/init.ts`, `commands/remote_source.ts`) | configuration files from the directory of the command up to the home directory | resolve, init, source add, remove, select | a file is read, changed and written back whole without a lock; the file written and the file read next are found by different rules | sources stay in the file they were added to; a default names a source; a selection takes effect |
| Validation, upload parsing, prompts, formatting, start-up, launchers | none of their own | parsing and printing | none: sequential, one input at a time | covered by the repository's unit tests |

How they interact: the CLI calls a backend (HTTP or Git) chosen from the server
URL. The HTTP backend calls the service, whose handlers call the store from as
many goroutines as there are requests; another process may serve the same
directory. The store's calls share the file system and nothing else. CLI
processes on one machine share the Git checkout; machines share the remote
repository; the only exclusion is the store's lock per skill and Git's refusal
of a push that is not a fast-forward.

`PROJECT.json` lists all components with their files, and every hazard with its
line and the properties aimed at it.

## Modules

| Module | Models | Kind |
|---|---|---|
| `FSStore` | the skill store, one file-system call per action | detailed model, properties |
| `Registry` | what the store promises to writers: a map that each call changes at one instant | abstract specification |
| `FSStoreRefines` | the mapping from `FSStore` to `Registry` | refinement |
| `MCFSStore` | requests and symmetry for TLC | instances |
| `FSStoreProofs` | theorems about `FSStore`: what the disk holds | proofs |
| `FSStoreRefinesProofs` | that `FSStore` implements `Registry` | proofs |
| `FSStoreIndexProofs` | theorems about `FSStore`: reads, Reindex and the index | proofs |
| `GitRegistry` | the Git registry: machines, checkouts, processes, the remote | detailed model, properties |
| `GitRegistryProofs` | theorems about `GitRegistry` | proofs |
| `MCGitRegistry` | requests, machines and symmetry for TLC | instances |
| `DependencyGraph` | dependency resolution and `collectSubtree`, one call or fetch per action | detailed model, properties |
| `DependencyGraphProofs` | theorems about `DependencyGraph` | proofs |
| `SkillSelection` | how a reference or pattern selects skills: in the registry's list, a graph, the installed skills | operators |
| `LocalInstall` | get, `deps --install` and remove on the tools' directories; extends `SkillSelection` and takes the plans `DependencyGraph` finds as a constant | detailed model, properties |
| `LocalInstallProofs` | theorems about `LocalInstall` | proofs |
| `VersionOrder` | `utils/versioning.ts`: comparing versions and proposing the next | operators |
| `SkillWorkspace` | format and build in a person's directories; extends `VersionOrder` | detailed model, properties |
| `Publishing` | publish, update and delete against a registry; extends `SkillWorkspace`, and takes each request of the service as one step, as `FSStoreRefines` shows of the store | detailed model, properties |
| `PublishingProofs` | theorems about `VersionOrder`, `SkillWorkspace` and `Publishing` | proofs |
| `ConfigSources` | configuration files, resolution, remote sources and init | detailed model, properties |
| `ConfigSourcesProofs` | theorems about `ConfigSources` | proofs |
| `MCDependencyGraph`, `MCLocalInstall`, `MCPublishing`, `MCConfigSources` | data and symmetry for TLC | instances |

### FSStore

State and code: `live` is what each version directory holds, `bak` the
`.bak-<time>` directories, `parents` the `<author>/<skill>` directories, `index`
and `idxTmp` the files `index.json` and `index.json.tmp` (a set of entries, or
`Corrupt` when `json.Unmarshal` would reject the text), `fd` where the index
file a worker has open is linked now (a rename moves an open file), `lock` the
owners of the lock files. A worker is one request being served; its local
variables are `req`, `home` (`existingDir` or `versionDir`), `saved`, `snap`
(the index in memory) and `todo` (directory listings still to visit). `kept` and
`touched` are history variables that only the properties read.

Actions: Create is `Acquire, CreateFind, Stage, Backup, Install` (or
`InstallBlocked, Restore`), `Discard`, then `ReadIndex, OpenTmp, WriteTmp,
RenameIndex`; Delete is `Acquire, DeleteFind, RemoveFiles, RemoveDir`, the same
index steps and `DeleteCleanup`; Reindex is `ReindexRoot` followed by
`ReindexAuthor/Skill/Version` as long as something is listed, `ReindexWrite` and
the last three index steps; GetVersion is `GetIndex, ReadFirst, ReadRest`;
Validate is `FindRoot, Probe, ReadMD`. `Reply` answers and runs the deferred
unlock. `Fail` is an error of the file-system call the worker is about to make,
with the handler's reaction to it; `Crash` stops every request and releases the
locks, files stay.

Under a lock, `findSkillVersionDir` is one action, because no other holder can
move that version; Validate searches without the lock, so each author's
directory is a step of its own. Two writers of `index.json.tmp` may leave a mix
of their texts: the outcome is either text or `Corrupt`.

Abstracted: contents are model values, staging directories are not kept (no
reader looks at them), cleaning of empty parents may or may not succeed (its
errors are swallowed), an author directory that `findSkillVersionDir` skips
(a name with a leading dot, or `agentsmd`) is a member of `Hidden`. List and
GetSkill read the index in one step, as `GetIndex` does.

### GitRegistry

State and code: `remote` and `head[m]` are branches (sequences of commits),
`work[m]` the files of machine m's checkout, `stamped[m]` whether
`.skuare-git-cache.json` differs from the committed one. A process runs on the
machine `CheckoutOf` gives it. `asked` and `promised` are history variables.

Actions: `Clone` and `Refresh` are `create` and `refresh`; `CheckSkill`,
`CheckAgentsMD`, `CheckDelete`, `RemoveOld`, `WriteFirst`, `WriteRest` change
the files of one version; `ImportItem` and `ImportDone` are `importResources`;
`CommitAll`, `Push`, `Stamp` are `commitAndPush`; `Read` answers from the
checkout. Git itself is external and modelled from how it is used: a pull goes
through only as a fast-forward that touches no locally changed file
(`CanPull`), a push only as a fast-forward (`Accepts`). `Edit` is a person
pushing with git. `Fail` and `Kill` are failing and interrupted commands; a
command that stops leaves the checkout as it is. Whether a read finds the cache
younger than the TTL is a free choice, and so is whether a read of a version of
which only some files are written finds its Markdown file. An import lists its
skills before its AGENTS.md (`Bundle`), as `importResources` takes them. The
author's directory of a version is left out, and so are export and list, which
only read.

### DependencyGraph

State and code: `deps` is what was read of each skill version, `loaded` the map
of fetched dependencies, `order` the keys of `graph.nodes`, `version` is
`versionsBySkillID`, `completed` the set of that name, `stack` the recursion of
`visit` (its keys are `active` and the array `stack`, its numbers the loop over
the dependencies), `trail` and `out` the recursion and the result of
`collectSubtree`. The registry's answers are chosen when they are fetched, so
every graph the constants allow is met.

Actions: `LoadRoot`, `Fetch` (and their failures) read; `Conflict`,
`AlreadyCompleted`, `Cycle` and `Descend` are the four ways through `visit`,
`Return` its end; `Collect`, `WalkInto`, `WalkOver` and `WalkBack` are
`collectSubtree` from any node. A node's name and version are the ones it was
asked for; the code takes them from the answer, which the service makes the same.

### SkillSelection and LocalInstall

A reference is a record of author, name and version; `Answers` is
`matchesSkillSelectorCandidate`. `Chosen` and `ChosenSets` are what the
selectors in `ui/selectors.ts` may return: any row when there is a terminal, the
first in the order of the text `id@version` when there is none. `LocalInstall`
keeps `dir`, the version each file of each skill directory comes from (`None`:
no file, `Torn`: truncated and not written), `link`, the directories that are
symbolic links, and `job`, the command each process runs with its local
variables. `before`, `wrote` and `disturbed` are history. `writeFile` truncates
and then writes from the start: of two processes that both truncated one file, a
shorter text written last leaves the end of the longer one behind (`Mix[v]`,
`Written`). `unlinked` are the processes whose open file another one has removed;
what they write is lost.

Actions: `Begin` selects the skill and finds the plan; `Scan` and `Compare` are
the preview of one target each, in any order, as the previews run concurrently;
`Confirm` is the question; `Truncate` and `Fill` are one `writeFile`; `Link` is
`ensureSkillSymlink`; `LoadRoot` starts `deps --install`; `Select`,
`PlanRemoval`, `RemoveFile` and `SkillRemoved` are remove, a file at a time.
`Breaks` is a failing file operation or a kill between any two of them.

Abstracted: a skill directory has three files (`SKILL.md`, its dependency file,
the wrap metadata) that stand for all others; `--wrap` and `--slink` given
together are left out; a file cut off inside its text counts as torn; the two
dependency files are one here (`DependencyGraph` and `Publishing` tell them
apart); the registry does not change during the run; a torn `SKILL.md` that a
wrap file vouches for keeps the name it had; directories of tools are already
resolved (workspace, global and configured ones differ only in the path).

### VersionOrder, SkillWorkspace, Publishing

A version is the sequence of tokens `tokenizeVersion` cuts it into: numbers, and
texts with the digits they end in. A number is a JavaScript `Number`: `Numbers`
and `NextNumber` give it 2^53 (`Exact`), from where not every whole number is one
and adding one changes nothing or skips to the next, and 10^21 (`Printed`), below
which it is written without an exponent. `md`, `plain` and `lock` are the version in
each person's `SKILL.md` and the entries of the two dependency files; `registry`
holds for each published version what an installer would read of its
dependencies, `ever` what was ever published, `job` each person's command with
the recursion of `uploadOneDependency` as a stack.

Actions: `Format`, `InitTemplate`, `Build`, `WritePlain`, `WriteLock`,
`BuildBreaks` in the workspace; `Publish`, `Visit`, `Upload`, `UploadFails`;
`Update`, `LoadRemoteSkill`, `Choose`; `Delete`. `UploadFails` is a lost request,
a lost answer or an error of the server: the version may be stored or not.

Abstracted: a version ends in a letter or digit, a word has no digits but at its
end and there at most 15 (`MaxDigits`), which a `Number` counts exactly; texts
with the same tokens (`RC9` and `rc-9`, `01` and `1`) are one version, while a
registry tells them apart; the directory's name and the `name` in `SKILL.md` are
the same;
authors are left out; publishing several directories is several publishes; a
request body given as a JSON file, which uploads no dependencies, is left out.

### ConfigSources

`files` are the configuration files, `Lookup` the paths searched from a
directory upwards; a configuration is its default source, its sources and other
fields, which stand for mode, address, keys and tools. A file may also be
`Truncated`, or `Torn`: a part of a text or, when two commands truncated it before
either wrote, the shorter text with the end of the longer one (`Written`). `added`,
`borrowed` and `spoiled` are history. `Start` is `main` with `resolveConfig`; `LoadGlobal`, `LoadTarget`
and `Edit` are the reads of a command, which may be far apart, `Truncate` and
`Persist` one `writeConfig`, `Break` a failing write or a kill.

Abstracted: whether an answer given to init is acceptable; tool directories; the
command's output. `added` records the file an add writes, so a workspace add
whose nearest file is the global one counts as an addition there; lost updates
between two terminals are modelled and no property forbids them.

## Runs

In the runs of `FSStore` and `GitRegistry`, `Finished` is the stuttering step of
clients with nothing left to ask, and deadlock is checked. The command-line
models stop when their bounded number of commands is used up and say so with
`CHECK_DEADLOCK FALSE`.

| Run | Instance | Shows |
|---|---|---|
| `fs_store` | 2 workers, 2 skills, 1 version, 2 authors and a hidden one, 4 calls, 1 fault, 1 crash | `TypeOK`, `OneHome`, `NeverLost`, `FailedSwapRestores`, `ReindexRepairs`, `PublishedIsImmutable` hold |
| `fs_store_one_skill` | 2 workers, 1 skill, 2 authors, 3 calls with reads, 2 faults, 1 crash, fairness | `ImplementsRegistry`, `EveryCallIsAnswered`, `IndexMatchesDisk`, `UndisturbedReadsAreExact` hold |
| `fs_store_two_writers` | two Creates of two skills | `IndexMatchesDisk` is violated: one index entry is lost |
| `fs_store_crash` | one crash, no other fault | `RepairAfterCrash` is violated: a version survives only in its `.bak` directory and Reindex does not bring it back |
| `git_registry` | 2 machines with a process each, a skill and an AGENTS.md, 3 calls, 1 commit by hand, 1 failure or interrupt | `TypeOK`, `AnsweredIsPublished`, `RemoteIsImmutable` hold |
| `git_registry_two_machines` | the same, publishes only, no failure | `WritesStartFromRemote` is violated: the committed refresh-time file blocks every pull |
| `git_registry_import` | one process, a skill imported before an AGENTS.md that conflicts | `ImportedIsPublished` is violated: the import repeated with skip-existing takes the skill left in the checkout for unchanged and reports success |
| `dependency_graph` | 4 skills, one with 2 versions, lists of up to 2 dependencies with repetitions and the root itself, lock and plain files | `TypeOK`, `AcceptedIsAcyclic`, `GraphIsClosure`, `RefusalIsReal`, `SubtreeIsComplete`, and `ResolutionEnds` under fairness |
| `local_install` | 4 skills with 2 versions, 2 targets, 3 tools, 2 processes, 3 commands of 13 kinds, 1 break | `TypeOK`, `InstalledIsComplete`, `ActsOnWhatWasAsked`, `RefusedChangesNothing`, `RemovesWhatNothingNeeds`, `OverwritesAreConfirmed` hold |
| `local_install_links` | one process, 2 targets, a linked skill | `NoSilentOverwrite` is violated: a copy goes through the link unasked |
| `publishing` | 2 people, 2 skills, 3 typed versions and those proposed from them, one carrying and one too large to count up, 2 edits, 1 build, 1 broken build, 2 commands, 1 lost answer | `TypeOK`, `FilesAgree`, `PublishedIsInstallable`, `SuccessIsComplete`, `UpdatesGoForward` hold |
| `config_sources` | 2 terminals, 2 nested directories and the home directory, 2 sources, 1 setting, a break | `TypeOK`, `UnparsableIsExplained`, `SourcesWereAddedThere`, `DanglingIsExplained`, `SelectTakesEffect` hold |

Bounds. A violation of the store's properties needs two calls that overlap and
one that comes after them, plus one that sets the scene: four calls on two
workers contain create, force and delete, then Reindex or a second author. Two
authors are the least for a version to move; the hidden one is needed for the
failing second rename without a disk error. One fault and one crash per
behaviour meet every step; `FailedSwapRestores` and `ReindexRepairs` say
themselves how many faults they bear. A second fault and a crash in
`fs_store_one_skill` are the least that make `Registry` lose a version that was
being replaced (`broken`). In `git_registry`, three calls on two
machines let one checkout fall behind, write, and try again.

In `dependency_graph`, five keys are the least for a diamond with a conflict
below it, and lists of two make every repeated, crossing and cyclic order of
visits among them. In `local_install` the longest scenario the properties speak
of is install, break, repair or remove, so three commands; app, lib, base and
tool form a diamond whose bottom is shared, at versions with different
dependencies, and lib and tool answer to one name. In `publishing` one command
per person, or two of one, with a build and a break before or between, contain a
publish that fails and its retry, two racing updates, and an update after a
delete; `rc9` is the version whose successor carries, and `1.16`, with `Exact` 16
and `Printed` 64 in place of 2^53 and 10^21, the one that is its own. In `config_sources` a
nested directory, its project and the home directory contain every relation of
the file written to the file read next.

Fairness. `DependencyGraph`'s `Spec` asks weak fairness of its next step: it is
one sequential program, and each fetch answers or fails (`callApi` turns every
outcome of `fetch` into a result or an error). `FairSpec` asks weak fairness of each worker's steps: a goroutine that
can take a step takes it in the end, and file-system calls return. It asks
nothing of faults, crashes or new calls. Weak fairness is enough for the lock
because the number of calls is bounded, so a waiting worker meets the lock free
for good in the end; `flock` itself promises no order.

## What is proved

### FSStore

For all sets of skills, versions, authors, contents, workers and requests and
for all bounds, under `RequestsAssumption`, `HiddenAssumption`,
`SentinelAssumption`, `BoundAssumption` and, for the refinement,
`NoCallAssumption` (requests are well formed, the sentinels are none of the
values they stand apart from, bounds are naturals):

| Theorem | States |
|---|---|
| `FSStoreProofs!TypeSafety` | `Spec => []TypeOK` |
| `FSStoreProofs!OneHomeTheorem` | `Spec => []OneHome` |
| `FSStoreProofs!NeverLostTheorem` | `Spec => []NeverLost` |
| `FSStoreProofs!FailedSwapTheorem` | `Spec => []FailedSwapRestores` |
| `FSStoreProofs!Immutability` | `Spec => PublishedIsImmutable` |
| `FSStoreRefinesProofs!RefinementTheorem` | `NoHiddenCreates` implies `Spec => ImplementsRegistry` |
| `FSStoreIndexProofs!UndisturbedReadsTheorem` | `Spec => []UndisturbedReadsAreExact` |
| `FSStoreIndexProofs!ReindexTheorem` | `Spec => []ReindexRepairs` |
| `FSStoreIndexProofs!IndexTheorem` | `OneSkill`, `NoReindex` and `NoHiddenCreates` imply `Spec => []IndexMatchesDisk` |

The argument. `OneHome` and `NeverLost` are not inductive: whether a step of
Create keeps them depends on what its worker found earlier and on nobody having
changed it since. The inductive invariant adds three parts. `Local` says what a
worker's variables are at each step (a worker past `find` has a request of
create or delete, and so on). `Held` says that a worker between `find` and its
reply owns its skill's lock, from which lemma `Exclusive` follows: no two
workers are in the critical section of one skill. `Swap` says what the visible
directories of a worker's version look like at each of its steps: until the old
version is moved or removed no author but `home[w]` has one; between the two
renames no author has one; after the second the target holds what was last
published (`kept`); a Delete that has begun to remove files has given the
version up. Lemma `DiskSteps` lists the
steps that touch a directory; every other step keeps the disk parts at once. The
invariant was checked with TLC before it was proved.

The refinement. `Registry` changes at one instant per call: at the rename that
puts the new directory in place, at the first removed file of a Delete, at the
removed directory. Between the two renames of a replacement `RegOf` reads the
version from the `saved` of the worker that moved it, which is unique because it
holds the lock. `Simulation` maps every step of a worker to `Put`, `Damage`,
`Remove`, `Refuse`, a step of the call alone, or no change. `Writing` adds what
the mapping needs: which labels a writer can have, that only a forced Create
moves a directory, and that an undoing rename follows a fault. Only when that
rename fails too, or at a crash, is a version lost, which `Registry` allows once
`broken` is true. `NoHiddenCreates` is a hypothesis because a Create for an
author whose directory `findSkillVersionDir` skips (a leading dot, `agentsmd`) is
answered with success and found by nobody: it implements no map. The identifiers
the service accepts do not exclude such authors.

The index. `UndisturbedReadsAreExact` follows from `Reading`: while no writer of
the version came in between (`touched`), what a reader saw is what the
directories hold, in the order it visits them. `ReindexRepairs` follows from
`Repairing`: a listing that runs alone has collected each visible version or
still has its directory, its skill or its author on the list, and `Parents` makes
sure that the parents of a version are there to be listed. `IndexMatchesDisk` is
false with two skills (`fs_store_two_writers`): each lock guards one skill and
the index file is shared. It is also lost to a Reindex beside a Create, and to a
Create for an author that is not searched. `IndexTheorem` is what remains:
with one skill, and without those two, the holder's `snap` differs from the disk
by exactly its own change until it is renamed (`Matching`).

### GitRegistry

`GitRegistryProofs`, for all sets of versions, contents, machines, processes and
requests and all bounds, under the module's five assumptions:

| Theorem | States |
|---|---|
| `TypeSafety` | `Spec => []TypeOK` |
| `AnsweredTheorem` | `OwnCheckouts` implies `Spec => []AnsweredIsPublished` |
| `RemoteTheorem` | `OwnCheckouts` implies `Spec => RemoteIsImmutable` |

`OwnCheckouts` says that no two processes share a checkout, as in the run. With
the instance `Together`, in which two do, TLC finds both properties violated (see
the end of the findings): the hypothesis says what a user has to keep to.

The argument. For the answers: from its commit to its reply a process' branch
ends with what it promises (`Held`), a push that goes through makes the remote
that branch, and the remote only grows, so promises stay kept (`Promises`). For
the remote: every commit of skuare's in the remote and in every branch changes a
version only for a reason in `asked` (`Grounded`), and so does the uncommitted
work over the last commit; a pull keeps that because it touches no changed file,
a commit turns the one into the other, a push only extends the remote.

### ConfigSources

`ConfigSourcesProofs`, for all directories, sources, settings and terminals,
under the module's assumptions: `TypeSafety`, `UnparsableTheorem`
(`[]UnparsableIsExplained`), `SourcesTheorem`
(`[]SourcesWereAddedThere`), `DanglingTheorem` (`[]DanglingIsExplained`) and
`SelectTheorem` (`SelectTakesEffect`). The invariant says of the configuration a
command carries from its read to its write what the properties say of the files:
each source was added to the very file that will be written or is the one being
added, and a dangling default was borrowed or is being selected (`JobOK`). The
carried configuration may be old; the properties hold all the same because a
file's history of additions only grows. For `SelectTakesEffect` the carried state
is current as long as nobody wrote in between (`SelectOK`).
`UnparsableIsExplained` rests on two facts: a file somebody truncated and nobody
else is writing holds nothing until it is written whole, and a file that two are
writing was put into `spoiled` by the second truncation, until a command
truncates it alone.

### VersionOrder, SkillWorkspace and Publishing

`PublishingProofs`, for all people, skills and pools of versions, under the
modules' assumptions: `SuggestionTheorem` (the version proposed after `v` is
greater than `v` exactly when the count does not carry inside a word and does not
meet a number too large to count up, where it proposes `v` itself),
`TypeSafety`, `FilesAgreeTheorem`, `InstallableTheorem`
(`[]PublishedIsInstallable`), `SuccessTheorem` (`SuccessIsComplete`) and `UpdatesTheorem` (`UpdatesGoForward`).

The argument. The order of versions is shown to be what `maxVersion` needs
(total and transitive over token sequences of any length), so a finite set has
a greatest version, and what is greater than it is greater than each version the
update found (`Tops`), whatever was proposed. For the commands, `PublishedIsInstallable` needs that a
skill is uploaded only after what it needs: `Descends` says that the stack of an
upload starts at the command's skill and version and repeats no skill, `Awaits`
that every dependency of a skill on the stack is uploaded, still on its list, or
the next one up. `FilesAgree` links the file the uploads follow to the file
installers read, as long as no build broke.

### DependencyGraph

`DependencyGraphProofs`, for all sets of skills, versions and keys, every root,
every set of dependency lists and whatever the registry answers, under
`KeysAssumption`, `ListsAssumption`, `ManifestsAssumption` and `NoneAssumption`:

| Theorem | States |
|---|---|
| `TypeSafety` | `Spec => []TypeOK` |
| `AcceptedIsAcyclicTheorem` | `Spec => []AcceptedIsAcyclic` |
| `GraphIsClosureTheorem` | `Spec => []GraphIsClosure` |
| `RefusalIsRealTheorem` | `Spec => []RefusalIsReal` |
| `SubtreeTheorem` | `Spec => []SubtreeIsComplete` |

The argument. None of the last four is inductive: they speak of the end, and
the graph grows while it is walked. The invariant `IInv` adds what a depth-first
visit keeps on the way. `Unread`: a key that was not fetched has no
dependencies yet, so a fetch changes no successor anyone has relied on.
`Members`: the nodes are the completed keys and those on the stack, each once
(`Distinct`). `Finished`: the completed keys are closed under dependency, no set
of them is endless, and below its loop counter a frame's dependencies are
completed; when a key leaves the stack, all it needs is completed, and an
endless set that contained it would contain a completed one. `Reached`: every
closed set around the root contains all nodes, so nothing is in the graph that
the root does not need. `OneVersion`: `versionsBySkillID` names exactly the
nodes. When the stack is empty the nodes are the completed keys, which gives the
first two theorems. A reported cycle is a slice of the stack, whose neighbours
`TypeOK` makes dependencies of each other; a reported conflict is between a node
and a dependency of the stack's innermost key. Reachability is stated by closed
sets and cycles by endless sets, so no recursion is needed and no bound on the
graph.

`SubtreeIsComplete` compares two walks: `visit` builds the graph while it is
being read, `collectSubtree` walks it afterwards, with another stack discipline.
Both lists are depth-first orders (`Preorder`): each next key is the first
unlisted dependency of the last listed key that has one. `Walked` is what carries
that for a stack of frames and a list: keys on the stack are listed in its order,
below a loop counter everything is listed, and so is all that a key off the stack
needs. A list determines how a depth-first order goes on, whatever stack it was
made with, so two that start at the root and hold the same keys are equal
(`PreorderIsOne`).

### LocalInstall

`LocalInstallProofs`, for all skills (finitely many) and versions, every
dependency relation, tools that share or do not share a directory, and any
number of processes, commands and breaks:

| Theorem | States |
|---|---|
| `TypeSafety` | `Spec => []TypeOK` |
| `RefusalTheorem` | `Spec => []RefusedChangesNothing` |
| `ReferenceTheorem` | `Spec => []ActsOnWhatWasAsked` |
| `RemovalTheorem` | `Spec => []RemovesWhatNothingNeeds` |
| `OverwriteTheorem` | `Spec => OverwritesAreConfirmed` |
| `CompletenessTheorem` | `Spec => []InstalledIsComplete` |

Assumed of the constants: requests are as the command line builds them
(`RequestsAssumption`), tools lead to targets (`TargetsAssumption`), a plan is a
sequence that starts with its root, holds each skill once and what its members
need, and so does the plan of each member (`PlanAssumption`). The last is what
`GraphIsClosureTheorem` and `AcceptedIsAcyclicTheorem` prove of the plans
`DependencyGraph` accepts, and `SubtreeTheorem` of what `collectSubtree` makes of
a member.

The argument. Every step of a process is first reduced to how its command
changes and how one file changes (`StepMoves`); the parts of the invariant are
then shown over those moves. `Typed` and `TornIsFilled` give the types: a torn
file has a process that still has it open, unless a command broke. `Untouched`: a
file that an undisturbed command has open is as it truncated it, so it writes the
whole text. `Clean`:
nothing is written before every target is confirmed. `Asks`: the root and the
selected skills answer to the reference. `RemovalFits`: the plan computed by the
loop over the subtree is the least set the properties describe; the lemmas on
subtrees, needed skills and cycles are about finite relations of any size
(a loop that makes no progress outside what is needed contains a cycle).
`Safe` is `InOrder` with `Foreseen`: what the previews of an undisturbed command
saw is still so when it writes, so a target without a question agrees with the
plan. `Complete`: each file of the plan is in place, is the one being written, or
is in a part of the plan, or of the targets, that is still to come.

### Only model-checked

Liveness (`EveryCallIsAnswered`, `ResolutionEnds`) is out of the prover's reach,
as is `ENABLED`; so are the properties of runs that expect a violation, which are
false. Every other property of a run is stated by a theorem, four of them under
the hypotheses named above.

## Findings

1. Concurrent writes of different skills lose index entries (`fs_store.go:458`);
   the service's README names the file lock as the mitigation.
2. A crash between the renames of a forced Create hides the version for good
   (`fs_store.go:142`); the same README names reindex as the repair.
3. The Git registry's refresh-time file is committed with everything else, so
   after one machine has published no other machine can pull
   (`git_backend.ts:61`, `483`).
4. An import that stops at a conflict leaves what it has written in the checkout;
   repeated with skip-existing it finds that unchanged and reports success
   without publishing it (`git_backend.ts:395`, `413`). In the trace it writes a
   skill and stops at an AGENTS.md.
5. A skill installed with `--slink` is not seen as installed, so a later copying
   get overwrites the user's own directory behind the link without a question
   (`query.ts:302`); the command's help says that this is never silent.

Seen while modelling, and not the subject of a run:

- `get` without a version and without a terminal installs the first row of the
  matching skill versions in the order of `id@version`, so the least version, and
  with an ambiguous name the first author's; with a terminal it asks.
  `docs/commands.md:256` says it uses the latest version. With `--rgx` it is the
  last version in the order of text (1.9.0 over 1.10.0), also when the pattern
  matched another version, and a skill with two versions matches twice and is
  refused. The model has all of this; `ActsOnWhatWasAsked` leaves patterns out.
- Of two Git registry processes on one checkout one may commit the files of the
  other, which then finds nothing to commit and answers success without a push
  (`git_backend.ts:479`); and when one pulls between the other's check and its
  write, a publish without force overwrites the version that the pull brought
  (`git_backend.ts:197`).
- A version that exists is a warning and exit code 0, so two people who publish
  one version both succeed. Dependencies that exist count as uploaded whatever
  they hold; with force they are replaced.
- publish follows `skill-deps.json` and installers prefer the lock file, so a
  build that stopped between the two can be published with a dependency that was
  not; `PublishedIsInstallable` is stated for workspaces without a broken build.
- The version proposed after `1.0.rc9` is `1.0.rc10`, which compares less, and
  the one proposed after `1.9007199254740992` is the same version
  (`versioning.ts:60`, `74`; `SuggestionTheorem`, and TLC meets both). Accepting
  it, which Enter does, asks again. `docs/commands.md:441` says that update "shows
  a suggested version greater than `maxVersion` as the default value".
- Two commands that write one configuration file, or one installed file, at the
  same time can leave the shorter text with the end of the longer one, although
  both succeed and nothing failed (`loader.ts:33`, `query.ts:1075`);
  `UnparsableIsExplained` says when a configuration file cannot be parsed.
- An update whose answer was lost has already rewritten `SKILL.md`; repeated
  without a terminal it fails because the version is no longer greater.
- A truncated dependency or wrap file makes every scan of its target fail, and a
  truncated configuration file every command, until it is repaired by hand; an
  overwriting get leaves files the new version does not have.
- Installed skills that depend on each other in a cycle keep each other when
  `remove --deps` would otherwise remove them.
- A source of the global file selected in a workspace leaves a dangling default
  there once it is removed globally; then every command fails unless a server is
  given. A workspace file that a source command wrote holds all defaults and so
  hides the global settings.

## Plan

Done: `FSStore` with `Registry`, `GitRegistry`, `DependencyGraph`,
`SkillSelection` and `LocalInstall`, `SkillWorkspace` and `Publishing`,
`ConfigSources`, each with its proofs. Next, in this order:

1. The plan of `LocalInstall` as an instance of `DependencyGraph`, so that
   `PlanAssumption` becomes a theorem.
2. `IndexMatchesDisk` for several skills whose calls do not overlap, and the
   properties of `GitRegistry` that survive a shared checkout.
3. `AgentsMDStore`: creation without a lock or staging; what a reader and a
   second creator see; what stays after a failure.
4. `MigrateImport`: export and import of the service against a `Registry` that
   others change; nothing overwritten, a repeated import converges.

## Not modelled

Parsing and printing (uploads, front matter, tables, the keys and the layout of
prompts), start-up and launchers are sequential and have no state of their own.
list, peek, detail and validate only read. Request authorisation is left out:
the store's model starts with a request that was accepted. The AgentsMD store
and the service's export and import are left to the plan; the AGENTS.md commands
are single calls of a backend. A clone of the Git checkout is one step, so two
processes cloning at once are not covered. Version names that contain `.tmp-` or
`.bak-`, which Create accepts and Reindex skips, are not covered because names
are model values.
