# GLM-5.2 on eight GB10 nodes: verification project

The repository serves GLM-5.2 with tensor parallelism over eight nodes. Its own logic is (a)
kernels that bring sparse attention and its indexer to the GB10, and the vLLM attention backend
that drives them, (b) patches to vLLM that shard the KV cache over the ranks ("decode context
parallelism", DCP) and keep the sparse attention exact, with the scripts that apply them, and
(c) the scripts that launch, watch and restart the cluster. This directory holds TLA+ models of
all three, the TLC configurations that check them, and TLAPS proofs of the decode and the prefill
path, of the kernels and the backend, of the patch scripts and of the interplay of launcher and
watchdog.

## Inventory

| Component | State | Operations | What is hard | What makes it correct |
|---|---|---|---|---|
| DCP decode indexer (`8node-nvfp4/glm52-dcp-patches.sh` step B) | indexer KV shard per rank, localized lengths, candidate and gathered tensors, `topk_indices` | build metadata, insert keys, local top-k, two all_gathers, strict merge, owned mask, attend and combine; speculative acceptance | ranks at their own speed between collectives; ties; stale keys beyond the length; rows straddling a round of ownership | all ranks select the same positions; every position is counted once; the selection is a top-k of what the row sees; no stale key is read |
| DCP prefill indexer (step C) | workspace arena (staging and reassembled keys overlap), chunk list, ragged gathered tensors, `topk_indices` | gather shard, two `all_gatherv`, reassemble, reuse (`skip_kv_gather`), score and mask | ragged sizes, aliasing, reuse by the next chunk, permutation | keys in GLOBAL order when scored; collectives agree; exact selection; no hang |
| Patch scripts (`glm52-sparse-patches.sh`, `glm52-dcp-patches.sh`, `build-dcp-patch.sh`, cyber variant) | vLLM source files, sentinels, temporary files, package marker, b12x | anchored replacement, compile check, package probe | a death between or inside two writes, re-runs, two runs at a time | status 0 means patched; a re-run is refused nothing it wrote; the order of the layers holds |
| Launcher (`start_glm52_8node.sh`, `start_glm52_config.sh`) | a container and a `vllm serve` per node, watchdog timer | create and patch containers, start ranks, poll, `--stop`, profiles | failures of one node; two launches at a time | what serves is patched; one launch at a time; profile and watchdog fit |
| Production watchdog (`watchdog_glm52_cluster.sh`, systemd units) | strike file, timer | probe, check the process, strike, launch | checks that fail by themselves, launches it does not know of | never restarts a live engine; always restarts a dead one |
| Cyber watchdog (`cyber-runtime/tools`) | crash and wedge counters, own lock | active probe, forensics, restart | telling busy from frozen; conflict with the production watchdog | restarts the wedged, never the busy |
| Streaming indexer kernels (`kernels/sm12x_deep_gemm_fallbacks.py`, `sm12x_mqa.py`) | logits (uninitialized at first), carried top-k of each row, bounds of the current chunk | logits of a chunk by grid, by row or in torch; top-k of the chunk; merge | any order of a grid's programs, chunk boundaries, short rows, a memory budget, chunk sizes from the environment | every logit whole and masked; the carried top-k is a top-k of the keys so far; scratch bounded; every call ends |
| Sparse MLA kernels (`kernels/sparse_mla_kernels.py`, `sm12x_sparse_mla_attn.py`) | online softmax state (max, denominator, accumulator) per subset | accumulate a chunk, merge subsets, add the sink, finish, LSE | gaps and empty subsets, launches that cut the candidates anywhere, guarded exponentials of minus infinity | equals the one-pass softmax over the valid candidates; an idle rank weighs nothing; no overflow |
| Attention backend (`kernels/flashmla_sparse.py`, `b12x_sparse_helpers.py`, `patch_flashmla_ops.py`) | prefill chunks and their offsets, workspace, output, LSE | metadata of a batch, forward on the bf16, mixed and separate paths, decode and chunked prefill, several layers | one workspace for all chunks and layers, three ways to count (requests, prefills, tokens), two LSE layouts and bases | chunks fit; each row attends its own selected keys; an LSE per row and head in base e |
| Distribution scripts, four-node launcher, vendored image build, weight surgery, measurement scripts | files | copies, conversions, builds | partial failure | see `PROJECT.json` |

Interaction: the scheduler of vLLM (external) issues the same step to all ranks; a rank's
indexer and attention run on its shard and meet the others only in collectives. The launcher
patches and starts the ranks; the watchdog looks at the head's `/health` and process and runs
the same launcher.

Every hazard found while reading is listed at its line in `PROJECT.json`.

## Modules

| Module | Models | Kind |
|---|---|---|
| `TopKSets` | selecting the k best of scored keys, up to ties and strictly | operators |
| `DcpShards` | ownership arithmetic of the sharded cache | operators |
| `Sums` | sums over what is laid out one after the other | operators |
| `TopKAttention` | what sparse decoding promises, without shards | abstract specification |
| `DcpDecode`, `MCDcpDecode` | step B: a decode step on N ranks | state machine, properties, refinement mapping |
| `DcpPrefill`, `MCDcpPrefill` | step C: a forward pass of prefill chunks on N ranks | state machine, properties |
| `MqaIndexer`, `MCMqaIndexer` | the indexer's kernels on one rank | state machine, properties |
| `SoftmaxSums` | sums of exponentials kept exactly, and the online softmax over them | operators |
| `SparseMla`, `MCSparseMla` | the sparse attention kernels, pipeline by pipeline | state machine, properties |
| `SparseBackend`, `MCSparseBackend` | the attention backend: metadata, workspace, forward | state machine, properties |
| `PatchScripts` | the scripts that rewrite vLLM in a container | state machine, properties |
| `ClusterOps` | launcher, profile script, production watchdog, engine life cycle | state machine, properties |
| `SharedLemmas` | facts about selections, sums and rounds of ownership, with proofs | theorems |
| `DcpDecodeProofs`, `DcpPrefillProofs`, `MqaIndexerProofs`, `SparseMlaProofs`, `SparseBackendProofs`, `PatchScriptsProofs`, `ClusterOpsProofs` | TLAPS proofs | theorems |

How they compose: `MqaIndexer` says what a rank's logits and top-k kernels return, `DcpDecode`
and `DcpPrefill` use such a top-k per shard and make one selection of them, `SparseBackend` has
the selection of one rank (its row of the owned mask) attended, and `SparseMla` says what the
kernels it calls compute, up to the recombination of two ranks. `TopKSets` is shared by the
first three; `DcpPrefill` and `SparseBackend` share `Sums`. `PatchScripts`
is the inside of `ClusterOps`' actions `Patch` and `PatchFails`.

Definitions whose comment starts with "Mutant:" are plausible defects of the definition that
follows them. No specification uses them; replacing the definition by its mutant makes the
property named in `PROJECT.json` fail.

### DcpDecode

One layer and one request of the batch: they share no indexer state with others. A rank's
program between two collectives depends on nobody else, so each segment is one action of the
rank (`BuildMetadata`, `InsertKeys`, `LocalTopK`, `Merge`); a collective (`AllGatherScores`,
`AllGatherPositions`, `Combine`) is one action of all ranks, enabled when all have called it.
`Admit`, `IssueStep` and `Accept` are the scheduler as the patches see it: a new sequence over
blocks that are not cleared, a step of `NextN` rows, and speculative verification that keeps
some of them and leaves the keys of the others behind.

`kv[r][c]` is the key (position and version of its token) in column `c` of rank `r`; a key that
is beyond the length or of an older version is dead and scores `StaleScore`, the best score
there is, so that reading it cannot go unnoticed. A lane of the gathered tensors is its position,
its score, and the rank and candidate it came from, so that two lanes of one position are two
lanes: `OwnedLanes` says which lanes a rank keeps and at which local column, `Reads` what the
attention finds there, and `CountedOnce` that no position is read through two lanes, be they of
two ranks or of one. Lanes of index -1 are left out. The tie-break of the CUDA kernel is
not documented, so the variable `ties` is chosen once,
in `Init`: with "any", `KernelTopK` may return any top-k; with "lowest" it breaks ties by
position, as the offline validators do. `ExactSelection` is about the second. `RowScores` are the
tables of scores a row may have; the proofs need only that they are some.

Refinement: `attended[j]` of `TopKAttention` is the set of positions of all keys that all ranks
read for row `j`; shards, candidates and collectives are forgotten.

### DcpPrefill

A pass is a list of chunks that the (external) metadata builder may split in every way allowed
by `Plans`: groups of consecutive requests, each group's query rows in one or two slices
(`Slices`), the second with `skip_kv_gather`. The workspace is an arena of units; quantized keys take
`QuantUnits` units and scales one, and both slicings start at unit 0, as the two calls of
`get_simultaneous` do. A row whose units come from different keys reads as no key at all. An
`all_gatherv` is enabled only if the sizes every rank expects are those brought. The top-k
kernel of step C is as undocumented as that of step B, each rank runs it for itself, and no strict
merge follows. So `ties` is chosen once here too: with "any", every rank's kernel returns a top-k of
its own, and only `PrefillUpToTies` can be promised: a row reads each key once, all that must be in,
none that cannot. Ranks may then drop a tied position, or read one more than top-k. With "lowest"
they agree, and `PrefillExact` is about that.

### MqaIndexer

One call at a time: an entry point (`fp8_fp4_mqa_topk_indices`, its paged form, or the logits
alone), a shape, a context length per row, a block table and scores. `start` and `count` are the
chunk, `best` the carried `best_values` and `topk_indices`, `chosen` the top-k of the chunk. A
logit is the set of products <<key, head>> that were added to it, so that a head added twice or
a key read through the wrong block shows; `Unset` is what `torch.empty` left. The triton kernels
are a set of `pending` programs that run in any order (`pc = "grid"`), the torch paths are their
loops over heads and keys with the chunk sizes they compute. `torch.topk` may break ties at
will. The views of a packed page and the fp8 scales are left out, and so is the hc-prenorm GEMM.

### SparseMla and SoftmaxSums

One token and one head, whose candidates come in two subsets (two ranks, or compressed and
window keys). Exponents and accumulated values are kept exactly: a sum of exponentials is the
function from its terms to their exponents, and a product of two minus infinities poisons it.
`plan` names the pipeline: the entry points of the GLM backend (`bf16`, `fused`,
`materialized`), the ones that finish two states or two subsets, with and without sink, and the
split and chunked kernels. Each kernel launch takes `[first, last)` candidates of its own, in
every way of cutting them. The split and chunked kernels get any indices, as do the DCP
entry points. `_indexed_d512_split_score_kernel` loads a zero row for an invalid one and stores its
score, 0, and what follows masks by the valid length only: such a candidate (`Strays`) stays in the
maximum and the denominator. `Exact` says that this is all that differs from the softmax over the
valid candidates; `SkipsInvalid`, what the kernels' comments say, is violated.

### SparseBackend

`build` makes the metadata of a batch, `AppendChunk` one round of the loop over prefill chunks,
`FinishBuild` the copy to the device. Then, for each layer, `forward_mqa` takes one of three
paths: `forward_bf16_kv`, `forward_fp8_kv_mixed_batch` or `forward_fp8_kv_separate_prefill_decode`
(`fp8_decode`, then `GatherChunk` and `AttendChunk` per chunk). A row of the output is the key
it attended at each lane that held a candidate, an LSE is <<token, head, base>>, and the workspace
keeps what the last gather left. A call that raises ends the engine. Under DCP the path is a rank's:
q has the heads
of the whole group and the selection is a row of the owned mask, with gaps. Two limits of the
code that the deployment does not meet are visible in the model and kept out of the passing
run's calls: the separate path under DCP with decodes and prefills in one batch assigns tensors
of different shapes, and prefills with gapped rows lose keys (run `backend_gaps`). The FP8
kernel cuts its output back to the real heads and not its LSE (`flashmla_sparse.py:899-902`);
under DCP, where the LSE is used, padding does not occur.

### PatchScripts

A file is the set of steps whose sentinel it holds and whether its text is whole. Each step of
the base script (`A2`, `A3`, `A4`, `C`) and of the DCP script (`DA`, and `DB`, `DC` on two files
each) goes through `Read` (sentinel: skip; anchors: go on or abort), `Open`, `Fill`, for the base
script `Replace`, and `Compile` where the script compiles. Base steps write a temporary file and
rename it, DCP steps empty the file and write. `Die` is a kill, or a full disk, at any point.
Two runs share the container and the names of the temporary files, and `handle` follows an open
file through the renames of the other. `odd` is a step whose anchors this build of vLLM lacks.
What an edit says is the subject of the modules that model the patched code; here only R3 (the
DCP top-k), whose anchor is A4's text and whose new text must keep A4's sentinel, depends on
another edit.

### ClusterOps

A launch is a program counter and a node: `ChecksFail`/`Clear`/`Run`/`RunFails`/`Patch`/
`PatchFails` are the pieces of `create_container` between which another launch may act,
`StartRank`/`StartFails` are Phase 2, `PollEnds` is Phase 3. A failing step ends the launch on
the head (the function runs in the launcher's shell) and is ignored on a worker (it runs under
ssh). The watchdog's run is `Probe`, `Pgrep` or `PgrepMisses`, and `WatchdogLaunches`; the
oneshot service does not overlap with itself. The engine (`Join`, `Crash`, `Collapse`,
`GiveUp`) is external. `/health` answers 200 exactly when the head's rank has joined, which
may be some time after another rank died.

`OperatorLaunches` and `OperatorStops` are the scripts as they are: they look at no lock and at no
service. `Operator` is whoever runs them, calling for one of `Commands`. With `OperatorWaits` that
person first lets a run of the watchdog end (`Clearance`) with the timer off or about to be turned
off; with `OperatorResets` the strike file is removed before the timer is started. No script does
either, so what holds under them is what the operator's care buys, and the runs `cluster_race` and
`cluster_strike` show what the scripts alone allow.

## Runs

| Run | Bounds | Question |
|---|---|---|
| `decode` | 2 ranks, top-2, 2 rows, 5 positions, 2 scores in 6 tables, ties any or lowest | types, inductive invariant, agreement, lanes counted once, no stale read, exact selection, refinement, completion |
| `prefill` | 2 ranks, top-2, 2 requests of up to 5 positions, 12 key rows, ties any or lowest | order of keys, agreement of collectives, selection up to ties and exact, completion |
| `indexer` | 1 or 2 requests, 1 or 2 rows each, 3 keys, 2 heads, top-2, budget 5, chunk sizes 0 and 1 (default 2) | logits whole and masked, streamed top-k, bounded scratch, every call ends |
| `sparse_mla` | 2 subsets of 2 candidates, scores -1 and 2, 1 sink, every index pattern | exact softmax for every pipeline and cut, idle rank, no overflow |
| `sparse_sentinels` (violation) | as `sparse_mla` | `SkipsInvalid` fails: the split kernels weigh an invalid index |
| `backend` | up to 3 requests of up to 4 positions, workspace 4, 2 layers, 3 rankings | chunks fit, own keys attended, LSE per row, calls end |
| `patch_scripts` | 2 runs, 2 deaths, 1 odd file | status 0 means patched, order of layers, re-runs |
| `cluster` | 3 nodes, 3 failures, careful operator | types, sound strikes, one launch, live engine never restarted, dead engine recovers |
| `cluster_race` (violation) | 2 nodes, DCP profiles only, operator who does not wait | `OneLaunch` fails: no lock, and only the timer is stopped |
| `cluster_patch` (violation) | 2 nodes, 1 failure is enough | `ServesPatched` fails: a worker's patch failure is ignored |
| `cluster_strike` (violation) | 2 nodes, 2 failures | `NeverInterrupts` fails: a stale strike |
| `backend_gaps` (violation) | as `backend`, many heads per rank, DCP prefills | `OnlyUnownedDropped` fails: a valid count used as a prefix |

Why the bounds are enough. Decode: with two ranks and five positions a sequence wraps around the
ranks more than twice, a rank can own nothing, both rows of a step can be in different rounds, and
one rank has three columns for two places, so that it drops a candidate itself and its kernel breaks
ties too. The six tables of scores are the patterns of ties that matter there: all tied, also with
dead keys; the best all on one rank, on the other, or one on each; ties for the last place across
ranks. Prefill: two ragged requests of up to five positions on two ranks make every pattern of
remainders, including a rank with no rows; with five positions a row has ties for its last place,
and the capacity is small enough that the staging scales lie inside the reassembled keys. It is
at least what the requests need, as in the engine, whose workspace is sized for forty requests
of the maximal length; the proofs hold for any number of ranks. Its data (`ScoreTables`) is one
table, which has a tie and a dead key's score at the boundary: the order of keys, not the scores, is
what the path computes. Indexer: three keys in chunks of
one or two make a first, a middle and a last chunk, chunks that end inside and after a row's
context, and rows shorter than top-k; a budget of five cuts heads in one shape and keys in
another. Softmax: two candidates make every pattern of valid, sentinel and out-of-range, empty
subsets and a maximum that grows late, and scores on both sides of the 0 of a
zero row; the properties compare sums term by term, so larger
numbers of terms add nothing a pair does not show. Backend: the constants 5, 64, 16 and 32 of
the code are scaled to 1, 4, 2 and 2, so that three short prefills overflow the workspace and
both sides of each comparison are met; two layers show a workspace that is stale. Patch scripts:
two runs are an interrupted one and its re-run, or two at a time; a second death can hit the
re-run. Cluster: three nodes are a head and two workers, enough for a worker to fail between two
others' steps; three failures allow one while recovering from another while a check misses. In
`cluster_race` the operator calls for DCP profiles only (`Commands`), so that the timer is off when
the launches meet.

`backend` and `patch_scripts` do not check for deadlock: a raise ends the engine, and the scripts
end. In all others a state without a successor is an error.

## Fairness

Decode: weak fairness for each rank's program and for collectives that all ranks have entered.
Prefill: the same, stated on the program counters (`RankMoves`, `GatherReturns`,
`AttentionReturns`): a rank that can go on does, and a collective that all have entered with the
same sizes returns. That is a running process and a working fabric; the scheduler is not required
to issue anything. Indexer and backend: a call that was made goes on (weak fairness of its
step); no one is required to make one. The patch scripts promise nothing in time. Cluster: weak fairness for scripts that were
started, for the timer (`OnUnitActiveSec=1min`), and for the engine's finite timeouts; failures
have no fairness, and their number is bounded by `MaxFaults`, without which nothing can be
promised. The operator owes nothing.

## Findings

- `cluster_race`, the lock: watchdog and service unit say that manual launches share
  `restart.lock`; the launcher never opens it.
- `cluster_race`, the profile: `start_glm52_config.sh:18-19` says that the script stops the watchdog
  for `dcp-*`, so that it cannot clobber a DCP run. It stops the timer (line 67). In the run's trace
  the oneshot service is past its probe with a strike on file when the operator launches a DCP
  profile; it goes on, finds no `vllm serve`, and launches production at the same time.
- `sparse_sentinels`: the split kernels' comments say that an invalid index must be skipped as in
  the scalar and multihead kernels. It scores 0 and stays in the denominator. The GLM backend does
  not call them; the DeepSeek-V4 backend, outside this repository, does.
- `cluster_patch`: "refusing to serve unpatched" holds for the head only. On a worker the exit
  status of the ssh is dropped and Phase 2 serves from the unpatched container.
- `cluster_strike`: "TWO consecutive dead checks" are not consecutive when the timer was stopped
  in between; the strike file survives a stop, a launch and a start.
- `backend_gaps`: PREFILL-ALLGATHER-SPEC says that the -1 sentinel and the valid counts make the
  prefill kernel drop the unowned entries. The count is used as the length of the row's prefix,
  so with gaps it drops owned entries behind them. The deployment (8 heads per rank) takes the
  mixed path, which passes no count.

Seen while modelling, without a run of their own:

- On the separate path under DCP, a batch with decodes and prefills assigns outputs with the heads of
  the whole group to buffers of `num_heads` (`flashmla_sparse.py:725-754`) and raises, against the
  comment at 970-974, "Both fp8 paths thread the LSE now". With only decodes or only prefills the
  path works, and the deployment takes the mixed path. `Calls` of run `backend` leaves such batches
  out; `DecodeShapesFit` has the comparison of the shapes.
- The probe's result, `/workspace/glm52-b12x.env`, is written in the container, and the launcher
  tests for it on the host (`start_glm52_8node.sh:384-388`); that path is no mount, so a
  PIECEWISE result never reaches `vllm serve`, against `glm52-sparse-patches.sh:33-35`. Production
  runs eager, where the mode is not used.
- Two runs of the patch scripts in one container (possible through `cluster_race`) share temporary
  names and write the DCP files in place: one may end with 0 while a file is empty or lacks an
  edit, and a text mixed from two writes is caught only if it does not compile.
  `ExitZeroIsPatched` therefore asks for runs that do not overlap. It also leaves out a DCP step
  that died inside its write: `mla_attention.py` cut behind its sentinel is skipped by the next
  run and never compiled. The launcher always begins with a fresh container.

## What is proved

All theorems hold for every value of the constants that satisfies the named assumptions
(`NAssumption`, `DecodeAssumption`, `PrefillAssumption`, `MqaAssumption`, `OpsAssumption` and their
siblings): any number of ranks, any top-k, any number of drafts, any length, any set of integer scores, either
way of breaking ties; any shape of a call, number of keys and heads, size of tile, chunk and
budget; any batch, workspace and number of layers; any number of runs of the patch scripts,
nodes and failures. `ClusterOpsProofs` and `SparseBackendProofs` add a
hypothesis of their own, named in each theorem and below.

`SharedLemmas`: what several components rest on. `UnionTopK`: if each part of a partition of a
finite set of scored candidates offers one of its top-k, then a top-k of the offers is a top-k of
the whole set. `UnionStrictTopK`: under the total order it is the one. Beside these, a finite set
has exactly one strict top-k, renaming keeps it, ownership in rounds is a bijection between
positions and (rank, column) pairs, and sums grow and split as prefix sums do. Sums, flattened
sequences and plans are recursive functions; what they compute is proved by induction over sets
of numbers, which the well-foundedness of `Nat` gives (`Smallest`, `Induction`) without the
library's theorems with operator parameters.

`DcpDecodeProofs`: `Invariance` proves the inductive invariant `IInv`. The properties are not
inductive by themselves: agreement of two ranks after the merge depends on both having sorted the
same lanes, hence on what the collectives gathered, hence on every rank having scored its shard
under lengths that stand for the same GLOBAL length and over columns whose keys are current.
`IInv` states one conjunct for each link: `InStep` (ranks are on the same side of a collective),
`ShardsCurrent` (every column below the length, or below the new length once a rank has inserted,
holds the key of its position), `Localized`, `CandidatesLocal`, `ScoresGathered`,
`PositionsGathered`, `Masked` and `Combined`. From it follow `TypeCorrect`, `Agreement` (the
strict top-k of a finite set is unique), `FreshReads`, `CountedOnceHolds` (the ranks picked the same
lanes, no two of one position, because a rank's candidates are columns of its own shard, and the
owned masks give each lane to the owner of its position), `Exactness` (whenever
`ties = "lowest"`) and `Refinement`: initial states map to initial states and each step to
a step or a stutter of `TopKAttention`, `Combine` to `Attend`.

`DcpPrefillProofs`: for every batch, every way of chunking it and every workspace that holds
`MaxReqs` requests of `MaxLen` positions (the engine's holds forty), the inductive invariant `Inv`
links a chunk's keys from shard to selection. `Batch`: whatever `Plans` the builder chose, its
chunks cover every query row, and a slice that brings no keys follows one of the same requests.
For each rank, `Inserted`, `Staged` (the staging buffers hold the rank's part of the chunk's keys),
`Gathered` (a collective returned the parts of all ranks in rank order), `Kept` (the arena holds the
chunk's keys in global order, also while the next chunk is begun, which may reuse them) and
`Selected` (the rows of all chunks behind the rank are masked selections). `InStep` makes the
collectives safe: all ranks have exchanged the keys, and the scales, of the same chunks. Two ranks
inside a gather are then at the same chunk and the same collective, and as both compute their
sizes from the same lengths, `NobodyWaits` follows. `KeysOrdered` rests on three lemmas: a row of
the arena that is stored can be read back, quantized keys and scales side by side
(`StoredHolds`); the parts of a flattened sequence begin at the prefix sums of their lengths
(`Layout`); so `GatheredRow` finds the key of each position where rank, request and round put it
(`GatheredRowHolds`). `PrefillSelects` and `PrefillIsExact` add that every row of the batch is in
some chunk, at its place (`RowsOfChunk`). The first, for ties of any kind, needs of each rank's
selection that it holds what every top-k holds and nothing no top-k holds, and of the masks that a
position has one owner; the second, for ties broken by position, that the ranks selected the same,
so that the masks partition it.
`TypeCorrect` is part of `Inv`.

`MqaIndexerProofs`: `Invariance` proves the conjunction of `TypeOK`, `JobOK` and `FlowOK` (what a call may be
and which program counters its path goes through), `Progress` and `Streamed`. The two
results, `LogitsAreExact` and `StreamsExactly`, are about finished calls and not inductive.
`Progress` (`CellsInProgress`) adds what every cell holds on the way: the products of the heads so
far, the rows so far, or, on a grid, that a cell is right or belongs to a pending program, which
is what makes the order of programs irrelevant. `Streamed` (`BestSoFar`) adds that the carried
selection is a top-k of the keys before `start`; its step is `UnionTopK`, for the selection so far
and the chunk's. `ScratchIsBounded` is arithmetic on the two chunk sizes: the heads are cut by
the budget, the keys by the budget over the heads, so the product stays within it or at one.

`ClusterOpsProofs`: `TypeCorrect` holds of every operator. Under `OperatorWaits`, `Separate` is
inductive (`SeparateStep`): while the operator works or wants DCP, the timer is off and the
watchdog at rest. It is the operator's discipline spelled out, and only a lemma; what it gives in
every interleaving, and the scripts alone do not, is `LaunchesExclude`. Under `OperatorResets` as
well,
`StrikesSound` is inductive relative to it (`StrikesStep`): a strike not owed to a missed check
means a dead head, because only a launch revives one and a launch of the operator ends with the
strikes reset. Two strikes in a row are then never both missed checks, hence
`EngineNotInterrupted`. `cluster_race` and `cluster_strike` show that the conditions cannot be
dropped.

`SparseMlaProofs`: there is no hypothesis; the split kernels may be handed any indices. `Inv` is
the types with signs, `Partial`, which run `sparse_mla` checks, and where the launches of a whole
pipeline
begin. A finished result says nothing of the middle of a
pipeline, so `Partial` has a conjunct for each place a sum can be: `OnlineSound` (the buffers of
an online softmax are the sums over the valid candidates between the cursors), `MaskSound`,
`ScoresSound` (the scores a split kernel left for the next), `SplitSound`, `ResultsSound` (what a
subset's state, output and LSE are once it is through). In `ScoresSound` and `SplitSound` the
invalid candidates within the valid length are part of the sums, with score 0. Its step is one fact about
`SoftmaxSums` used everywhere: rescaling a sum to another maximum and adding a term gives the
sum over one candidate more. From it follow `ExactAlways`, `IdleRanks`, `NeverOverflows` and
`TypeCorrect`.

`SparseBackendProofs`: `Built` is inductive for every batch: the chunks so far are consecutive,
fit, and hold the first prefills, and a prefill starts where those of its chunk before it end;
`TypeCorrect` and `ChunksAlwaysFit` follow. That such chunks exist needs that one request fits
the workspace, which `WorkspaceFactor` gives. `Answered` is inductive relative to it: a row that
is written is right, the workspace holds the keys of the chunk that is attended, and the rows
still to be written belong to chunks to come. Offsets, token slices, LSE layouts and request
indices are all prefix sums or quotients, so the proof rests on the lemmas about sums.
`AttendsAlways` and `LseAlways` assume
`AllSupported`: without context parallelism, heads the BF16 kernel can pad; with it, on an FP8
cache, heads that fill the kernel and no prefill on its own path. The deployment (8 heads on each
of 8 ranks, 64 in a kernel, mixed path) and all calls of run `backend` are such; `backend_gaps`
shows what happens to others.

`PatchScriptsProofs`: `Typed` and `Rerouted` hold whatever overlaps and dies. `Rerouted` says of
the disk, of the temporary files and of every snapshot a run has read that a whole text with the
DCP top-k has the reroute: a snapshot becomes the file later, so the property of the disk alone
is not inductive. `SerialInv`, relative to both, is about runs that do not overlap: at most one is
under way, every file is whole unless that run is writing it, and the edits of all steps behind a
run are in their files, whether the run made them or skipped them. `RerouteAlways`, `ExitZero` and
`AbortsForeign` follow.

Under the hypotheses named above, every safety invariant of a passing run and the refinement of
`TopKAttention` are thus theorems.
Only model-checked: liveness (`StepCompletes`, `PrefillCompletes`, `Answers`, `Serves`, `Recovers`),
whose fairness needs ENABLED.

## Not modelled, and why

- Floating point (scores are integers, sums of exponentials are exact), NCCL's internals,
  CUDA-graph capture, weights and images.
- The text of the patches as text: an edit is modelled where the patched code is.
- The rank-divergent fallback `except Exception: _N = 1`: a rank without its groups would not have
  come up, and all ranks take the same branch.
- The cyber watchdog and a second model in the same memory: its probe is like the production one's
  with a second counter, and the conflict of the two watchdogs is a matter of who disables which
  timer; `ClusterOps` has one model and one timer.
- The cyber variant of the patch script: the scripts above plus one step in `deepseek_v2.py`.
- The four-node launcher, an older sibling of the modelled one; distribution scripts, which copy
  files to the nodes; offline weight surgery; measurement clients; and the vendored
  image build. None keeps a state the cluster shares.
- `patch_flashmla_ops.py` and the constructors of the backend: configuration at import.

## Plan

The cyber watchdog with its conflict, in the place of a run that turns out to say least.
