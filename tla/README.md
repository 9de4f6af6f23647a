# Verification of note_neatness_service

TLA+ models, model checking and machine-checked proofs for the code that this
repository itself contributes to the note neatness service: the client that
registers the service, the training of the text detector (its targets, its batch
pipeline, its loop and checkpoints), the way of a page through the detector up to
the text proposal graph, the analysis of the lines it finds, the embedding of that
Python code in C++, and the judgement of a page's layout. Third-party trees
(Chromium base, grpc, breakpad, OpenCV, the JSON parser) are not modelled.

## 1. The system

| component | state it keeps | operations | who calls it |
|---|---|---|---|
| Eureka client (`eureka/eureka_client.*`) | `m_thread_running`, two curl handles, the header list, `try_count` of the thread, a lease at the registry | constructor, `run`, `stop` (which deletes the object), `heartBeatTimer` in a thread of its own, `registerEureka`, `sendHeartBeat` | the service front end |
| batch pipeline (`dataset/data_util.py`, `data_provider.py`) | the queue, the stop event, the list of workers | `start`, `data_generator_task` in each worker, `get` / `get_batch`, `stop` | `main/train.py` |
| text proposal graph (`text_connector/text_proposal_graph_builder.py`, `other.py`) | `boxes_table`, which outlives the image | `build_graph`, `sub_graphs_connected` | the connectors, once per image |
| line detector (`main/det_line.py`) | a TensorFlow session | `resize_image`, `detect_line`, `tag_analyst`, `first_tag_merge`, `analyst` | the embedding |
| connectors, `TextDetector` (`text_connector/*`) | none of their own | `detect`, `get_text_lines`, `filter_boxes` | `det_line.py` |
| layout (`det_layout/api`) | four global thresholds | `Init`, `IsNoteNeat` | the service front end; the drivers under `test/` |
| its Python twin (`main/det_layout.py`) | none | `det_layout` | `det_line.py` |
| embedding of Python (`det_ge_mma_ctpn/api`) | the interpreter with its pending exception, the reference to `analyst` | constructor, `detection`, destructor | the service front end |
| proposals and anchors (`rpn_msr`, `bbox`) | none | `proposal_layer`, `anchor_target_layer`, `nms` | training and detection |
| dataset preparation (`prepare/split_label.py`, `prepare/utils.py`) | label files | `shrink_poly`, `orderConvex`, the loop over the files | command line, once |
| training loop (`main/train.py`) | step, `global_step`, learning rate, checkpoint files | `main` | command line, again after a crash |
| front end (GodeyeCrowVideo) | not in the repository | | |

How they interact. The front end constructs the Eureka client and calls `run` and
`stop`; the client's thread talks to the registry over an unreliable network. A
page goes through `resize_image`, whose result bounds the columns that the graph
builder indexes, the network, `proposal_layer` and `detect`, each of which suppresses
overlapping proposals; the builder's graph is cut into chains, the chains become
lines, and `analyst` reports on the lines to the C++ object that embeds it.
The layout code judges a page on its own, from the connected components that
OpenCV finds. The trainer pulls batches out of a queue that worker processes fill, labels anchors
by the boxes of the label files, and leaves checkpoints for its next start.

What is hard: a thread that must be gone before the object is deleted; a retry
policy that has to fit a lease; check-then-act on a queue by several workers, and
stopping workers that wait for room in it; a training that dies between two
statements and is started again in the same directory; an exception of one page that
the interpreter keeps for the next; labels that depend on a greatest overlap, which
may be 0; a table that is kept from image to
image and only partly reset; sorts that leave ties open, with loops that depend on
the order; reads outside of a matrix and sums outside of an `int`.
`PROJECT.json` lists these hazards with their lines and the properties on them.

## 2. The modules

A definition named `X_Something` with a comment "Mutant" is a deliberately wrong
variant of `X`: each property is shown to fail when the variant takes X's place.

### WorkerLifecycle
The abstract promise of an object with background workers: a worker serves until it
is asked to stop, the memory is released when no worker is left, and a requested
stop completes.

### EurekaClient
Two actors: the owner (`RunSetFlag`, `RunSpawn`, `StopClearFlag`, `StopJoinDelete`:
the statements of `run` and `stop`, in their order) and the thread
(`FirstRegister`, `TestFlag`, `Sleep`, `Reregister`, `Beat`: `heartBeatTimer`). The
registry and the network are external: a request may be applied or not, answered or
not, independently, because neither handle sets `CURLOPT_FAILONERROR`; the lease may
run out and the registry may forget. Time is counted in the seconds that the code
names and passes while the thread sleeps or waits for curl. Two history variables
count the calls that an entry has missed (`misses`) and remember whether one of them was
answered all the same (`refused`): an answer resets nothing and counts as no failure.
`m_thread_running` starts with any value: the constructor does not set it.

Assumed of the owner: constructor, then `run` once, then `stop`. A second `run`,
or `stop` without `run`, would be undefined behaviour of `std::thread` that no code
here guards against. Failure to create the thread is not modelled.

### GeneratorEnqueuer
The consumer's process (`start`, the polling loop of `get_batch` or `get`, `stop`)
and one actor per worker, which walks through `data_generator_task` label by label:
test of the event, comparison of the size, `next()`, `put`. `use_multiprocessing`,
a variable that Init sets either way, chooses between processes behind a bounded `multiprocessing.Queue` (with the feeder
thread that every process has) and threads that share one generator and an unbounded
`queue.Queue`. A worker may raise at any `next()`; with threads a clash in `next()`
raises too. `terminate()` ends a process wherever it is.
The trainer may close the generator whenever it holds a result.

### TextProposalGraph
`BuildGraph` resets the table up to the image's width (`ResetColumns`) and appends the
proposals to their columns (`NewTable`), `Link` is one
round of the loop over proposals, `Group` and `Walk` are `sub_graphs_connected`.
Coordinates are the integer parts that index the table; the two ratios are compared
exactly, in percent. One builder serves image after image, of any width.

### DetectLine
From the raw image to the call of `get_text_lines`. `Scale` and `Align` are
`resize_image`, with the last unit of the floating point product either way;
`ProposalLayer` is the network and `proposal_layer` up to its call of `nms`, `Nms`
one round of the outer loop of `nms` for either caller, `Detect` the rest of
`proposal_layer` and `detect` up to its own call, `Connect` the hand-over. The
network is external: `Outputs` are the sets of predictions it may make. Predictions
with a score of 50 or less may be left out of them: they come last in every order,
so they suppress nothing above them, and `detect` drops them. The two thresholds are
not alike at equality: the overlap is a `float32`, so 0.7 is below its threshold and
0.2 is not. Ties in `argsort` are left open. `HandOver` discharges `CallsAssumption`
of TextProposalGraph: a page is never wider than the table.

### TrainingTargets
`SplitLabel` is `split_label.py` with `shrink_poly`, `Load` the test of `generator`
for an image without boxes, and the steps behind them `anchor_target_layer`: the
labels, and the sampling of positives and negatives, with any choice that
`npr.choice` may make. Polygons have vertical sides, so the line through two corners
is an exact fraction, truncated where the code assigns it to an integer; overlaps
are compared as fractions. Their corners are integers within the page. The code takes
any quadrilateral; one whose upper or lower corners lie above each other divides by zero
at `utils.py:29` or `:32`, which is not modelled.

### TrainLoop
`StartFresh`, `StartRestored` and `RestoreRaises` are the three ways in which `main`
begins; `Train`, `Decay`, `Skip`, `Save` and `Publish` the statements of its loop;
`Crash` may come between any two of them. `Saver` is external: it renames the files
of a step into place, which is one step here, and then rewrites the file
`checkpoint`, which is another. Weights are known by the run they belong to.

### FrameStateDetector
`Create`, `Detection` and `Destroy` are the constructor, `detection` and the
destructor of `frame_state_detector.cpp`. What the model knows of a page is how
`analyst` takes it: refused, raised for, returned with a tuple whose fourth field is
an int or a float. CPython is external: a call that returns a value while an
exception is pending raises `SystemError`, and `PyArg_ParseTuple` stores the fields
up to the first that it cannot convert. A failure to load the module is caught
by an `assert` of the constructor, which ends the process; it is not modelled.

### TagAnalyst
`analyst` of `det_line.py` behind the detector: `Measure` is `get_interval_stats` and
the space below the text; `OpenLevel`, `ScanColumn` and `CloseLevel` are the loops
of `tag_analyst` that look for tags; `Classify`, `MergeTitle` and `ReturnTitles` the
division into titles and the loop of `first_tag_merge`; `AnalystNoLine` and
`ReturnOneTitle` the early returns. The lines are those that `detect_line` gives,
any quadrangles. `argsort` leaves ties open. The two scores are passed on. The
groups of `first_tag_merge` are modelled as it returns them, although `analyst` does not
use them. `Where` is
`np.where` on a sequence, as a recursive function: the prover can reason about that,
and not about `SelectSeq`.

### NeatLayout
`ReadConfig` and `ReadThrows` are `Init` of `det_layout.cpp`; `IsNoteNeat` begins a
call, `Pick` is one round of either `Nms`, `ArrangeBlocks` the sort of
`ConnectBlock`, `JoinBlock` and `CloseGroup` its two loops, `MergeLines` the
rectangles it returns, `ReturnNoLine` and `Report` the returns. What OpenCV does
(grey scale, threshold, dilation, connected components) is external: an image *is*
its components, its sides and the number of its text pixels. All comparisons of
ratios are done on integers, which is what the doubles compute except at equality of
`std_deviation` and its threshold, where the model allows both. Ties in the sorts
are left open. The read of row 1 of `stats` on an empty page yields any value of
`GARBAGE`. The sum of bytes wraps at `INT_MAX`.
`Overlap` is the intersection as `Iou` computes it, a column and a row too large; `Common`
and `Touch`, in the properties, are about the boxes themselves. Both callers in the repository pass
a new `NeatTarget`, and so does the model. The branch of `CalcProportion` for a
matrix that is not continuous is dead: `cv::threshold` has just allocated it.

## 3. The runs

| run | what it asks | bounds |
|---|---|---|
| `eureka` | is the object ever deleted under its thread, does the thread ever end by itself, how long does `stop()` block and does it complete, is a short outage survived, do failures lead to registrations, does the client return to heartbeats, is it registering by the time that an outage has cost the lease; does it implement WorkerLifecycle | the durations of the source: interval 3 s, timeouts 3 s, lease 90 s, threshold 6; one second of slack in a sleep |
| `enqueuer` | processes and threads: by how much can they overshoot, is `get()` ever called on nothing, does `None` always mean a failure, does a clash reach the consumer, does `stop()` end everybody | three workers, so that the overshoot is more than one, and a queue of two, which is full and empty |
| `graph` | is the graph found through the table the right one, is a maximum ever taken of nothing, do the chains cover what is linked, where may two of them share proposals, does anything of an earlier image show | every page of up to three proposals with three heights and two scores, on images of widths 2 and 4; gap 2, so that both edges of the page clip a range; `MAX_WORK` = 5 bounds images and proposals together |
| `detect` | what does each `nms` keep and drop, is a column with text lost by the two of them, does what is handed over fit the table | ten images, square, long and slivers; up to four predictions of three extents in two columns, both limits at 3, so that they are reached |
| `tags` | does the scan lose a long region or find it twice, does the merge part neighbours | every page of up to three lines out of 22 on 13 columns; a tag is longer than 1, so that regions are cut, dropped and found at every level |
| `layout` | what does `Nms` keep, and is there a cause for all that it drops; is a line one line, is the out-of-bounds read without effect | every page of up to three blocks out of 24, chosen so that blocks overlap, touch, join and stay apart; every configuration, complete, partial and unreadable, and smaller pages in turn, as far as `MAX_WORK` = 5 goes; neat and untidy verdicts both occur |
| `train` | do loop counter, `global_step` and learning rate agree after every restart, what does a crash cost | nine steps, decay every 2 and checkpoint every 3, so that they fall together and apart; five starts, so that a run is restored, abandoned and overwritten |
| `targets` | is only text trained as text, is the batch filled | images of two sizes with up to two polygons, level and slanted, that end before the right edge; a batch of 3, so that both kinds are sampled |
| `tags_connected` | the comment on connected regions (violated) | as `tags` |
| `layout_share` | the header's word on `text_block_p` (violated) | an `int` of 13 bits and 20 text pixels stand for 32 bits and 8.4 million |
| `targets_edge` | the comment on the anchor with the highest overlap (violated) | as `targets`, with polygons that reach the right edge |
| `embedding_status` | the header's word on the status -2 (violated) | three pages |

Deadlock checking is off: every model ends on purpose (the object is deleted, the
pipeline stopped, the bound on calls reached).

Fairness. The client's thread and the workers are scheduled by the operating
system, so they have weak fairness; so has `join`, and the consumer's loop, whose
process runs on. `next()` of the generator is assumed to return or raise, which
needs a data set with at least one readable, labelled image: without one it loops
for ever (a hazard listed without a property). What the owner, the trainer and the
registry do is not assumed at all.

### Findings
1. `tags_connected`: behind a gap the scan of `tag_analyst` begins the next interval
   at the end of the last one, so a tag can span columns that do not belong to it,
   and the number of lines reported as others changes with it.
2. `layout_share`: the sum of bytes in `CalcProportion` overflows beyond 8421504
   text pixels; the share is then negative and the page untidy.
3. `targets_edge`: `shrink_poly` gives a polygon that reaches the right edge of the
   image a piece that begins beyond it. No anchor overlaps that piece, so the
   greatest overlap is 0, every anchor has it, and every anchor becomes positive.
4. `embedding_status`: `detection` neither clears the exception of a call that failed
   nor looks at the result of `PyArg_ParseTuple`; every later page is answered with
   -2 until the object is destroyed.

Noted without a run:
* `Iou` of the layout adds 1 to the width and the height of an intersection, and the
  comments at `det_layout.cpp:108` and `:123` say that it should not. Boxes that only
  touch have an intersection then: a block of 3x2 at (0,0) is dropped for one of 6x4 at
  (0,2), with which it has no pixel in common. `TouchingSuppresses` proves that this is
  so for every box of one or two rows above one as wide; `DropsHaveCause` bounds the
  effect, which is a column, a row and a pixel, and never drops a box of three pixels or
  more in both directions that is merely touched;
* `build_graph` says that a box has several precursors if these have equal scores;
  it can have two with different ones, because `is_succession_node` looks at the
  nearest column only, and it never has two successions;
* `resize_image` tests `//` where `%` is meant: sides below 16 stay off the grid,
  sides on the grid grow by 16;
* the header of the layout calls `text_area_p` the absolute share of the text, the
  code reports the area of the box around all blocks over the page;
* `tag_analyst` says that a page is written from left to right if the lines of its
  thirds increase; the code asks for less;
* `first_tag_merge` loses a title that is close to neither neighbour.

## 4. The proofs

TLAPS proves, for every value of the constants that the ASSUMEs admit:

* `EurekaClientProofs`: types, `NoUseAfterDelete`, `ServesUntilStopped`,
  `StopBounded`, `LeaseKept`, `RegistersWhenLost`, and that the safety part of EurekaClient implements
  that of WorkerLifecycle. The invariant adds where the thread may be in each phase
  of the owner, how much of a round is left at each label once `stop()` has cleared
  the flag, and an upper bound of the lease's age in terms of the calls missed.
  `RegistersWhenLost` is proved for a threshold that fits (`ThresholdFits`: one round more
  than the tries is no longer than the lease): a call that the entry missed without an
  answer is a failed try (`CountInv`), so a lease that is over has used up the tries.
* `GeneratorEnqueuerProofs`: types, `QueueBounded`, `GetNeverBlocks`,
  `NoneMeansFailure`, `StopLeavesNobody`. The bound on the queue is not inductive:
  with threads the invariant counts the workers between the comparison and the `put`
  (`Pending`), and says that queue and pending together stay below the limit.
* `TextProposalGraphProofs`: types, `GraphIsNearest`, `EdgesGoRight`, `ChainsMeet`,
  `PrecursorsExist`, `ChainsCover`. The invariant says that the columns of the image hold
  this image's proposals and that the rows of the matrix up to `index` are those of the
  definition without a table. A maximum is never taken of nothing: `meet_v_iou` is
  symmetric and so is the reach, so a succession has the box it was found from among its
  hits, and of these one is nearest. For the chains (`ChainsInv`) every chain so far
  follows links and is ended, the one that is walked excepted, and every head that was
  passed has its chain. A leftmost linked proposal that is in no chain would have a
  predecessor in one, which goes on to its only successor.
* `DetectLineProofs`: `NmsExact`, `HandOver`, `ColumnsSurvive`, for every image, every
  output of the network and every limit. The invariant bounds the sides through `Scale`
  and `Align` (from bounds on a quotient), keeps every box inside of the image and the
  order sorted, and says of `nms` between two rounds that what is kept overlaps nothing
  that is still in, and that what is out is covered by something kept. For the columns
  (`ColumnsInv`): decoded boxes are 17 wide on a grid of 16, so two columns share one
  column of pixels at most, which reaches neither threshold; a box is only ever
  suppressed by one of its own column and of no lower score.
* `TrainLoopProofs`: types, `InStepAlways`, `LossBounded`, for all values of the flags
  and any number of crashes. The invariant says at each statement how far loop
  counter, `global_step` and decays are apart; that a file, once written, holds the
  state of the step in its name, whichever run wrote it; and that the checkpoint of
  the present run is less than `SAVE_STEPS` rounds behind.
* `NeatLayoutProofs`: types, `Separated`, `DropsHaveCause`, `GarbageUnused`,
  `LinesAreWhole`, for pages of every size with any number of blocks. The invariant says that what `Nms` has
  still to look at is no greater than, and not suppressed by, anything it has picked; that
  every box is left, picked, too big or suppressed; and that boxes and lines stay within the
  page, which is what makes their areas comparable. What suppression means for the boxes
  themselves follows from how `Overlap` differs from `Common` (`OverlapParts`,
  `SuppressedMeans`). For the lines (`LineInv`): no block is
  picked twice, and the edges that the inner loop has moved are those of blocks in the
  group, so a block that joins is near to one of them; centres are compared with the
  block that opened the group, so two of them are within twice the limit. The mean height
  is a sum over a fold, whose value is a natural by an induction on the size of its domain
  (`SumOfNat`). `ShareBelowOverflow` says where the finding of `layout_share` begins: up
  to `INT_MAX / 255` text pixels the reported number is the exact one.
* `TagAnalystProofs`: types, `TagsApart`, `LongRegionsTagged`, `CloseTogether`, for every
  width and any lines. `coord` is the increasing list of the columns of a level
  (`ColumnsFacts`, by induction on the list), so neighbouring columns are neighbours in
  it and a region is a run of indices (`RegionIsRun`). The invariant (`TagInv`) says that
  the run that ends at `m` lies between the two indices of the scan (`LastRun`), that a
  long run passed before is in the open interval or in a tag (`Pending`), and the same of
  the levels that are finished. For the titles (`TitleInv`): the last group is not empty
  and the loop has put every close pair into one.
* `TrainingTargetsProofs`: `PositivesTouch` and `BatchFilled`, for images of every size,
  any polygons with vertical sides and integer corners within the page, and every size of
  the batch. A piece of a polygon holds a pixel of it, the
  anchors of height 16 are the cells of the grid, so a piece that begins inside of the
  image is overlapped by an anchor and the best one overlaps it; among finitely many
  fractions one is greatest, so every box makes a positive. `PositivesTouch` is proved
  for images whose polygons end before the right edge (`EndsInside`), and
  `EdgeMakesAllPositive` says why: with a polygon at the edge every anchor within the
  image is labelled positive. `BatchFilled` is proved for `RPN_CLOBBER_POSITIVES` off, as
  in `config.py`, and a batch of two or more: half of a batch of one is none.

The assumptions are on the constants only: positive durations and sizes, a lease no
shorter than a request, boxes and polygons within their page, a table of at least 1216
columns, predictions that are finite in number and not upside down.

Induction. The provers cannot apply an induction theorem to a property. Where a proof
needs one (folds, recursive functions, a greatest element) it takes the set of the
numbers for which the property holds and shows that it has 0 and every successor; such a
set is `Nat` because its complement would have a least element (`SetInduction`).

Only model-checked: liveness (`FailuresForceRegister`, `BackToHeartbeats`,
`LifecycleSpec`'s fairness, `BatchOrNews`, `StopCompletes`, `WorkersEnd`),
which is out of the prover's reach. Every invariant of the passing runs is stated by a
theorem. FrameStateDetector has no theorem: its run is about a disagreement.

## 5. Plan

Done, in this order: EurekaClient with WorkerLifecycle; GeneratorEnqueuer;
TextProposalGraph; NeatLayout; TagAnalyst; TrainLoop; DetectLine, which composes with
TextProposalGraph through `HandOver`; TrainingTargets; FrameStateDetector; the proofs
above.

Next, in this order:
1. how far a tag of `tag_analyst` can be from a connected region, as a theorem beside the
   run `tags_connected`;
2. the sums of `ltor` and `OthersCount`: that every line is counted in one class;
3. `main/det_layout.py` as a specification of its own that implements NeatLayout
   under a refinement mapping, up to its other early returns.

## 6. Not modelled, and why

Networks, regression targets and their weights, `polyfit` on a chain and
`filter_boxes` on the corners it yields are floating point arithmetic without control
of their own. The Python twin of the layout is the algorithm of NeatLayout once more;
`analyst` uses its proportions and corners only. Of the dataset scripts, reading and
writing of files and `orderConvex` are left out. The mind map analyst is a stub,
`det_line_v1.0.py` an earlier version, the programs under `test/` are drivers.
Reference counts of the embedding are not modelled, nor is a call from a second
thread: the class has no lock, and its callers use one thread.

By far the most lines of the repository are not its own: Chromium base, grpc,
breakpad, OpenCV and caffe headers, a JSON parser, and the C that Cython generates
from two `.pyx` files (the models are of the `.pyx`). The code that is modelled, some
1500 lines, is the part of the rest that has control of its own, and a small share of
the whole. The HTTP front end is not part of the repository. JSON bodies, host
addresses and log output have no influence on control. A worker process that is killed
from outside is not modelled: the code has no answer to it.
