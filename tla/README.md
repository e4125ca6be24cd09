# TLA+ models of the Cachegrind cache simulator with spatial and variable attribution

This directory holds TLA+ models of `src/cachegrind/cg_sim.c`, the extended
cache simulator of Cachegrind. It also lists the parts of the repository that
are planned or left out. TLC checks every module through the runs listed in
`PROJECT.json`.

## The system

| Part | Code | State | Operations |
|---|---|---|---|
| Cache model | `cache_t2`, `cacheline_t`, `cachesim_initcache` | per set: `assoc` lines (tag, spatial bitvector, access count, owning `LineCC`) and an LRU list of slot indices; histograms `num_evicts_*` per source line | init |
| Set-associative LRU simulator | `cachesim_setref_is_miss`, `cachesim_ref_is_miss` | the cache | reference of one block (hit: promote; miss: evict LRU, count the evicted line in its owner's histogram by words used, install); reference of `size` bytes, split into two probes when it straddles a line |
| Drain | `cachesim_collect_undrained_lines`, `cachesim_finish` | histograms | count every resident line once at the end of the run |
| Hierarchy and classification | `cachesim_initcaches`, `cachesim_I1_doref_*`, `cachesim_D1_doref` | I1, D1, LL, the shadow caches INFI (infinite), FA_D1 and FA_LL (fully associative, same capacity), the `CacheCC` counters of each source line | instruction fetch: I1, then LL on an I1 miss; data reference: shadows, D1, then LL on a D1 miss, each miss classified compulsory (INFI missed), conflict or capacity (by the fully associative shadow) |
| Variable table and listing loader | `cmp_var_range`, `comp_addr_var`, the poll in `cachesim_D1_doref` (706-808) | an ordered set of address ranges, `done`, `ref_counter` | every 10000 D1 hits: read `varinfo.txt`, insert one range per complete line, set `done` |
| Variable attribution | `cachesim_setref_is_miss` 455-511 | `cu_table`, `cr_table` | per miss: usage of the evicted line's variable, a (victim variable, new variable) pair record |
| Listing writer | `Util/util.c` and the benchmarks' `varinfo_*` calls | `varinfo.txt` | append `name start end` lines, flush on close |
| Benchmarks | `Simple/src/matrix.c`, `conflict.c`, `Himeno/src/himenoBMTxpa_{aos,pad}.c`, IRSmk, PolyBench correlation | heap arrays, the listing they print, OpenMP threads (Himeno) | allocate, list, initialize, run the kernels |

How the parts interact:
- The Valgrind tool (`cg_main.c`, not in this repository) calls the `doref` functions once per access of the traced program. It bumps the access count of the issuing line before it does.
- `cachesim_D1_doref` feeds every data reference to INFI and both fully associative shadows. It then feeds the reference to D1, and to LL only when D1 misses.
- Instruction fetches go to I1, and to LL on an I1 miss. They carry no owning line, so their LL evictions are never counted. They never reach the shadows.
- The traced program writes the variable listing while the simulator runs. The simulator polls the listing from the D1 hit path.

Behaviours that make this code hard to test, with their source lines, are listed as `hazards` in `PROJECT.json`:
- the LRU shuffle and the straddle split;
- tag 0 of never-filled lines;
- eviction and drain accounting, and a second `cachesim_finish`;
- the order in which the shadows see references, and the inverted LL classification;
- the unclamped histogram index and the `1 << i` word shift;
- the listing poll against a writer that is still writing, the stale byte of the line scan, and overlapping ranges;
- the shared `cr` hook of a straddling reference, and the pair ids;
- the benchmarks' own layouts: allocation sizes against the accesses, listed ends against the accesses, the unclamped blocked loops of `matrix.c`, int32 wrap-around;
- the OpenMP region of Himeno's `jacobi`: barriers, `nowait` loops, the master reset of `gosa` and the critical sum.

## Modules

- **`CacheSim`** has no variables. Its operators act on a cache value. `InitCache` is `cachesim_initcache`. `SetRef` is `cachesim_setref_is_miss` without the variable attribution. `Probes`, `Ref` and `IsMiss` are `cachesim_ref_is_miss`. `CollectUndrained` is the drain.
  - A line is a record `[tag, bv, acc, src]`. The bitvector is a number, set by `BitopSetRange` (the loop of `bitop_set_range`) and counted by `BitopCount` (Kernighan's loop of `bitop_count`, over `Bitwise`'s `&`). `BitsOf` is the reference set of its one bits. With at most 16 words per line, `1 << i` stays below the sign bit of `int`.
  - The LRU list is a sequence of slots. `Promote` is the hit shuffle (lines 408-416). `Rotate` is the miss rotation (426-443).
  - The module is parameterised by the cache geometry and `CountEvicts`. `CountEvicts` is FALSE for I1, whose evictions the code never enters in a histogram, because `line` is NULL.
- **`LRUCache`** is the abstract specification of a set-associative LRU cache. Each set is a list of blocks, most recent first. It has no slots, tags or histograms.
- **`SingleCache`** is one cache driven by references and by `cachesim_finish`. It has two auxiliary variables: the bytes of each block touched since it was installed, and the lines each source line installed. It is shown to refine `LRUCache`: the refinement mapping reads each set's tags in LRU order and drops the zero tags of never-filled slots. A third auxiliary variable, the blocks the last reference probed, is mapped to the abstract `last`, so every step must match the abstract step of the block actually referenced.
- **`ShadowCaches`** holds INFI and the fully associative LRU shadows. Their C code (`cacheinfi_*`, `cachefa_*`) is not in the repository, so they follow the spec's definitions (section 4.3) and are marked `spec_modelled`.
- **`CacheHierarchy`** composes three `CacheSim` instances (I1, D1, LL) and the shadows, with the `CacheCC` counters of each source line and kind (Ir, Dr, Dw).
  - `IrRef` is `cachesim_I1_doref_Gen` and `_NoX`. They behave alike when I1 and LL share the line size, which `cachesim_is_IrNoX` requires.
  - `DataRef` is `cachesim_D1_doref` up to the listing poll.
  - `Finish` is `cachesim_finish`.
  - The auxiliary variable `hist` records the data blocks in probe order. The miss causes are defined from it by reuse distance, independently of the shadow caches.
- **`VarListing`** models the listing file between its writer and its reader.
  - The writer is `varinfo_file_open`, `varinfo_file_print` and `varinfo_file_close` of `Util/util.c`. `fprintf` writes each line as the bytes `name 0x<begin> 0x<end>\n` (`LineText`, lower-case hex as glibc's `%p`). The bytes reach the file only in whole stdio buffers (`Flushed`) until the close flushes the rest.
  - The reader is the poll of `cachesim_D1_doref`, translated byte by byte. `Tick` counts a D1 hit. `Poll` runs the read loop of lines 743-797 on the file's bytes (`ReadChunks`, `ParseLines`): the newline scan (`ScanNL`, which tests the byte before the bound, as line 752 does), the name scan that stores `'\0'` at the space (`ScanSP`), `VG_(strtoll16)` (`Strtoll16`: skip white space, an optional `0x`, hex digits), the insert that asserts on a range `cmp_var_range` finds overlapping (`Duplicate`), and the tail copy into `buffer` (`CarryTail`). It sets `done` once a variable was inserted (`LoadedOnce`). `Loaded` is a D1 hit after that. A poll that ends in a crash (a copy of negative length, a store past `buffer`, a duplicate insert) sets `crash` and stops the model.
  - `buffer` is 2·`ReadLen` bytes of uninitialised stack. The model fills it with a byte that is neither space, digit nor newline; with `StaleNewline` one byte, anywhere, may be `'\n'`. The outcome of a poll for every file content and every such buffer is computed once (`PollResult`). `Init` chooses each variable's name from `NameChoices`; with `Leftover`, `varinfo.txt` already holds an earlier run's listing before the program's `fopen` truncates it.
- **`VarAttribution`** composes one `CacheSim` instance (D1, evictions counted) with `ShadowCaches`. It adds the attribution of `cachesim_setref_is_miss` (lines 455-511) and the pair classification of `cachesim_D1_doref`.
  - `Resolve` is `comp_addr_var`, inclusive at both ends. `AttrProbe` threads the usage table `cu`, the hook `cr` and the auxiliary records through the one or two probes of a reference. `HookInit` is `cr = NULL` at entry. `PairId` is `(in << 10) + out`.
  - Auxiliary variables record the hits and the words used of each installed block, summed per variable at eviction, and the probe misses that pointed `cr` at each pair record.
- **`MatrixMultiply`** is `Simple/src/matrix.c`: the argument check (`Reject`), the allocation-failure exit (`AllocFail`), `initialization`, `multiply_simple` (`SimpleDot`, RECURSIVE), `multiply_blocked` one (i, j) iteration at a time with its unclamped loop bounds, and `verify_results` (`Differs`).
  - An element read outside its array is undefined, so the model chooses it from `Junk`. A write outside `C_d` is recorded in `oob`.
  - `int32_t` wraps modulo `2^IntBits`. `Product` is the reference definition of the matrix product.
- **`HimenoGrid`** holds the definitions both Himeno modules share, from `himenoBMTxpa_aos.c` and `_pad.c`: the matrices of `main` with their pads, `newMat` / `newMat_packed*`, the `MR` / `MR_PACKED` addressing, the listed ranges, the planes of `mat_set*`, and the accesses of both loop bodies of `jacobi`.
- **`HimenoLayout`** (`EXTENDS HimenoGrid`) is `main` as a sequence of phases. `Allocate` is one `newMat*` (malloc places buffers 16-byte aligned after a `Header`). `List` is one `varinfo_file_print`. `SetPlane` is one plane of `mat_set*`. `Sweep1` and `Sweep2` are one point of each jacobi loop.
- **`HimenoJacobi`** (`EXTENDS HimenoGrid`) is the OpenMP region of `jacobi` / `jacobi_packed` with `T` threads and `NN` sweeps.
  - Each thread has a `pc`: `Reset` is the master block and `gosa1 = 0`, `Sweep1` and `Sweep2` are one point of each `omp for nowait` loop over the rows the schedule gives the thread, and `Critical` is the critical addition and the end of the `n` loop. The loops have no `schedule` clause, so OpenMP leaves the split to the runtime: `sched`, chosen in `Init`, gives each row of each loop to any one thread, independently for the two loops.
  - `Barrier` lets all threads pass once every thread waits at it, for the barrier at the top of the `n` loop, the one between the loops, and the implicit one at the end of the region.
  - The reads and writes of `p`, `wrk2` and `gosa` are recorded per thread since the last barrier. Values are not: `gosa` counts residual terms.
- **`SimpleLayout`** is `main` of `conflict.c`, `matrix.c` or PolyBench `correlation.c` against the attribution. `aligned_alloc(64, ...)` places each buffer at least one gap from `Gaps` after the previous one. The listed ranges end one past the array. Each element access in program order (`Accesses`) is resolved as the simulator resolves it, by the base address of its cache line (`LineBase`, `Resolve`).
  - Each access is a read or a write, and `written` holds the addresses written so far.
  - For `correlation.c`, the arrays `data`, `corr`, `mean` and `stddev` are placed on `PolyAlign` boundaries. `acquire_var_addresses` lists each array's last element as its end (`ListedEnd`).
  - `InitArray`, `KernelMean`, `KernelStddev`, `KernelCenter`, `KernelCorr`, `CorrFinal` and `PrintArray` are the loop nests of `init_array`, `kernel_correlation` and `print_array`. Each is a sequence of element reads and writes, built with `Loop` (SequencesExt's `FlattenSeq` over the iterations). A compound assignment `x op= y` is a read of `y`, a read of `x` and a write of `x`.
  - The floating-point values are left out.
- **`IRSmkLayout`** is `main` of `IRSmk.aos` with `readInput`, `allocMem*`, `init` and `rmatmult3`, as a sequence of phases.
  - `ReadInput` picks one of the input files and exits when the sanity check of `utility.c:46` fails.
  - `Allocate` is one malloc, in the program's order. glibc carves a chunk of `n + 8` bytes rounded up to 16 (`Chunk`), and a fresh heap hands the chunks out back to back.
  - `List` is one `varinfo_file_print`, with the ends the program computes (`ListedEnd`). `ListSkipped` is a failed `varinfo_file_open`.
  - `InitStep` is one iteration of a loop of `init`. `KernelStep` is one point of `rmatmult3`'s loop nest: the 24 struct fields, `ufl/ufc/ufr[i]`, 27 elements of `x` and the write of `b[i]`. `PrintStep` is one `printf` of the result loop.
  - The `RadiationDataAos*_t` header is not in the repository. Each struct is taken to hold its eight doubles in the order `init` writes them.
- **`MCSingleCache`**, **`MCCacheHierarchy`**, **`MCIRSmkLayout`**, **`MCVarListing`** and **`MCVarAttribution`** define the listing, variables and reference sets for TLC. The other modules take only numbers and strings from their `.cfg` files.

## Runs

| Run | Module | Checks | Result |
|---|---|---|---|
| `single_cache` | SingleCache | `TypeOK` (LRU lists stay permutations), `BitvectorIsTouchedWords`, `EvictionAccountingConserved`, `LRURefinement` | pass |
| `hierarchy` | CacheHierarchy | `D1MissCauseMatchesReuseDistance` | pass |
| `ll_cause` | CacheHierarchy | `LLMissCauseMatchesReuseDistance` | violation |
| `var_listing` | VarListing | `LoadedIsListingPrefix`, `EventuallyLoaded` | pass |
| `stale_newline` | VarListing | `PollToleratesFile` with an uninitialised `'\n'` in `buffer` | violation |
| `var_attribution` | VarAttribution | `UsageMatchesEvictedLines`, `PairClassifiedOnlyWhenHooked` | pass |
| `straddle` | VarAttribution | `PairMissesClassified` | violation |
| `matrix` | MatrixMultiply | `BlockedInBoundsIffDivides`, `VerifiedMeansProduct` | pass |
| `himeno_packed_overflow` | HimenoLayout | `AccessesWithinAllocation` (aos variant) | violation |
| `himeno_jacobi` | HimenoJacobi | `TypeOK`, `NoDataRace`, `GosaIsLastSweepResidual`, `Terminates`, deadlock | pass |
| `simple_layout` | SimpleLayout | `ListedRangesDisjoint`, `AccessAttributedToOwnArray`, `ReadsOnlyWritten` (conflict.c, matrix.c, correlation.c) | pass |
| `irsmk_layout` | IRSmkLayout | `TypeOK`, `AccessesWithinAllocation`, `AccessesWithinListing`, `Terminates` | pass |

What the passing runs show:
- **`BitvectorIsTouchedWords`:** each resident line's bitvector has exactly the bits of the words that the references since its installation touched. This includes both halves of a straddling reference. `bitop_count` of the bitvector, which the eviction and the drain use as a histogram bin, is the number of those words.
- **`EvictionAccountingConserved`:** every line a source line installed is entered in its histogram exactly once, either at its eviction or by the drain. This relates the histograms to the history of installs.
- **`LRURefinement`:** hits, misses and contents agree with the abstract LRU cache on every step.
- **`D1MissCauseMatchesReuseDistance`:** every D1 miss is counted under the cause that its reuse distance in the data stream defines:
  - compulsory on a block's first touch;
  - capacity when a fully associative cache of D1's capacity would also have lost a block of the reference;
  - conflict otherwise.

  The counters are shared by source lines and kinds, and instruction fetches interleave with data references.
- **`LoadedIsListingPrefix`:** every table a poll builds is a prefix of the listing the program printed, each variable with its own range, wherever a read ends inside a line and wherever the file is cut at a flush. The check covers polls before, during and after the writing, with a listing longer than a read and longer than the stdio buffer, and no newline among the uninitialised bytes of `buffer`. A poll of a file cut at a flush loads only the lines before the cut and sets `done`: the rest is never loaded, which spec 9 leaves open.
- **`EventuallyLoaded`:** while D1 hits keep coming and the program runs to its close, the listing is loaded.
- **`UsageMatchesEvictedLines`:** summed over source lines, a variable's usage records hold exactly the hits and the words used that its lines had while cached. This relates the tables to the whole history of installs and evictions across two source lines.
- **`PairClassifiedOnlyWhenHooked`:** a pair record receives a miss classification only in a reference whose probe missed and pointed `cr` at it. `cr` is not carried over from an earlier reference.
- **`BlockedInBoundsIffDivides`, `VerifiedMeansProduct`:** `main` accepts any block from 1 to the size. The blocked loop nest stays inside the arrays whenever the block divides the size, and after `verify_results` it has stayed inside exactly then: size 3 with block 2 writes past `C_d`. Whenever the run reaches `done`, `C` is the reference product, also when the sums wrap, and `verify_results` reports agreement exactly when `C_d` is that product too.
- **`NoDataRace`:** between two barriers, no thread writes an element of `p`, `wrk2` or `gosa` that another thread reads or writes, except inside the critical section. This holds for every split of the rows between the threads, different for the two loops, with a master reset that has no barrier after it, and over consecutive sweeps.
- **`GosaIsLastSweepResidual`:** when the region ends, `gosa` holds each residual of the last sweep exactly once. The check also rules out deadlock at the barriers.
- **`Terminates`:** under fair scheduling of the threads, the region always ends. This includes a thread whose share of the rows is empty, which must still meet every barrier.
- **`ListedRangesDisjoint`, `AccessAttributedToOwnArray`:** the ranges the Simple benchmarks and `correlation` list never touch, so the loader's insert never meets a duplicate. Every line an access touches resolves to its own array, or to none for `matrix_fill`, whatever gap malloc leaves. This holds with either end convention: one past the array, or the last element.
- **`ReadsOnlyWritten`:** no statement reads an element of the uninitialized heap arrays before an earlier statement wrote it. This covers `conflict()`'s reads of `B` and `C`, and the accumulations into `mean`, `stddev` and `corr`. It also covers `print_array` reading every entry of `corr`, which needs both triangles and the diagonal. The last diagonal entry is written only by line 120, after the loop that stops at `M-2`.
- **`AccessesWithinAllocation`, `AccessesWithinListing` (IRSmk):** every element that `init`, the 27-point stencil of `rmatmult3` and the result print touch lies inside its malloc'd buffer. It also lies inside the range `main` lists for it.
  - The stencil's lowest read, `x[i-kp-jp-1]`, stays in `x` only because of `readInput`'s check. At equality it reads `x[0]`.
  - The highest read stays in `x` because of the slack in `x_size`.
- **`Terminates` (IRSmk):** on the run's inputs, `main` always reaches its return or `readInput`'s exit. This covers every loop of `init`, the `noIter` kernel calls and the result print.
  - The print loop steps by `i_ub/5`. `readInput`'s check also accepts a grid with no zones, such as `1 1 1 1 1 1 25 5` (`i_ub = 1`). With such a grid the step is 0 and `main` never returns.
  - The run keeps to the documented format. Adding that grid to `MCInputs` makes `Terminates` fail, with a stutter in the print phase (hazard at `main.c:146`).

What the violation runs show (the findings of `PROJECT.json`):
- **`ll_cause`:** the LL classification at line 697 is inverted with respect to the spec and to the D1 branch. After data blocks 1, 3, 5, 1 through a one-set LL, the last miss would be a conflict miss by definition, but the code counts it as capacity.
- **`stale_newline`:** the line scan (line 752) tests `*line_end` before the bound, so it reads the uninitialised byte of `buffer` just past the data read. When a read ends inside a line (a listing longer than 256 bytes, such as Himeno pad's fourteen lines) and that byte is `'\n'`, the cut line `A 0x` is parsed: both `strtoll16` calls find no digit and `[0,0]` is inserted, `line_end` steps one past `buffer_end`, and the tail copy at line 790 gets length -1. Spec 6 says a partial last line is kept for the next read.
- **`straddle`:** both probes of a straddling reference set `cr`. The first probe's pair record is counted but never classified.
- **`himeno_packed_overflow`:** `newMat_packedB/C` (aos lines 378/380, 393/395) pad the malloc by `pad` bytes but offset `m` by `pad` 16-byte elements, so `mat_set_packedB` writes past the buffer.

Further disagreements are recorded as hazards in `PROJECT.json`, each with the change of bounds that shows it. The project keeps one violation run per component, for its most consequential disagreement. The others are:
- block 0 hitting in a cold cache;
- a second `cachesim_finish` double-counting the resident lines;
- a listing larger than the stdio buffer loaded only in part (spec 9 leaves this open);
- a `varinfo.txt` left by an earlier run, loaded by a poll before the program's `fopen` truncates it (`Leftover` set to one earlier line fails `LoadedIsListingPrefix`);
- pair records `(v, v)`;
- `matrix.c` accepting a block that does not divide the size is checked in the `matrix` run itself;
- Himeno's listed ranges ending one plane before the last plane the stencil reads;
- IRSmk's array-of-structs blocks listed up to a field of element `i_ub`, 56 bytes past the block. With glibc's back-to-back heap chunks, the `aos1` range runs 40 bytes into `aos2`, and `aos2` into `aos3`, so the loader gets overlapping variables (hazard at `main.c:130`). A run on `IRSmkLayout`'s listing shows the overlap at the fourth line.

Every property of a passing run has a mutant in `PROJECT.json`: a plausible fault in a mapped definition, such as a hit that does not promote, a rotation that keeps the victim, a drain that skips the LRU slot, the D1 branches swapped, a tail copied to the start of `buffer` instead of after it, the listing marked loaded on an empty table, `cr` kept across references, the k loop run one too far, the last row skipped by `verify_results`, IRSmk's sanity check dropped, the listed end of `x` taken from `i_ub`, `init`'s loops run one too far, the sweep counter's bound test dropped, `gosa = gosa1` for `gosa += gosa1`, or the barrier at the top of the sweep left out. TLC finds the property violated under each of them.

## Bounds

- **`single_cache`:** a 32-byte, 2-way cache of 8-byte lines (2 sets, 4 words per line) and one source line (plus "no line").
  - There are seven references over blocks 1-6, three blocks per set, so sets fill and evict. Two references straddle a line boundary.
  - Up to 5 references and one finish are allowed. This is enough for two evictions in the same set after a hit has reordered it.
  - About 203k states, 23 s. A second source line multiplies the state space by five and adds no new control path, because `src` is only copied.
- **`hierarchy`:** a direct-mapped I1 and D1 of 2 lines, and a 2-way LL of 4 lines, with 8-byte lines.
  - There are five data references over blocks 1-5, one of them straddling, and two instruction references, one sharing a block with the data.
  - With 5 references, all three causes occur at D1 and at LL. A block returns after one other block (conflict) or after two (capacity).
  - About 178k states, 11 s.
- **`var_listing`:** three listed variables at 16-24, 40-48 and 64-72, each named `A` or `C_d` (lines of 12 or 14 bytes, 36 to 42 in all), read in 16-byte chunks from a 32-byte buffer, with a 32-byte stdio buffer and a poll every third D1 hit. These stand for `read_len` 256, `buffer[512]` and BUFSIZ 4096 with a listing longer than both.
  - Reads end inside names, inside `0x`, inside digits, on newlines and between lines; the file is cut at a flush inside the third line; polls happen before, during and after the writing.
  - `stale_newline` uses the same listing with a 64-byte stdio buffer, so the file is whole, and lets any one byte of `buffer` be `'\n'`.
  - 216 states.
- **`var_attribution`:** one D1 set of two ways and 8-byte lines of two words, so every block competes with every other.
  - Two variables cover blocks 1-2 and 3-4, and block 6 belongs to none. One reference straddles the two variables.
  - There are two source lines and up to 5 references: enough to evict a line of each variable, from either source line.
  - About 41k states, 13 s.
- **`matrix`:** sizes 2, 3 and 4 with blocks 0, 1, 2 and 4. Block 0 and blocks larger than the size are rejected; size 3 with block 2 is accepted and overruns.
  - `Junk` {0, 1} for elements read outside an array.
  - `IntBits = 7`, so that entries of `C` (up to 126 at size 4) wrap as the default size 1024 wraps 32-bit sums.
- **`himeno_packed_overflow`:** a 5x3x4 grid, the smallest with interior points in every loop and several i planes. The pads are the programs' own, which is what matters for the overflow.
- **`himeno_jacobi`:** 3 threads over 2 rows of 3 points each (mimax 4, mjmax 3, mkmax 5), and 2 sweeps.
  - The row splits include the one giving the third thread an empty share, which must still meet every barrier, and splits that give a thread different rows in the two loops.
  - Two sweeps take every barrier, the master reset after a previous sweep's criticals, and the end of the region.
  - About 14k states, 19 s.
- **`irsmk_layout`:** three input files. The first is one zone per axis in the documented format (`[ijk]min = 2`, `jp = imax+2`, `kp = jp*(jmax+2)`). The second is the same grid started at 1, where the sanity check holds with equality. The third has `kmin = 0`, which the check rejects.
  - `noIter` is 2 instead of 5000: the calls repeat the same accesses.
  - About 1.6k states. Each step is one loop iteration, so the run follows every element of `init` and every point of the kernel.
- **`simple_layout`:** both programs (chosen in `Init`) with size 8: conflict.c arrays of one 64-byte line, matrix.c arrays of four lines. Each listed end is the base of the line after its array. `matrix_fill` is 2x2.
  - Gaps of 8 or 72 bytes put each buffer either right at the next line or one line later.
  - `correlation` with N = 4 and M = 3, so that a swapped `data[k][i]` index would show. `M - 1 = 2` rows of the `corr` loop cover both an inner loop of two and one of one. `PolyAlign` is 4096.
  - About 11k states.
- The word count per line stays within `MAX_NUM_BINS`, which is an ASSUME of `CacheSim`. Lines with more words are the unclamped-index hazard, noted in `PROJECT.json`.

## Fairness

`VarListing` assumes weak fairness of the writer and of D1 hits. The writer is the traced program, which runs its listing code to the close. A D1 hit is a step the trace produces while it runs. The code's own eventuality, loading the listing, depends on D1 hits: `ref_counter` counts nothing else. A trace that only misses D1 is excluded by this assumption, and that case is the liveness hazard of line 729.

`IRSmkLayout`'s `FairSpec` assumes weak fairness of `Next`. `main` is a single thread, and every enabled step is the next statement it executes. `Terminates` is checked under this assumption.

No module other than `VarListing`, `HimenoJacobi` and `IRSmkLayout` assumes fairness, and the other modules' properties are safety or refinement properties. The simulator is driven entirely by its caller.

`HimenoJacobi` checks deadlock: every thread reaches every barrier, and the terminal state is the stutter after `jacobi` returns. Its `FairSpec` assumes weak fairness of each thread's steps and of each barrier. The OpenMP runtime runs every thread of the team, and a barrier opens once all have arrived. `Terminates` is checked under this assumption. The other runs set `CHECK_DEADLOCK FALSE`, because the traced program or the trace really ends: after `cachesim_finish`, after `MaxRefs` references, or when `main` returns.

## Not modelled

- **The shadow caches' own code:** not in the repository, so modelled from the spec.
- **`cg_main.c` (the Valgrind tool):** not in the repository. Its calls are the actions' inputs.
- **Floating-point values:** the Himeno stencil, IRSmk's `rmatmult3` and PolyBench `correlation`. Only the addresses they touch matter to the simulator, and no property depends on the values. Himeno's addresses are modelled, and so are correlation's element reads and writes. `polybench.h`, `polybench.c` and `correlation.h` are not in the repository. `SimpleLayout` assumes PolyBench's defaults: `double` elements and an allocator aligning to `PolyAlign`. `correlation`'s `-h` exit and a failed `fopen` only skip the listing, and are left out.
- **IRSmk.ori:** its `main.c` calls an `allocMem`, `init` and `rmatmult3` for the 27 separate arrays of `RadiationData_t` that are not in the repository. Only `IRSmk.aos` is modelled.
- **Himeno's pad variant as a passing layout run:** `HimenoLayout` is checked in the `himeno_packed_overflow` run only. The pad variant's allocations are correct (its pad is multiplied by `sizeof(float)`, pad line 324), and `HimenoJacobi` models the pad variant's region.
- **The debug log, `print_var_table`, `init_var_array` (a copy nothing reads), the unused `find_var_in_table`, report formatting and `CalElapsedTime`:** no effect on simulated state.
- **`VG_(stat)`, `VG_(open)` and `VG_(read)` failing:** a failed stat or open only skips the poll; a read returns at most what the file holds. `VG_(strtoll16)` is Valgrind's (not in the repository) and is modelled by its documented behaviour on the bytes the listing contains.
- **Wide lines (more than 16 words):** the histogram index and `1 << i` hazards need the 64-bit vector as an integer. No configuration of the tool uses them.

## Plan

1. (done) `CacheSim`, `LRUCache`, `SingleCache` with its refinement, `ShadowCaches` and `CacheHierarchy`.
2. (done) `VarListing`, `VarAttribution`, `MatrixMultiply`, `HimenoGrid`, `HimenoLayout`, `HimenoJacobi`, `SimpleLayout`.
3. (done) `IRSmkLayout`, and termination of the Himeno region.
4. `VarAttribution` composed with `VarListing`, so that attribution starts at the poll. (done) PolyBench `correlation` in `SimpleLayout`, with reads before writes.
