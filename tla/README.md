# A TLA+ model of the CalvingMIP Experiment 1 post-processing

This directory holds a TLA+ verification project for the post-processing
script `examples/marine/calvingmip/postprocess_exp1.py`. The script turns a
PISM snapshot and time series into the CalvingMIP exchange file. It cuts eight
radial transects through the domain, samples the fields along them, and writes
the 2-D fields and the eight profiles to a netCDF file.

## Inventory of the sources

| source | what it does | status |
|---|---|---|
| `src/examples/marine/calvingmip/postprocess_exp1.py` (485 lines) | Runs top to bottom once. It reads the snapshot (lines 26-44), with a fallback to the SSA names if a name is missing, and the time series (46-56). It defines the transects (60-77) and allocates 300-column buffers (97-106). It builds the coordinate meshes (108-114), samples every transect point (117-139), creates the output file and substitutes NaN for zero (143-235), writes the data and cuts the profiles (239-319), and then writes the attributes and closes the file (324-483). | modelled: `Exp1Postprocess` |
| `postprocess_helper` (imported, not in the repository) | `get_troughs`, `interpolate_along_transect`, `nearest_along_transect`. | modelled from the specification: `ProfileHelper` |
| `src/src/pythonbindings/Config.py` (40 lines) | `get`/`set` try the typed accessors in a fixed order and fall back to `_get`/`_set`. `set_from_dict` calls `set` key by key. | modelled: `ConfigDispatch` (the C++ accessors from the specification) |
| `src/test/regression/test_epsg_processing.py` (87 lines) | Runs the external `pism` binary on doctored files and asserts its exit codes. | not modelled: all its behaviour is in the binary |

How the parts interact. The script and the Config dispatcher share nothing:
the script never imports the Python bindings. They are modelled separately.

Within the script, the script is the only actor. It calls the helper
synchronously: `get_troughs` once for all eight transects, and the two
interpolation functions once per transect point and field. It talks to the
netCDF library through files. Nothing runs concurrently. The hard behaviours are
therefore:

- the order of the blocks, for example the NaN substitution after sampling;
- index arithmetic at the boundaries: the grid border, the 300-column buffers,
  `ti = -6`, and even or non-square grids;
- the crossed i/j/di/dj convention of lines 121-124;
- failures between the file's creation and its close.

## Modules

- `ProfileHelper.tla` models the helper's three operators. They are written
  from the specification because the helper is not in the sources.
  - A point is a pair of integers on the lattice 1/`Den`.
  - `TroughPoints(start, stop)` cuts the segment into the least number `n` of
    intervals no longer than `Dp`. `n` comes from `NSteps`, bounded by
    `MaxSteps`, and the points are rounded down onto the lattice.
  - `interpolate_along_transect` is bilinear interpolation scaled by `Den^2`.
    Which fraction weighs which index (`di` along the first array index, `dj`
    along the second) is the specification's convention. The helper is not
    in the sources, so it is assumed here, and `DistanceIsRadial` depends
    on it.
  - `nearest_along_transect` reads the nearest cell, with halves rounded up.
- `Exp1Postprocess.tla` models the script.
  - `pc` names the block being executed. Each block is one action, and so is
    each exception the block can raise. For example:
    - `ReadPrimary`, `ReadFallback` and `NamesMissing` are lines 27-44;
    - `SamplePoint`, `SampleOutOfGrid`, `BufferFull` and `NextTransect` are the
      loop of lines 117-139;
    - `CreateFile` is lines 143-235, including the in-place NaN substitution
      of lines 169-171;
    - `WriteFails` is a netCDF error while the file is open.
  - The inputs are one record chosen in `Init` from the constant `Inputs`: the
    names present, the grid shape, the axes, the fields, the stored mask and
    the number of time-series records.
  - The variables are:
    - `src`, which name set the fields were read under;
    - `fld`, `mask`, `xm` and `ym`, the arrays of the same names;
    - `trans`;
    - the loop indices `l` and `k`;
    - `buf`, the seven 300-column buffers as one record per slot;
    - `file`, the output file's state: none, partial or complete;
    - `outGlob` and `out`, the 2-D fields and the profiles written.
  - The distance `sav` is kept squared, because `sqrt` is monotone. `Missing`
    stands for NaN.
- `MC_Exp1.tla` defines the input files for TLC.
  - Axes are centred on the origin, as on the circular CalvingMIP domain.
  - A field is either ice everywhere or has a zero-thickness "hole" at the
    centre.
  - The mask is grounded inside, with ocean on the outer ring for the "shelf"
    kind.
  - There are six combinations of the variable names present, and the time
    series has 5 or 6 records.
- `Exp1Exchange.tla` is the abstract specification: what a run promises
  about its exchange file, without the computation.
  - It has one input, a `status` (running, done or failed), the `file`
    (none, partial or complete) and the `profiles` written.
  - `Open` creates the file. `Fill` writes `Expected(inp)` once into the open,
    blank file. `Close` completes a file that holds the expected profiles and
    ends the run. `Abort` fails the run and leaves the file as it is.
- `Exp1Refinement.tla` is the refinement mapping from the script onto
  `Exp1Exchange`:
  - `status` is `done`, `failed` or `running` according to `pc`;
  - `profiles` is `out`, and `Blank` is eight empty profiles (`NoProfiles`);
  - `Expected(in)` is `ExpectedFor(in)`: the samples of the transect points
    of `in`, computed from the input alone (`TransectsOf`, `XMOf`, `YMOf`,
    `MaskRefOf`, which the script's own definitions now use too).
  - `Exchange == X!SafeSpec` is the property a run checks.
- `MC_Exp1Exchange.tla` adds a mix of 3x3, 5x5 and 7x7 grids for the
  refinement run.
- `ConfigDispatch.tla` models `Config.py`.
  - `get` and `set` are one action per try (`GetTry`, `SetTry`) and one for
    the fallback (`GetFallback`, `SetFallback`), with `i` the index into the
    method list. `set_from_dict` is `CallSetFromDict`, `DictNext` (line 39
    calls `set`) and `DictDone`.
  - The database `db` maps a key to an entry: the accessor type that stored
    it and the value.
  - The typed accessors are C++ code outside the sources, so they are
    modelled from the specification: `set_<type>` accepts a value of its type
    (`set_number` also takes a Boolean, as Python's `bool` is an `int`);
    `get_<type>` reads an entry stored by that type; `_set` accepts any value
    but `None`.
  - The constant `Transient` lets any accessor also raise for an unrelated
    reason, such as a C++ exception the bare `except` also catches.
  - `last` records the outcome of the last call that returned or raised.
- `MC_ConfigDispatch.tla` gives six model values, one per kind of Python
  value: a Boolean, a number, a list, a string, a tuple (which only `_set`
  takes) and `None`.
- `Exp1Proofs.tla` holds the TLAPS proof of type correctness.
- `Exp1Faithful.tla` holds the TLAPS proof that the written profiles are
  faithful.
- `Exp1Radial.tla` proves that the written distances are radial.
- `Exp1GridProofs.tla` proves that only a 3x3 grid makes the loop read outside
  the grid.
- `Exp1RefinementProofs.tla` proves the refinement.
- `ConfigProofs.tla` proves type correctness and the two dispatcher
  properties.

## Runs

| run | cfg | bounds | checks | result |
|---|---|---|---|---|
| profiles | `MC_Exp1_profiles.cfg` | 7x7 grid, `Dp` = 3/4 cell, buffers of 5 | TypeOK, DistanceIsRadial, ProfileFaithful | passes (9048 states) |
| failures | `MC_Exp1_failures.cfg` | 3x3, 5x5 and 5x7 grids, buffers of 2 | FailuresLeaveNoOutput | passes (2816 states) |
| support_bound | `MC_Exp1_support_bound.cfg` | square grids of 3 to 6 rows, `Dp` = 3/4 cell, buffers of 8 | SupportErrorOnlyOnTinyGrid | passes (23472 states) |
| partial_output | `MC_Exp1_partial_output.cfg` | 7x7 | NoPartialOutput | violated |
| zero_missing | `MC_Exp1_zero_missing.cfg` | 7x7, `Dp` = 1 cell | ProfileZeroIsMissing | violated |
| even_grid | `MC_Exp1_even_grid.cfg` | 8x8 | EvenGridRejected | violated |
| symmetric | `MC_Exp1_symmetric.cfg` | 7x7 | TransectsSymmetric | violated |
| masked_read | `MC_Exp1_masked_read.cfg` | 7x7 | FallbackOnlyWhenAbsent | violated |
| mask_codes | `MC_Exp1_mask_codes.cfg` | 7x7 | MaskCodesDeclared | violated |
| exchange | `MC_Exp1_exchange.cfg` | 3x3, 5x5, 7x7, every input, buffers of 5 | Exchange | passes (19416 states) |
| config_dispatch | `MC_Config_dispatch.cfg` | 2 keys, 6 values, 2 calls, no transient failure | TypedDispatch, DictPrefix | passes (304863 states) |
| config_swallowed | `MC_Config_swallowed.cfg` | as above, with transient failures | TypedDispatch | violated |

What the passing runs show:

- **DistanceIsRadial.** The distance written for every profile point is that
  point's distance from the centre. So the crossed index convention of lines
  121-124 is consistent between the transposed meshes and the fields.
- **ProfileFaithful.** Profile `t` of the file has exactly one entry per point
  of transect `t`, and each entry is the sample of that point taken from the
  fields as read. An entry of `out` is the whole buffer slot: it also carries
  `xav` and `yav` (fields `x` and `y`). Lines 257-319 write only `sav` (to both
  `xa` and `sa`), `Hav`, `mav`, `uav` and `vav`. Comparing the whole slot is a
  stronger check than the file needs. The buffers, the loop indices and the eight copy-pasted
  cut blocks line up.
- **FailuresLeaveNoOutput.** Every failure of the computation happens before
  line 145 creates the file.
- **Exchange.** Every behaviour of the script, on every grid and input
  combination of the run, is a behaviour of `Exp1Exchange`. The file is
  created before anything is written, the expected profiles are written
  exactly once, and the file is complete only when it holds them. A netCDF
  error after the close (the mutant `WriteFails_mut`) breaks it.
- **TypedDispatch.** Once a `get` or a `set` returns, it went through the
  accessor that matches the stored type or the value's type: `get` reads
  through the type that stored the entry (or `_get` for an entry `_set`
  stored), and `set` stores the value through its own type's setter (or
  `_set`). The order of the method list matters: with `set_number` before
  `set_flag` (the mutant `SetMethods_mut`) a Boolean is stored as a number.
- **DictPrefix.** At any moment of `set_from_dict`, and after it returns or
  raises, the keys of some prefix of the dictionary hold their new values and
  every other key holds what it held when the call began. The prefix is the
  whole dictionary exactly when the call did not raise. So a
  `set_from_dict` that raises is a partial update, never a reordered or a
  skipped one.
- **SupportErrorOnlyOnTinyGrid.** The sampling loop raises the out-of-grid
  `IndexError` of line 126 only on a grid of fewer than four rows. The ends
  of lines 64-75 lie on rows and columns 2, `Mp` and `Mx - 2`; on a 3x3 grid
  row 2 is the last one, and its points read the row past it. Moving an end
  one row outwards (the mutant `Stops_mut`) breaks it on the larger grids.

The support_bound run covers square grids of 3 to 6 rows, so both the grid
where the error happens and the smallest grids where it must not (4 and 5
rows, with odd and even sides) are reached. Its buffers of 8 hold every
transect at that spacing, so the buffer overflow cannot end a run before
the out-of-grid read would happen.

The failures run has buffers of 2 and 3x3 grids so that the buffer overflow and
the out-of-grid read both happen. It has a 5x7 grid so that the mesh
`IndexError` happens.

What the violations show is listed as findings in `PROJECT.json`:

- the file is written in place, so a netCDF error leaves a partial file;
- zero cells are turned into NaN only after sampling, so profiles keep 0;
- an even grid is not rejected;
- the bare `except` of line 34 catches a read error of a primary variable
  that is present, not only a missing name, and the script goes on with the
  SSA fallback fields (spec sections 6 and 7: no error is masked);
- line 39 maps PISM mask code 0 (ice-free bedrock) to -1, which the profiles
  write although `flag_values` declares only 1, 2 and 3;
- in `Config.set` the bare `except` turns a transient failure of `set_flag`
  into storing a Boolean through `set_number` (spec section 9 asks that the
  cause of each attempt stay discoverable);
- the end points sit 1 cell from the far boundaries and 2 from the near ones,
  so opposite transects have different lengths.

Bounds. A 7x7 grid is the smallest odd grid on which every transect has
interior points and several interpolation cells. `Den = 4` gives points off
the nodes, so the fractions matter. The buffers (5) and `MaxSteps` (4) are
sized so that the 7x7 transects fit. The small-grid run shrinks them to reach
the overflow.

The exchange run uses three grid sizes so that the refinement is checked
across failures of names, time series and out-of-grid reads, as well as
successful runs. With buffers of 5 no transect of these grids overflows, so
the run does not reach `BufferFull`. The failures run reaches it (checking
`FailuresLeaveNoOutput`), and the proof `Refinement` covers that step for
every buffer size. The 5x7 grid is left out there: with `MaxSteps` = 4
its longer transects are not defined, and a run stops in `define`, which the
abstract specification does not allow. The Config runs use two keys, so that
a dictionary of two distinct keys exists, and two calls, so that a `get`
can follow a `set` or a `set_from_dict`.

Fairness. The script is one sequential process, so `WF_vars(Next)` states only
that it does not stop while a statement can run. No run checks a liveness
property: the script's control flow has only bounded loops, so that it ends
follows from the loop bounds, and a model check would not tell anything
about the code. Deadlock checking is off
because the script really stops, in `done` or `failed`. The dispatcher is
one Python thread: a call, once made, runs to its end, which `WF_vars(Next)`
states. Its runs stop after `MaxCalls` calls, so deadlock checking is off
there too.

## Proofs

`Exp1Proofs.tla` proves `TypeCorrect`: `Spec => []TypeOK`, for every set of
well-formed inputs (`Exp1Assumption`) and every lattice, spacing and bound
(`HelperAssumption`). `TypeOK` alone is not inductive, for two reasons:

- the sampling step needs numeric fields, and the fields get NaN only in
  `CreateFile`;
- cutting the profiles in `WriteData` needs every transect to fit the buffers,
  which the loop learns one transect at a time.

The inductive invariant `IInv` adds both facts:

- the fields are integers in the phases up to sampling;
- in the sampling phase every finished transect is at most `BufCap` long, and
  `k <= BufCap + 1`;
- after sampling, every transect is at most `BufCap` long.

The proof has one step per action and one lemma per helper. The lemmas cover:

- the input facts;
- `TroughPoints` returns a sequence of points;
- `SampleOf` returns a sample;
- `RemapMask` maps PISM codes to mask codes;
- the cut of a buffer is a sequence of samples.

`Exp1Proofs.tla` also proves `NoOutputOnFailure`:
`Spec => []FailuresLeaveNoOutput`. It rests on the inductive invariant
`FileState`: the output file exists only in the write phases, or after a
netCDF failure there.

`Exp1Faithful.tla` proves `OutputFaithful`: `Spec => []ProfileFaithful`, under
the same assumptions. `ProfileFaithful` speaks only of the last two phases, so
the invariant `FInv` adds what each earlier block leaves behind:

- `ReadState`: until line 169 rewrites the fields in place, the fields and the
  mask are those of the input, the mask remapped by line 39;
- `MeshState`: while sampling, the meshes are those of lines 108-114;
- `LoopState`: while sampling, every slot the loop has passed holds the sample
  of its point. The passed slots are all points of the transects before `l`,
  and the points before `k` of transect `l`;
- `BufState`: between the loop and the cut, every slot of every transect is
  filled.

`FInv` also includes `IInv`. The step of `SamplePoint` writes slot `(l, k)`
and must leave every other filled slot alone. That needs the bound
`Len(trans[t]) <= BufCap` that `IInv` carries, because an `EXCEPT` says
nothing about arguments outside the buffer. The frame lemmas (`InputFrame`,
`RefFrame`, `SampledPrime`, `SampledFrame`) say that the reference samples
depend on the input alone.

TLC also checked `IInv` and `FInv` as invariants on both passing
configurations before they were proved.

`Exp1RefinementProofs.tla` proves `Refinement`: `Spec => Exchange`. The
argument is the standard one: `Init` maps to `X!Init`, and every step of the
script maps to a step of `Exp1Exchange` or to a stutter (`StepRefines`):

- every failure is `Abort`;
- `CreateFile` is `Open`, `WriteData` is `Fill` and `CloseFile` is `Close`;
- all other steps change none of the mapped variables.

That needs the invariant `RInv`, which adds three facts to `FInv`:

- `TransState`: from `DefineProfiles` on, the transects are
  `TransectsOf(inp)`;
- `OutState`: nothing is written before `WriteData`, and from then on the
  profiles are `ExpectedFor(inp)` (`CutIsExpected`, resting on `BufState`);
- `FileMap`: the file is absent while the script computes, partial while it
  writes and complete when it is done.

`ConfigProofs.tla` proves three theorems, for all keys, values and type
assignments:

- `ConfigTypeCorrect`: `Spec => []TypeOK`.
- `DictPrefixHolds`: `Spec => []DictPrefix`. The inductive invariant `CInv`
  adds `CallShape` (which variables are meaningful in each state of a call)
  and `DictState`: while the loop runs, items `1..pos-1` are stored, the
  others untouched, and a `set` in progress has changed nothing yet.
- `TypedDispatchHolds`: under the assumption `~Transient`,
  `Spec => []TypedDispatch`. The invariant `DInv` adds `Progress`: during a
  `get`, no accessor before `i` reads the entry; during a `set`, no setter
  before `i` converts the value. The lemmas `FirstConverter` and
  `FirstReader` then say that the first one that accepts is the value's or
  the entry's own type.

`Exp1Radial.tla` proves `RadialDistance`: `Spec => []DistanceIsRadial`, for
every lattice, spacing and buffer size. The property speaks of the done phase
on centred axes. The invariant `RInvRadial` is `FInv` plus `SupportState`:

- from `BuildMesh` on, the grid is square (the guard of lines 108-114 that
  the mesh assignment needs);
- while sampling, every point the loop has passed is supported, i.e. its
  lower-left cell lies inside the grid (the guard of `SamplePoint`);
- after sampling, every point of every transect is supported.

With `ProfileFaithful` the written `sav` of a point is its reference sample.
The lemma `RadialSample` computes that sample: for a supported point
`(Den*j + di, Den*i + dj)` on centred axes, the interpolation of the `y` mesh
at the crossed indices `(i, j, di, dj)` is `Den*(Den*(j - Mp) + di)`, which is
`Den*(p[1] - Den*Mp)`, and likewise for the `x` mesh. The two crossings of
lines 121-124 (row index from the second coordinate, and `xav` from the `y`
mesh) cancel. `Bilinear` is the polynomial identity behind it and `DivMod`
the division facts that give the decomposition. TLC checked `RInvRadial` on
the `profiles` and `failures` configurations first.

`Exp1GridProofs.tla` proves `GridSupport`:
`Spec => []SupportErrorOnlyOnTinyGrid`, for every lattice, spacing, buffer
size and input. The argument is arithmetic on `get_troughs`:

- a point is `start*Den + floor(d*Den*m/n)` for `m` in `0..n`. So it lies
  between `Den*start` and `Den*stop` (`RoundedStep`, `DivBetween`), and its
  cell between `start` and `stop` (`CellBetween`);
- the centre and the transect ends of lines 64-75 are in `0..Mx-2` on a
  square grid of four rows or more (`StopsInGrid`);
- hence every point of every transect is supported there
  (`TransectSupported`).

The inductive invariant `GInv` adds `GridState` to `IInv`. It is needed
because the sampling step sees only `trans`, not how it was made:

- from `DefineProfiles` on, the transects are those of the input and have a
  step count;
- while sampling, the grid is square;
- the property itself.

TLC checked `GInv` on the `support_bound` and `failures` configurations.

What stays with TLC:

- the liveness half of `Exp1Exchange` (`X!Spec`, whose fairness is stated
  through `ENABLED` of the mapped action). No run checks it;
- that a transient accessor failure breaks `TypedDispatch` (the
  `config_swallowed` run);
- whether the longest transect fits the 300 columns. That depends on the
  grid size, the spacing and the rounding of the step count. No assumption
  on the constants short of the conclusion itself makes it true. The
  `failures` run reaches the overflow and shows that it leaves no file.

## Not modelled

- The C++ typed accessors of the Config class are not in the sources. They
  are modelled from the specification, as above.
- The regression test only drives the external binary, which is not among the
  sources.
- Units, attribute texts, `print`, and the time values of the snapshot and
  time series are left out: no property tells them apart.

## Plan

1. Done:
   - `ProfileHelper`, `Exp1Postprocess`, `MC_Exp1`, with their runs and the
     proofs of `TypeCorrect`, `NoOutputOnFailure`, `OutputFaithful` and
     `RadialDistance` and `GridSupport`;
   - the abstract specification `Exp1Exchange` and the proof that the script
     refines it;
   - `ConfigDispatch` with its runs and proofs.
2. Next:
   - the time values (`ti = -6` picks a record, not a time);
   - a run that checks the liveness half of `Exp1Exchange` on a smaller
     input set, where `ENABLED` through the mapping is affordable.
