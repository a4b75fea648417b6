# A verification development for drmkit

drmkit is a Rust port of drm-cxx: a layered Linux DRM/KMS display framework. A
caller describes a screen as *layers* with *buffer sources*; drmkit acquires a
buffer from each source, gives hardware planes to the layers, composites what
no plane can take, issues one atomic commit, and hands the buffers back to
their sources when the display engine has stopped reading them. The kernel
reads those buffers on its own, at vblank, after the commit returned, so most
of the code's difficulty is in **when** something may happen, not in what it
computes.

This directory holds TLA+ models of the parts that carry that difficulty, the
TLC runs that check them on small instances, and proofs that the most important
properties hold for any number of layers and frames.

| files | what they are |
|---|---|
| `LayerScene` | a scene on one CRTC, its sources as the scene sees them, the kernel it commits to, the session, teardown |
| `RingPresenter`, `ExternalDmaBufRing`, `ExternalDmaBufPool` | the latest-wins presenter, and the ring and the pool built on it |
| `SceneRing`, `RingClient`, `PoolClient` | the ring under `LayerScene`; ring and pool under the least a scene does |
| `PlaneRegistry`, `BipartiteMatching` | what a device says of its planes; orders and matchings of layers and planes |
| `PlaneAllocator`, `PlaneEmission`, `PlaneScene` | the allocator, the diff a commit writes, and the scene that drives both |
| `PlaneDisplay` | what a scene on planes promises; refined by `PlaneScene` |
| `BufferRing`, `DumbRing` | slots and damage history; the source over them |
| `ScanoutPath`, `DumbSink`, `ScanoutBackend`, `PresentPaths` | the two ways to the screen of `drmkit-present`, over `LayerScene`, with the frame economy |
| `PageFlip`, `Session` | the event dispatcher; the seat's session and the devices it hands out |
| `GemBuffers`, `GbmSurface` | buffers with their GEM handles and framebuffers; a swap chain of them |
| `Canvas`, `StickyPlanes`, `FrameContents` | composition; plane properties that outlive their client; damage and fences |
| `Cursor`, `Keys`, `SceneSet` | cursor and its pictures, keyboards, mirrored layers |
| `WindowAnim`, `Decorations` | window decorations: animation; planes and painting |
| `Capture`, `DisplayColor`, `Discovery` | reading the screen back; a CRTC's colour and HDR blobs; finding a display, a mode, a format |
| `Parts` | the parts that share no state, one moving per behaviour |
| `LayerSceneProofs`, `SourceProofs`, `DisplayProofs`, `PresentProofs`, `PartsProofs` | the theorems about these, for every value of the constants |
| `RingProofs`, `PartInvariants` | lemmas for them: the ring's operations; the invariants of the keyboards, the canvas, buffers and surface |
| `InductionFacts` | what the proofs use in place of induction over the numbers |
| `MC*.tla`, `*.cfg` | the instances TLC checks |
| `PROJECT.json` | components, runs, the source lines of each definition, hazards, theorems |

To run a model: `tlc -workers 2 -config LayerScene.cfg LayerScene.tla`; to
check the proofs: `tlapm LayerSceneProofs.tla`.

Source paths below are relative to `src/crates/`.

## 1. Inventory

### Scene lifecycle: `drmkit-scene` `scene.rs`, `frame.rs`, `release.rs`

State: the layer slots with their sources, generations and dirty flags; the
`retiring` sources of removed layers; `FrameLifecycle` (the release ring
`previous`/`two_ago`, `last_commit_seq`, the `suspended` flag, the armed-flip
tripwire); `topology_dirty`, `committed_once`, `planes_unknown`, the planes a
rebind left to detach; the last canvas plane and pin verdicts. Operations:
`add_layer`, `remove_layer`, the hint setters, `content_changed`, `build_frame`
(acquire every layer, allocate planes, return a `FrameBuild`), the caller's
commit, `finalize_frame` (rotate the ring or return the frame's buffers),
`release_displaced`, `flip_landed`, `resume`, `on_session_paused`,
`on_session_resumed`, `rebind`/`detach`, `drain`. Interactions: calls
`acquire`/`release`/`on_retired`/session hooks of every source; the allocator;
the caller's commit is between build and finalize, so anything the borrow rules
allow may happen in between.
Hard: the kernel's flip is asynchronous; a commit may be refused, a test, or
refused for lost master; the caller dispatches flip events late, out of step or
never; layers come and go with their buffers in flight; a session pause revokes
everything. Correct when: no buffer on screen is handed back (`INVARIANTS.md`
section 1), none is lost or handed back twice, sources outlive their buffers,
the tripwire tells the truth (section 5), a skipped frame loses nothing, a test
or refused commit changes nothing that a later frame relies on (sections 2, 4).

### Layer sources: external ring: `drmkit-scene-sources` `ring.rs`, `presenter.rs`

State: the pending handoff (behind a mutex: key, fence, damage), scanning key
and token, next token, `outstanding` tokens, carried damage, the imports of
each slot. Operations: `submit` (producer's thread), `acquire`, `release`,
`on_retired`, pause and resume (commit thread). Interactions: `on_release`
calls the producer back. Hard: the producer runs at its own pace, replacing
frames nobody acquired or going idle; one token covers several acquisitions; a
deadline drops frames whose damage is still owed; a pause forgets tokens while
buffers are being returned. Correct when: the
producer gets a slot back only off screen, every slot comes back, damage is
never under-reported.

### Layer sources: external pool: `pool.rs`

State: the imports by key with their age and two marks (retiring; stale: final),
a cap, the import handed out last, over the same presenter. Operations:
`submit` with import and cap, `retire`, `reset_generation` (the producer's),
`acquire`, `release` (each ending in a sweep), `on_retired`, pause. Hard:
whether an import may go depends on what the presenter still refers to, and
keys are retired, renamed and resubmitted in any order. Correct when: nothing
the screen shows or a submission waits for loses its framebuffer, no cached
import stands in for another buffer, and nothing is kept for good.

### Buffers: single imports, cache, dumb, gbm: `external.rs`, `dumb.rs`, `gbm.rs`, `drmkit-dumb`, `drmkit-scene-gbm`

State: GEM handles, framebuffers and the descriptor they belong to; for a GBM
surface a swap chain, the locks handed to the scene, a framebuffer per handle.
Hard: creation takes several ioctls, each of which may fail; a session switch
gives a new file under the old descriptor's number, and handles and framebuffer
ids start over; a drop may come after that. Correct when a teardown frees what
the buffer owned and nothing else's, nothing leaks on a live file, and a buffer
the scene holds stays locked.

### Source contract: `drmkit-scene/src/source.rs`

The trait all sources implement. `WouldBlock` is flow control; any other error
abandons the frame; `release` comes once per `acquire`.

### Armed-flip teardown wait: `drmkit-present/src/armed_flip.rs`

Waits at most 100 ms for the CRTC's sequence to move or for an event to be
queued, then clears the tripwire. Correct when a flip in flight at teardown is
either landed or reported.

### Buffer ring, backends, frame economy: `drmkit-present`

`BufferRing`/`DumbRing`: slots with ages, what is acquired, scanning and free,
and a bounded damage history from which the repaint a slot owes is computed.
Backends (`backend.rs`, `dumb_sink.rs`): need-modeset, VRR and fence state kept
across refused commits. `FrameEconomy`: whether to render a full or partial
frame. Hard: a refused commit must put all of that back; a painted frame may
never be shown. Correct when the repaint computed for a slot covers what its
pixels lack, no slot on screen is painted into, no slot is lost while all goes
well, and a refused modeset is asked for again.

### Plane allocator: `drmkit-planes/src/allocator.rs`

State: the committed baseline (what property values the kernel holds), the last
assignment, the failure cache, per-layer stability. Operations: allocate with a
full search (test commits), warm start, an FB-only fast path that skips the
kernel's test, `forget_output`, `forget_layer`, commit notifications. Hard: the
baseline must describe the kernel through tests, refusals, rebinds and resumes
(section 4), by cached state alone. Correct when every accepted frame leaves on
screen exactly what it asked for, though it writes only what it believes has
changed, and an unchanged scene stops asking the kernel.

### Plane matching, ordering, scoring: `matching.rs`, `zpos_order.rs`, `plane_order.rs`, `multirect.rs`, `scoring.rs`

Bipartite matching with cardinality first and stability as a bonus; z-order
consistency between layers and planes. Pure algorithms; correct against a brute
force. `registry.rs` and `probe.rs` read the device.

### Scene: commit emission, canvas, reports: `commit.rs`, `canvas.rs`, `lower.rs`, `report.rs`

Turns an allocation into property writes; remembers sticky state: colour
encoding, alpha, the driver's private properties, left by whoever held the
device before. Carries each layer's damage and fence. The canvas is a pair of
composited buffers of its own, alternating across builds. Correct when a plane
shows a layer as it was asked for, damage is never under-reported to a panel
that keeps its own picture, and the canvas on screen is whole.

### Scene set: `drmkit-scene-set`

Several scenes, a layer mirrored on more than one through a `SharedSource`, and
a partition of commits by device. Hard: slots, handles and scene indexes are
reused while set layers still name them. Correct when removing a set layer
removes its copies and nobody else's.

### Page-flip dispatch and session: `drmkit-modeset/src/page_flip.rs`, `drmkit-session`

epoll over the DRM descriptor and other sources; interrupted waits are retried
within their budget (section 3); callbacks may unregister themselves. libseat:
enable and disable, devices closed and reopened under other numbers, queued
`Paused` and `Resumed`. Hard: a descriptor's number names another file after a
switch; one device of several fails to come back; the seat changes its mind
before the caller has heard it. Correct when a bounded wait ends, and once the
session's events are taken the card's flips are heard.

### Input: `drmkit-input`

Keys, modifiers, lights and a repeat timer that may expire after the key went
up, over keyboards that come and go and a pause that swallows releases.

### Cursor: `drmkit-cursor`

Ping-pong between two buffers, published on commit, or the legacy ioctls;
animation, rotation, a hotspot that has to stay under the pointer.

### Client-side decorations: `drmkit-csd`

Reservation of overlay planes per output, animations aimed anew midway, and
painting of damage over a shadow buffer when no plane is to be had.

### Display: `drmkit-display`, `drmkit-modeset/src/mode.rs`, `negotiate.rs`, `scanout_format.rs`

An HDR blob cache acknowledged on commit, a colour pipeline of staged blobs, a
hotplug filter, the search for connector, mode, CRTC and plane, and the
selection of formats and modifiers; EDID, curves and tone mapping are parsing
and arithmetic.

### Capture: `drmkit-capture`

Asks the planes of a CRTC one at a time what they show, maps what it can and
composes it, while someone else goes on committing.

### Device core, formats, fences, time, log, test kit

Wrappers over ioctls and tables: no protocol state of their own.

`PROJECT.json` names the sources of each and says what is modelled. Its
`hazards` are the places where this code can go wrong and a test would hardly
tell, each with the property that watches it.

## 2. Plan

Order: what every other part relies on first.

1. **Done.** `LayerScene`: the release ring and the lifecycle around it, with
   an inductive invariant and its proof.
2. **Done.** The ring and the pool over `RingPresenter`, under a minimal client
   and (the ring) under `LayerScene`.
3. **Done.** The buffer ring, the dumb ring, both backends and the frame
   economy, over `LayerScene` (`PresentPaths`).
4. **Done.** The allocator with the scene's part of plane assignment
   (`PlaneScene`), as a refinement of `PlaneDisplay`.
5. **Done.** `PageFlip` and `Session` with their liveness.
6. **Done.** The parts that stand alone (`Parts`), and the pure algorithms
   against reference definitions.
7. **Done.** Proofs: `LayerScene` with the ring on it and the pool, the plane
   scene with its refinement, the presentation paths, the session, and every
   property of the parts (section 5).
8. **To do: proofs** of what a search in `PlaneAllocator` finds:
   `FastPathSound`, `StackOrder`, `Settles`.
9. **To do: what a scene promises its sources over time**: a buffer handed over
   is handed back when commits go on, with fairness of the caller's loop and of
   the kernel's flips.

## 3. What is modelled, and how it corresponds to the code

### `LayerScene`

One action per operation of `LayerScene` that concerns buffers, plus the
kernel and the sources as the scene meets them.

| code | model |
|---|---|
| `add_layer`, `remove_layer`, hint setters | `AddLayer`, `RemoveLayer`, `SetDisplay` |
| a producer filling a source | `Produce` (external) |
| `build_frame`, `acquire_every_layer` | `BuildFrame(kind)`; `BuildFrameFails(S, usedUp)` for each way out with an error |
| the caller's atomic commit | `CommitAccepted`, `CommitAnswered(result)` (external) |
| the page flip | `FlipLands` (external) |
| `finalize_frame`, `FrameLifecycle::finalize`, `ReleaseQueue::commit_succeeded` | `FinalizeFrameOk` with `Rotate`; `FinalizeFrameReturns` for tests and refusals |
| `deliver` | `Deliver`, part of each action that hands buffers back, with the drop of retired sources |
| `PageFlip::dispatch` and `flip_landed` | `DispatchFlip` |
| `release_displaced` | `ReleaseDisplaced(seq)`, for any commit whose flip has landed, at any later time and any number of times |
| `resume`, `on_session_paused`, `on_session_resumed` | `Resume`, `OnSessionPaused`, `OnSessionResumed(S)`, which stops at the first source that fails |
| `armed_flip::settle` and the drop of its owner | `Teardown` with `SeenLanded` |
| `content_changed` | `ContentChanged`, the operator the skip is decided by |

`previous`, `twoAgo`, `lastSeq`, `armed`, `suspended`, `topologyDirty`,
`committedOnce`, `dirty`, `lastFb` are the code's fields; `frame` is the
`FrameBuild` the caller holds with the kernel's answer to it; `out` is what the
sources have handed over; `screen`, `flip`, `landed`, `events`, `session` are
the kernel's and the session's. `changedAt`, `drainedTo`, `ranAhead` and
`removedMidFrame` are history variables for the properties.

Modelling decisions:

- A buffer is named by its acquisition (layer, frame number). Layer ids pack
  slot and generation, so they are never reused; slots are left out.
- Every acquired layer reaches a plane. A composited or unassigned layer is not
  scanned out, so this is the worst case for what may be handed back; plane
  assignment itself is in `PlaneScene`.
- Sources in `Starving` answer `WouldBlock` when they have nothing new; the
  layer's last framebuffer is then re-attached. Others present their last
  buffer again (the ring, a dumb buffer). After a pause every source has lost
  its framebuffers and answers `WouldBlock` until something is produced.
- A failing source may already have consumed its producer's frame (`usedUp`):
  the external ring does so when its import is gone.
- The frame of an emptied scene keeps the planes lit (`keeps`): `build_frame`
  clears its disables then.
- The kernel has at most one nonblocking commit in flight and refuses a second
  (`EBUSY`: `rejected`). A commit without an event is a blocking one and has
  landed when it returns.
- The vblank sequence moving past an armed commit means its flip has landed, as
  `ArmedFlip::Sequence` documents; so `SeenLanded` is "the flip is over, or an
  event is queued".
- One `FrameBuild` at a time. Dispatching events, the session calls and
  teardown do not happen while one is held; removing a layer may, and the
  properties that then fail say so (`removedMidFrame`). The backends of
  `drmkit-present` keep to this.

### `RingPresenter`, `ExternalDmaBufRing`

`submit`, `acquire` (`AcquireFresh`, `AcquireMissed`, `AcquireIdle`),
`release`, `retire_scanning`, `reset` are one step each: the lock covers
`submit` and the part of `acquire` that takes the pending frame, and all other
state belongs to the commit thread. The adapter adds imports (`imported`) and
the answers `Failed` and `WouldBlock`. The producer is external: it renders
into slots it `owned`. It owns a slot at first, after `on_release`, when its
submission is replaced or dropped before anyone acquired it, and after a pause.
The last two are the generous reading of a contract the code leaves to the
producer: what the properties say then holds of a careful one too.

The buffer's release fence is left out. The fence handed to `on_release` is the
out-fence of the commit after the one that showed the buffer, and has signalled
by the time the rotation calls `on_release`, so it protects nothing more.

`SceneRing` puts `LayerScene` and `ExternalDmaBufRing` in one state space: each
call of the scene on its source is the ring's own step in the same action, and
`carries` relates a frame to the token and slot it acquired. The scene's `fresh`
and `presenting`, which `LayerScene` treats as the source's answer, become a
claim about the ring: `RingAsAssumed`, half of `RingInStep`. One corner is left
out: between a resume that reached the ring and then stopped short, and the one
that completes, the scene builds from this ring only what is newly submitted.

`RingClient` is the ring under a client that acquires, keeps the newest and
returns the oldest, as the scene's rotation does. Damage and deadlines are here
and not in `SceneRing` (whose instance has no regions and no deadline), to keep
both state spaces small. It is a part of `Parts`.

### `ExternalDmaBufPool`, `PoolClient`

The scene borrows its source exclusively, so each method is one step. The map
of slots is `cached` (the keys, in the order `last_used` gives them), `buffer`
(what each import was made of), `retiring` and `final` (the code's `stale`).
`enforce_cap` is part of `PoolSubmit`, `sweep` of every acquire and of a release
that hands a key back, as in the code. `PoolClient` adds the client of
`RingClient` and a producer that may submit any key at any time, also one in
flight, retire it and use it for another buffer from then on, and change the
generation, whose keys it does not use again before their imports are gone
(the contract `reset_generation` states). A refused import changes nothing and
has no action. Deadlines and damage are `RingClient`'s.

After an acquire failed, nothing is acquired until a pause: the failure loses a
token for good, and a counter that wraps would then meet it.

### Planes: `PlaneRegistry`, `PlaneAllocator`, `PlaneEmission`, `PlaneScene`

A device is a record of planes with their type, CRTCs, zpos range, formats and
parent (multirect), and the number of planes each CRTC can blend. A layer is
what the scene lowered: zpos, the cells it covers, format, keep priority, pin.
Rotation and scaling are part of the format: what matters is whether a plane
takes the layer. The caller adds, removes and changes layers, pins them or sends
them to the canvas, and rebinds the scene to another CRTC.

- `Allocate` is one call of `allocate`, all of it: the fast path (`FastPath`),
  the warm start (`WarmStartTried`), the search by groups with the failed pairs
  it remembers, greedy and backtracking within the budget of tests, blend-stage
  limits, the place of the canvas, or the search in plane order. Each test
  commit asks the kernel (`KernelLights`), so a search is a function of what
  the kernel holds. `al` is the allocator's state: `previous`, `committed`,
  `failed` and what it keeps of the canvas.
- `PlaneEmission` is the diff: `NeedsWrite` says which tags a commit writes,
  `AfterCommit` what the kernel has after it, `RecordCommit` the new baseline.
- `PlaneScene` is the scene around them: pins and the canvas's plane are
  decided before the allocator runs; `BuildFrame` collects what must be turned
  off (planes dropped, planes others left lit, planes of the CRTC left behind).
- The kernel (external) takes a commit when the planes lit on the CRTC are no
  more than it lights (`capacity`, which changes under the scene: bandwidth),
  those armed can feed the CRTC, and none is moved over from another. Another
  master may change every plane. Properties a commit does not write stay.

`PlaneDisplay` is the abstract specification: each CRTC has a screen, a frame
taken replaces the scene's whole screen by what the frame wants, one not taken
replaces nothing; it spares cursor planes it does not want; a scene that moves
may leave planes lit (`left`), wants nothing before they are off, and turns
off those and no others. `PlaneScene` implements it under the mapping
`Screens`, `Wanted`: caches, searches and diffs are not to be seen. That is
the run's `ShowsFrames`.

The plane order (the last part of `PlaneRegistry`) and `BipartiteMatching` are
pure: the first is stated by what a choice has to satisfy and how choices
compare, rather than by the code's dynamic programme; the second is the code's
augmenting search, compared with all matchings (`MatchingIsMaximum`).

### `drmkit-present`: `BufferRing` to `PresentPaths`

`BufferRing` has the slots with state and last present, the damage history with
its base, `RepaintFor` (what a reused slot must repaint) and `PresentSlot`.
`DumbRing` adds the buffers allocated as the ring grows and the frame painted
and not yet acquired. `ScanoutPath` is what the two backends have in common:
one call of `present` builds a frame of `LayerScene`, commits it and finalizes
it (`calling` while it has begun and built nothing yet). `DumbSink` and
`ScanoutBackend` add their own: the lease, the mode, VRR and its arming, the
economy's decision, what `Drop` restores. A behaviour of `PresentPaths` is one
of: the ring alone with a painter that repaints what it is told, the sink, the
backend. Every call may fail at each of its stages.

### `PageFlip`, `Session`

The process's descriptor table `files`, the kernel's registrations `epoll`
(gone with the file, not with the number), the dispatcher's sources, and a wait
with its kind, remaining time and whether a signal has interrupted it.
`Session` adds the seat (external: says `Enable` and `Disable` as it likes), the
queue of the callback (`inbox`), the devices held and the events the caller has
not handled (`pending`). A resume opens each device again under a number of its
own, if one is free, or fails. The caller rebinds the dispatcher as the events tell it, one
event at a time, and other events of the batch may be stale by then.

### `Parts`

Sixteen machines that share no state. They are composed by choice rather than
interleaved: in each behaviour one moves, so the state count is a sum.

| part | module | what moves |
|---|---|---|
| ring | `RingClient` | above |
| cursor | `Cursor` | load, draw, move, turn, hide, animate, commit atomically (alone or into the caller's request) or by the legacy ioctls, publish what did not land, pause; a buffer holds what was drawn into it and where its hotspot landed |
| keys | `Keys` | fingers, libinput's queue (`told`), the events the seat handed over, the keyboard's xkb state, lights, repeat with a timer that expires on its own, plugging, pause and resume, keymap reload |
| hdr | `DisplayColor` | set, clear, land a CRTC's commit, acknowledge, session loss, flush; the kernel's blob ids are reused |
| scenes | `SceneSet` | add and remove scenes and mirrored layers; slots and generations of each scene's handles |
| canvas | `Canvas` | build with composition in a format chosen from the plane's, test, refuse, show; pixels carry alpha and two colours in their real widths |
| buffers | `GemBuffers` | allocate, import and drop, each stopping at any ioctl; sessions that give a new file; the kernel's handle and framebuffer tables |
| surface | `GbmSurface` | draw, lock, scan out, release, pause, resume that may stop half way, on the tables of `GemBuffers` |
| sticky | `StickyPlanes` | colour and alpha asked for, frames built, refused and taken, another client that leaves planes as it likes |
| anim | `WindowAnim` | focus and hover tracks in eighths, retargeted midway; the shadow cache |
| overlays | `Decorations` | reserve, give back, present on two outputs |
| desk | `Decorations` | windows move, resize, repaint, come and go; damage of a frame, blending into the shadow, copying of rows |
| capture | `Capture` | the reader's steps with the failure of each query and mapping, between them the commits of others |
| color | `DisplayColor` | stage, clear, apply, lose the session; blob ids shared with another user |
| discovery | `Discovery` | the search step by step, connectors and encoders that do not answer, displays that come and go, uevents that tell or do not |
| contents | `FrameContents` | damage reported, acquired, clipped and written; fences armed or waited for; panels that keep their own picture |

Pure functions of these modules are compared with reference definitions over
bounded inputs, as named assumptions TLC evaluates with `parts`: `DivisionRounds`,
`OverKeepsPremultiplied`, `RowsStayTheirOwn`, `TapsAreCentred` and
`StraightInRange` (capture's arithmetic), `IdentityIsStraight`,
`SignalingSound`, `PreferredModeIsBest`, `NearestModeIsChosen`,
`NegotiationAgrees`, `FormatsAreTaken`, `CommitsPartitionTheSet`,
`EveryLayerCountedOnce` (the report), `CutAtTheEdge` (a plane that hangs off the
screen).

## 4. What the runs check and show

| run | model, bounds | result |
|---|---|---|
| `layer_scene` | 2 layers, one starving, 3 frames; 3.4 million states | all of the properties hold |
| `first_frame` | 1 layer, 2 frames | `FirstFrameCounts` violated |
| `settle` | 1 layer, 2 frames | `TeardownLandsTheFlip` violated |
| `scene_ring` | 1 layer, 3 slots, 3 frames, tokens below 4; 3.1 million states | all hold |
| `scene_ring_idle` | the same | `OffScreenBeforeReuse` violated |
| `scene_ring_reject` | the same | `RingSelfHeals` violated |
| `pool_client` | 3 keys, 2 buffers, cap of 2, 2 acquisitions out, tokens below 4; 315 thousand states | all hold, with liveness |
| `pool_pending` | the same | `AcceptedIsShown` violated |
| `planes` | 3 devices of 3 planes, 2 CRTCs, 3 layers, 3 tests a search, 4 edits, 1 rebind or switch; 994 thousand states | all hold, with the refinement |
| `present` | 3 ways to the screen, 5 frames, 2 failures, 3 slots, 2 rectangles; 5.0 million states | all hold |
| `session` | 2 paths, 4 descriptors, 2 seat events, 2 pending; 391 thousand states | all hold, with liveness |
| `parts` | 16 parts; 1.3 million states | all hold |

Properties of `LayerScene`:

- `ScanoutHeld` (section 1 of `INVARIANTS.md`): nothing on screen, or about to
  be, has gone back to its source, by rotation, early release or return. Not
  claimed for frames drained on a pause, nor for what a frame only re-attaches
  for a starving or removed layer: no code holds those.
- `HeldOnce`, `OldestFirst`: a buffer is in one place of the scene, goes back
  once, and not before an older one of the same layer.
- `NothingStranded`, `SourcesOutliveBuffers`: what is out is held by the
  scene, and a source is there to take it back, unless the caller removed a
  layer between building and finalizing a frame.
- `TripwireTrue`: while the tripwire is set, an event is queued or to come, so
  whoever waits for it does not wait for good (the safety half of a liveness
  property, which needs no fairness); and a teardown with a flip in flight
  leaves it set, for a caller that dispatches each event before building again.
- `SkipSound`: a frame skipped as unchanged would have shown what is shown.

Ring and pool:

- `ReusedOffScreen`: a producer that submits before every frame never owns a
  slot on screen.
- `RingInStep`: a slot is owned, pending, or under one token, never two of
  them, and the ring answers what the scene assumes of it.
- `NoSlotLost`: no slot is lost while every frame built is shown.
- `DamageCovers`: a shown frame's damage covers all that changed since the last
  one, dropped frames included.
- `SlotsReturn`: every token in flight will be named by a release, in whatever
  order and however often the releases come (the code's 64-bit counter never
  wraps in practice; the small one here does, and does no harm).
- `FramebuffersStand`: while a commit may scan an import out, it is there,
  whatever the cap, `retire` and `reset_generation` do; for a producer that
  submits before every frame, as in `ReusedOffScreen`.
- `ShowsSubmitted`: a new frame shows the buffer its submit named, though the
  key was retired and renamed.
- `RetiredGoes` (liveness): a retired import goes once nothing shows it.

Planes:

- `ShowsFrames` (refinement): a frame the kernel takes shows exactly the planes
  and property values it was built to, and one it does not take changes
  nothing, whatever the caches skip.
- `BaselineTrue` (section 4): what the allocator believes written is what the
  kernel has, across tests, refusals, rebinds and other masters.
- `SweptIsOff`: once a frame has turned off what others left, no plane of the
  CRTC is lit that the allocator takes for off.
- `FastPathSound`: once the kernel has taken a frame, those built without any
  test after it are ones it takes too, whatever was edited in between.
- `StackOrder`: overlapping layers are stacked as their zpos asks.
- `LeftNothingLit`: once a detach has landed nothing of the scene is lit on a
  CRTC left behind, however often it was rebound before, but for one it was
  rebound to in place, and but for cursor planes.
- `Settles`: after three frames taken without a change, the next asks the
  kernel nothing (or once, with a plane held for an empty canvas that the kernel
  could light as well).

Present:

- `RepaintCovers`: a painter that repaints the region it is told to has a whole
  frame in the slot presented last, however the history was cut.
- `LeaseOffScreen`: no slot on screen, or on its way there, is painted into.
- `SlotsLostByFailureOnly`: each failed call loses at most one slot, and while
  none fails a ring of three always has one to lease.
- `FramesCarryTheirMode`: the first frame on screen carries the mode and later
  ones the refresh asked for, however many commits were refused before.
- `SkipsOnlyTheShown`: a frame is suppressed only when one is shown and no
  forced one is owed, as long as commits are taken.

Session:

- `BoundedWaitEnds` (liveness, section 3): a bounded wait ends under any number
  of signals, and the wait for the seat under any number of disables.
- `EventsAreHeard`: once the session's events are taken, a held card's
  descriptor is the dispatcher's and is registered; foreign sources keep their
  registration; and session and seat agree about who owns the display.

Parts:

- `PointerOnHotspot`: the pixel under the pointer shows the hotspot of the
  picture on screen, whatever was drawn, moved, turned or hidden since, and
  again with the first commit that lands after one that was published and did
  not; until then a redraw may tear the cursor (`missed`, `torn`). A file
  may put the hotspot on the far edge of its frame (`xhot == width`,
  `drmkit-cursor/src/xcursor.rs:267-268`); that is no pixel, and is excluded.
- `KeysFollowFingers`: a key repeats only while pressed or its release is on
  its way; with everything read, keyboard and lights are as libinput has them.
- `BlobsStand`: blobs named by a connector or a CRTC outlive the commits that
  name them, also those replaced between a landing and its acknowledgement, none
  leaks, and nobody else's is destroyed.
- `MirrorsStand`: removing a mirrored layer removes its copies and no others
  (see `FreesIndexes` below).
- `CanvasShowsItsLayers`: the canvas on screen is the picture of the last frame
  shown, as far as its format can tell it, while the next is painted, up to the
  second build that goes unshown.
- `BuffersStand`: numbers the process keeps name what they were given for,
  nothing leaks on a live file, and what the scene holds of a surface is locked.
- `FramesAsAsked`: planes decode and fade as asked and carry nobody's private
  setup; panels that keep a picture lack no damage; no unfinished buffer is
  shown unless the wait for it was cut short.
- `DecorationsStand`: the planes an output holds show what its last frame put
  there; a desk painted by damage is the desk painted whole; animations arrive.
  Giving planes back edits two maps and touches no plane
  (`reservation.rs:146-152`): one given back goes on showing what it showed until
  somebody arms or disarms it, and nothing is said of it.
- `CaptureTrue`: a capture during which nobody commits and every plane's query
  answers has every visible readable plane, in order. The handles opened on a
  framebuffer are closed before the next is asked for, whatever it turned out to
  be: of another format or layout, without objects, or not mappable.
- `TargetCurrent`: when the search has ended and the hotplugs it was told of
  are handled, its answer is the best of the connectors that answered.

### Where the code and its documentation differ

Shown by a run:

- **A first frame the kernel refuses may never be built again** (`first_frame`).
  `build_frame` sets `committed_once` and clears the dirty flags
  (`drmkit-scene/src/scene.rs:1057-1066`), before anything is committed; after a refusal
  `content_changed` answers false with nothing on screen.
- **Teardown takes any queued event for the last flip's** (`settle`).
  `armed_flip.rs:89`: with the event of the frame before still undispatched, the
  wait ends at once and the tripwire is cleared with a flip in flight.
- **A ring slot goes back while on screen** when its producer was idle for a
  frame (`scene_ring_idle`): held frames share one token, and the release of
  the first of them retires it (`presenter.rs:275`).
- **A rejected commit costs the ring a slot** (`scene_ring_reject`):
  its buffers come back under the scanning token, which `release` ignores
  (`presenter.rs:270`), and no later release names that token.
- **A frame the pool accepted may fail at acquire** (`pool_pending`).
  `is_referenced` does not count the key that is pending, and a release sweeps
  too (`pool.rs:423`): a key submitted, then retired or left behind by
  `reset_generation`, can lose its import before it is acquired. `acquire` then
  fails with `INVAL`, which fails the frame of every layer.

`repeated` and its counterpart `held` in the pool show the same thing twice:
where a ring's slot goes back early, a retired import of the pool is torn down
while the frame that repeated it is on screen. The ring's two bound what
`ReusedOffScreen` and `NoSlotLost` can claim, and are stated there as the
histories `repeated` and `unshown`.

### Where a property had to be restricted

Each of these is a behaviour of the code met while modelling. The property is
claimed of the rest, and says so in its comment.

Planes:
- A first frame that places nothing but the canvas does not turn off what
  others left, and later frames do not make up for it (`scene.rs:1091`,
  `1145-1171`; `unswept`). A first frame that cannot read what is lit disables
  every candidate plane, also those lit on another CRTC (`blind`).
- A scene emptied of its layers keeps its planes lit, but forgets them
  (`scene.rs:1078-1082`): `ShowEmptied = FALSE` keeps to callers that do not
  commit such a frame.
- A scene rebound to the CRTC it is on forgets which planes it has lit there
  (`scene.rs:1866-1882`: `forget_output` clears what `lit_planes` reads). Rebound
  to another CRTC before a frame has swept the first, it queues no detach, and
  its planes stay lit where it was, which the comment on `rebind`
  (`scene.rs:1850-1857`) says cannot be skipped. `forgot` has those CRTCs, and
  `LeftNothingLit` excludes them.
- "A cursor plane is owned by the cursor path, not the scene"
  (`registry.rs:462-465`): the scene turns none off (`force_disable_candidates`),
  pins no layer to one and puts no canvas on one. But the search where planes
  take a zpos offers a layer every plane of the CRTC (`allocator.rs:1480`) and a
  cursor plane is compatible with any layer small enough (`scoring.rs:257-264`).
  When that layer goes away or moves to another plane, the plane stays lit with
  it: no frame disables it, and once the frame is committed the allocator no
  longer lists it as lit, so a detach leaves it too. Proving `FramesAreShown` for
  any device brought this out, and TLC confirms it within a few steps when
  `CursorPlanes` is made empty; `LeftNothingLit` and the display's `spares` leave
  cursor planes out, in the runs, where the search does take one, and in the
  theorems.
- A pin on a CRTC that stacks by zpos may clash with the allocator's own choice
  of plane; `PinWhereZpos = FALSE` leaves it out. Pins are tested without the
  canvas, so `FastPathSound` excludes them.
- Groups are tested one by one and their union is not (`allocator.rs:1472-1499`,
  though "what the kernel accepts is the whole frame", `allocator.rs:480-486`),
  and an exhausted budget returns an untested assignment: the commit may be
  refused. The cache survives that refusal, since "an ordinary rejection after a
  real TEST says nothing new about the cache" (`frame.rs:188-191`), so the next
  frame takes the fast path with the arrangement just refused, and is refused
  without a test; only that second refusal drops the cache. For
  `is_fb_only_frame` the cached assignment is one "the kernel already accepted"
  (`allocator.rs:755`). `stale` has it that a frame searched for is still to be
  taken, and `FastPathSound` starts where one was. Without that TLC violates it
  on three planes of which two may be lit: two layers on a plane each, a third
  one composited.
- While a plane is held for a canvas that carries nothing the fast path is
  never taken (`allocator.rs:974-979`), so `Settles` allows one test. Where the
  kernel cannot light that plane besides the others, the test, which lights it,
  fails: every frame is then searched for anew, for as long as nothing changes,
  and `Settles` excludes it. TLC meets it with two layers above the bottom of a
  movable primary, and two planes that may be lit.

Present:
- Each refused commit, failed emission, failed build after a paint, or painted
  frame that is replaced loses a slot until a pause: `release` ignores a slot
  that is scanning. With two slots the ring wedges after two frames.
  `SlotsLostByFailureOnly` counts them.
- Every commit error is finalized as a rejection (`dumb_sink.rs:424`), so a lost
  master suspends the scene only through the session's own pause. Neither mode nor
  VRR is asked for again after another master had the device (`switched`).
- The economy's force is used up by the decision, before the commit is known
  to succeed, and a failure does not give it back: the next idle frame may be
  skipped with a full commit owed. `SkipsOnlyTheShown` is for callers whose
  commits are taken.

Session and input:
- When an acknowledgement is refused, the rest of the batch is dropped and the
  session stays as it was until the next switch (`ackRefused`). A stale resume may
  carry a descriptor a later event of the batch has closed.
- A keymap reloaded while Caps is being released leaves the lock on. A press
  handled after the pause would repeat for ever: the caller handles what it read
  first. One key code on two keyboards is left out.

Composition, planes' state and contents:
- The canvas turns over at every build with composition, tests and refused
  commits included (`scene.rs:1646`), though `canvas.rs` says it does when a
  frame is shown: a second build before one is shown paints the buffer on
  screen (`unshown <= 1`). A layer off the canvas is squeezed, not cropped.
- After a switch only planes of the first accepted frame get their colours
  restated (`othersOwn`).
- Damage that a refused, failed or test build took with it is lost, and damage
  is written for a plane whose panel last showed another layer's buffer
  (`forgiven`). Fences of composited layers are ignored while the canvas reads
  their pixels. A signal or the 1 s timeout ends the wait for a fence and the
  frame is committed all the same.
- The report counts a starved layer twice where it is not on a plane the
  allocator gave it; `EveryLayerCountedOnce` excludes those, though
  `report.rs:80-88` states the identity without exception.

Buffers and sets:
- Importing one dma-buf twice on one file yields one handle that is not
  counted (`Shares = FALSE`). `on_session_resumed`, called again after a failure,
  resumes sources again that were resumed already, leaking their handles
  (`Retries = FALSE`; with `TRUE` TLC finds it).
- A GBM surface's `acquire` takes the fence, so a refused commit loses it.
- A scene index given to another scene while set layers still name it lets
  their removal remove a layer of the new scene (`FreesIndexes = TRUE` keeps to
  callers that remove those first; with `FALSE` TLC finds it).

Cursor, decorations, display, capture:
- A sprite turned by the hardware is placed by its unturned hotspot. On the legacy
  path an animation or a turn redraws without handing over (`unhanded`).
- Decoration surfaces are told apart by place, size and a generation that starts
  at 0 for each, so a new one may be taken for the old (`mistaken`). A shadow
  cache of one patch draws none in mid-transition, as it says.
- `acknowledge_committed` destroys all that is queued. Called while a connector
  still names a replaced blob, after another CRTC's commit or an older one, it
  destroys that one too. The model's caller waits until the commits that
  reference the new blobs have landed, "after" which the documentation wants the
  call; blobs may be set between a landing and the call. A CRTC without a LUT
  size stops `set_identity` midway.
- `published()` where the caller's commit failed marks the buffer on screen as the
  one to draw in: "the next draw there can tear" (`pingpong.rs:105-110`).
- A capture taken while someone commits may mix two frames (`undisturbed`), and a
  plane whose query fails is left out of the picture without a word.
- The resources and the planes' properties a search starts from are taken as
  read: where they cannot be, it ends with the error before anything is chosen.

### Bounds

`MaxFrames = 3`: the ring is two generations deep, so frame 3 is the first to
return frame 1's buffers; every refusal, early release, pause and removal is
tried at each depth. Two layers: one that re-presents and one that starves, so
that a frame can mix them, and one can be removed with the other's buffers in
flight. `OnSessionResumed(S)` and `BuildFrameFails(S, usedUp)` need two to stop in
the middle. Three slots: one on screen, one queued, one being rendered, which
is the ring's own minimum for a producer that never waits. `TokenLimit` stands
for 2^64 and is small enough to wrap within a run of `RingClient`; in
`scene_ring` it is 4, the three frames' tokens and the sentinel, so no token is
used twice. `MaxDamage = 2` of two regions (the code: 16) overflows both in one
frame and by accumulation. Slots and regions are interchangeable, and their
symmetry is used only in the ring's runs, which check invariants. The pool has
one key more than its cap, so that it evicts and marks; two buffers, so that a
key can be renamed; and two acquisitions out, the frame on screen and the next.

`planes`: three planes and three layers are the least in which a group of two, a
plane held for the canvas and a plane left over exist together; the devices are
one whose primary cannot be moved in the stack, with a cursor plane, one that stacks by id, and one
with two blend stages and a virtual plane. Capacities of 2 and 3 make the kernel
refuse what fits the planes. Three tests a search (the code: 16, per allocation)
exhaust the budget. One rebind, switch or change of the kernel's capacity and four
edits, in any order; while a detach waits, or before a frame has swept a CRTC it
was rebound to in place, the scene may be rebound again freely. `present`: five frames go round
three slots and overflow a history of two rectangles; two failures fall on any two
calls. `session`: four descriptors let a card come back under a number another
source had. `parts`: each has two of what it is about (keyboards, CRTCs,
planes, owners, outputs; of a sprite's turns none and a quarter), ids that come round again (`MaxBlob`; the kernel's
least free handle and framebuffer), and a bound on what would count without end.

Deadlock is not checked: after `Teardown` nothing remains to be done, a retired
ring stops, and the other models stop at their bounds.

### Fairness

`PoolClient` assumes weak fairness of building frames and of returning the
oldest acquisition: a scene in use is built at every vblank, and every
successful commit rotates the release ring. Nothing is assumed of the producer.
`RetiredGoes` needs both and is claimed until the layer is removed (the scene
drops the source then) or an acquire has failed.

`Session` assumes weak fairness of the clock (`Tick`), of the process retrying
an interrupted wait (`Retry`) and of the kernel returning from a wait whose
descriptor is ready or whose timer has run out (`DispatchReturns`,
`ActivationReturns`): scheduling, and what `epoll_wait` promises. Nothing is
assumed of signals or the seat, which may come without end.

The other models assume none: their properties are safety and action
properties, and one a refinement of a specification without liveness. The ones
that stand for something that must happen (`TripwireTrue`, `SlotsReturn`) say
that its cause is still there.

## 5. What is proved

Eight modules hold theorems; `tlapm` checks each of them to the last leaf. They
hold for every value of the constants that satisfies the named assumptions: any
sets of layers, planes, slots and descriptors, any bounds, any interleaving.
What the runs bound so that TLC ends (frames, failures, edits, tests, tokens) is
arbitrary here.

| module | theorems | stated of |
|---|---|---|
| `LayerSceneProofs` | `TypeCorrect`, `Invariance`, `BuffersHeldOnce`, `ScanoutNeverReleased`, `NothingIsStranded`, `SourcesAwaitBuffers`, `TripwireIsTrue`, `SkippingIsSound`, `ReturnsOldestFirst` | `LayerScene!Spec` |
| `SourceProofs` | `SceneRingInvariance`, `SceneRingIsScene`, `RingStaysInStep`, `SlotsReusedOffScreen`, `SlotsAreNotLost` | `SceneRingSpec` |
| | `PoolInvariance`, `AcquisitionsKeepTheirFramebuffers`, `FramesShowWhatWasSubmitted` | `ClientSpec` (pool) |
| `DisplayProofs` | `PlanesAgree`, `BaselinesAreTrue`, `SweptPlanesAreOff`, `NothingLeftLit`, `FramesAreShown` | `PlaneScene!Spec` |
| | `SessionInvariance`, `FlipsAreHeard` | `LoopSpec` |
| `PresentProofs` | `PresentInvariance`, `RepaintsAreComplete`, `SinkPaintsOffScreen`, `SlotsAreLostByFailure`, `ModeFollowsTheFrame`, `IdleFramesAreShown` | `PresentSpec` |
| `PartsProofs` | `DamageIsCovered`, `SlotsComeBack`, `BlobsOutliveTheirUse`, `FramesGiveWhatWasAsked`, `DecorationsAreTrue`, `CursorPointsTrue`, `TargetsAreCurrent`, `CapturesAreTrue`, `MirrorsAreStanding`, `KeysAreFollowed`, `CanvasIsShown`, `BuffersAreStanding` | `PartsSpec` |
| `RingProofs`, `PartInvariants`, `InductionFacts` | lemmas only | |

The assumptions are those of the modules, each beside its constants. They give
the constants their types; the few that say more are these:

- `TokenAssumption` (`MaxFrames < TokenLimit`): in the model of a scene with a
  ring, tokens do not wrap. The code's are 64 bits wide. What happens when they
  do wrap is `RingClient`'s, whose theorem `SlotsComeBack` does not assume it.
- `RingLayerAssumption`: the ring's layer is the scene's only one, and never
  starves.
- `SinkAssumption`, `BackendAssumption`: the sink's layer may starve, the
  backend's does not.
- `DepthAssumption`: a client has at least two acquisitions out before it returns
  the oldest.
- `CardAssumption`: what an open descriptor is of is told apart from a closed one.
- `CursorAssumption`: a cursor has a frame, and a frame is what `parse_image` lets
  through (`Frames`).
- `DiscoveryAssumption`: the kernel's ids differ, none is 0, and its encoders drive
  the CRTCs it lists.
- `DecoAssumption`: planes are numbered, and finitely many.
- `CaptureAssumption`: the kernel lists a plane once.
- `KeysAssumption`: the lock key is not one the keymap repeats, and there are
  finitely many keyboards.
- `CanvasAssumption`: pixels with an alpha are premultiplied, as `canvas.rs` asks of
  its sources, and a layer is on the canvas or off it: one that hangs over the edge
  is drawn squeezed (section 4).
- `GemAssumption`: an imported layout has at least one plane.

Three theorems about planes (`SweptPlanesAreOff`, `NothingLeftLit` and
`FramesAreShown`) have a hypothesis besides, `~ShowEmptied`: no caller commits a
scene it has emptied, as in the run. Such a frame forgets planes it leaves lit, and
the theorems are false without it (section 4). `MirrorsAreStanding` has
`FreesIndexes` for one: no caller lets a scene's index be given to another scene
while set layers still name it, false likewise without it. `BuffersAreStanding` has
`~Shares` and `~Retries`: no two sources import one dma-buf, and none is resumed
twice on one file; either of them leaks or closes another's handle (section 4).

### The scene

`ScanoutHeld` is not inductive: that the screen's buffers are out says nothing of
where the scene keeps them, and a rotation may return any that are in `twoAgo`.
The invariant `IInv` adds what makes the rotation safe:

- `Numbers`: the frame numbers of what is held, on screen and being built are
  in order, none beyond `builds`;
- `Sequences`: `lastSeq`, `landed`, the sequence of the flip in flight and the
  one the held frame would get follow each other by one, so a release for a
  landed sequence equal to `lastSeq` means the flip of the newest commit is over;
- `HeldOnce`;
- `Ring`: the buffers the frame on screen acquired are in `previous` while no
  flip is pending and in `twoAgo` only while a newer one is, whose own buffers
  are then in `previous` (one place earlier between a commit and its
  `finalize_frame`), so neither the rotation nor `release_displaced` reaches
  what is on screen;
- `Reattachment`: a live layer that never starves is never re-attached, except
  across a pause;
- `Kept`: what is out is held somewhere, under a source that is there;
- `Ordered`: of one layer, what is in `twoAgo` is older than what is in
  `previous`, and that than what is being built, so no rotation returns a newer
  buffer first;
- `Events`: the tripwire, the flip in flight, the events queued and the armed
  sequence go together;
- `Changes`: what a layer's dirty flags do not mention is as it was in the last
  frame built.

Each conjunct has a lemma that says every step preserves it, with one step per
action it is disturbed by; `Invariance` follows by temporal induction, and the
properties from `IInv`.

### Sources

`SceneRingIsScene` is a refinement: the composed specification implements the
scene's, so the scene's theorems hold of a scene with a ring, and `IInv` may be
used in the ring's proof. `SceneRingInv` relates the two. A slot is owned,
pending or in flight, and the queue never has a token twice; every acquisition
the scene holds has its entry in flight (`Tracked`); and the entry that
`release` holds back is the newest frame shown (`Newest`). From that and from
the scene's own order of returns: a slot the producer owns is not on screen.
`RingProofs` has what one operation of the ring does to its entries.

`PoolInv` says that each acquisition out is in flight under a token of its own
with its import as handed out, that so is what is on screen until the scene
retires the source, and that the import a pending frame will be shown with is
of the buffer submitted: a retired key takes no frame while its import is there.

### Planes

What the allocator's searches find is left open in these proofs. All that they
need of a search is that it does not touch the record of the last commit
(`AllocateKeepsCommitted`), so the theorems hold of any search, and of any
quota of tests.

- `PlaneInv` is about what is written: the record agrees with the kernel's
  planes (`BaselineTrue`), and what a frame held was built against still does
  (`FrameWrites`), since nobody else changes the planes before it is committed,
  dropped or overtaken by a switch.
- `SweepInv` is about what is turned off: a frame that sweeps has every lit
  plane among those it shows or disables, and one not built blind disables
  none of another CRTC.
- `OwnKnown`: what the scene has lit, but for cursor planes, is recorded, or
  waits to be detached, or is on a CRTC the scene was rebound to in place.

`FramesAreShown` is the refinement of `PlaneDisplay`, one lemma for each kind of
step: `BuildWants`, `CommitShows`, `RebindMoves`, `DetachBlanks`, and `StepShows`
for all.

### Presenting

`PresentInv` has a part for each of the three paths and one for the scene they
share, whose invariant is needed again in a weaker form. Before any of them,
`SceneMoves`, `RingMoves` and `ModeMoves` say what the twenty-odd actions do to
the scene, the ring and the mode, and each part is shown to survive those moves.

- The ring: a slot misses nothing but what was reported since it was last
  presented, as far as the history goes back (`Missed`), and a history that was
  cut makes the repaint full.
- The sink: what is out is not free and out once; what is painted scans out, but
  for the frame about to be presented; each lost slot has its failure
  (`LossesCounted`). `SlotsAreLostByFailure` counts with `Cardinality`.
- The backend: a mode not set yet is still to be set, and what is on screen has
  set it (`ModeInv`); the decision that uses up a forced frame ends with a
  frame on screen, or with a failure counted (`SkipInv`).

### The session

The seat's events come in batches of any length, and a batch is a recursive
function, so its effect is shown by induction along the batch, for an invariant
of the state half-way. Descriptors held are open and of their devices
(`HeldIn`), the sources' are registered and their own (`RegisteredIn`), and
either no resume is on its way and the card's descriptor is the one registered,
or the last one on its way carries the devices held (`WillHear`). That last
alternation is what `FlipsAreHeard` rests on.

### The parts

`PartsSpec` interleaves parts that share nothing. `PartsMove` says which of them
a step changes, and each has its own invariant:

- `ClientInv`: a slot in flight is on screen or out under its token, however the
  tokens are numbered;
- `HdrInv`, `ColorInv`: what a connector or a CRTC names is a blob that exists,
  and no two owners have one number. The kernel gives its least free number
  (`LeastIsIn`), so numbers do come again;
- `StickyInv`: what a plane is believed to have is what it has, unless what the
  planes show is unknown, and then the frame restates;
- `ContentsInv`: what has changed in a layer is in its damage, in a plan, or on
  the panel;
- `OverlayInv`: no plane is reserved twice, within an output (`OrderedOnce`) or
  across them;
- `DeskInv`: the shadow buffer shows the slots of the last frame, unless a
  surface has been mistaken. That repainting the damage alone is enough rests
  on two lemmas: the damage covers what it bounds (`BoundsCover`), and a pixel
  outside it is covered by the same slots, unchanged, before and after
  (`UntouchedPixels`);
- `AnimInv`: a track that runs has run for as long as its target has stood
  unchanged, and one that does not run is at its target;
- `CursorInv`: the hotspot and the shift that are told are those of the picture
  the next commit shows (`Announced`), nothing is drawn over what is on screen
  but by the legacy path or after a commit that was published and missed, and what
  is on screen was aimed with what was told of
  it (`Aims`). That the point so aimed at is a pixel of the hotspot
  (`HotspotShown`) is arithmetic: one axis at a time (`AxisCovered`), the
  truncated quotient of a hotspot in its frame is a pixel of the shrunk sprite
  that overlaps the hotspot's;
- `DiscoveryInv`: of the connectors passed, those that may be chosen were seen, in
  the kernel's order and as they still are unless a hotplug is coming (`SeenOf`).
  That the choice among them is the best connector's is `BestIsPreferred`, and
  that a connector's CRTC is one its encoders drive, whoever routed them since,
  `CrtcIsReachable`;
- `CaptureInv`: of the planes passed, those that can be read were, in the
  kernel's order and as they are unless somebody committed or a query failed
  (`CapturedOf`), and handles are open only from the framebuffer's answer to the
  end of its plane's turn, whether or not it can be read. That sorting keeps them all and
  puts each where it is composed is `ZposOrders`, by counting ranks
  (`RanksAreFilled`);
- `SceneSetInv`: generations and slots of layers differ, a handle's layer is where
  the handle says or gone, and what the layers say they have in the scenes and
  what is in the scenes' slots are of each other, one to one (`Stands`). A copy
  added (`MirrorStands`) or removed (`UnmirrorStands`) keeps that, and a layer's
  copies do one after the other (`MirroredStands`, `UnmirroredStands`);
- `KeysInv`: the last word on a key among the events that wait, if there is one,
  is what libinput has it as, and if there is none the key is held as libinput
  has it (`KeyHeard`); the same of a keyboard and its light (`KeyboardHeard`). A
  pause leaves words of what went and of nothing else (`Paused`). What a dispatch
  hands on is told in `DispatchReads`, and that reload and release_all leave the
  lock as it was in `LockIsTapped`;
- `CanvasInv`: the canvas built last has its picture in the back buffer, and what
  is on screen is there until the buffers turn over, or in the other one until
  they do again. That a painted buffer is its picture (`BlendedIsSeen`) goes layer
  by layer along the targets, and pixel by pixel: clipping and scaling read the
  pixel a plane would (`PixelIsSample`), and the code's saturating sum never
  saturates where pixels are premultiplied (`BlendIsOver`). What a format
  keeps of a pixel, it shows (`FormatTells`);
- `GemInv`, `SurfaceInv`: each owner's numbers name its own objects and nobody
  else's, and on a live file there is nothing besides. Every operation is calls that
  touch the owner's objects alone (`Calls`), after which its buffer stands and
  what it had is its own still or gone (`Handled`); from that the invariant is kept
  (`HandledIsKept`) whichever ioctl failed. The kernel's number is free because
  there are more numbers than handles (`FreeNumberIsFree`), and closing a file
  takes nothing that an open one has (`ReclaimingKeeps`). A surface's chain is made
  one buffer after the other (`ChainIsMade`), and its locks name buffers of the
  chain that made them.

### How inductions are done

The library's induction theorems have an operator for a parameter, which none
of the provers here can instantiate. Induction over time is the prover's own
(PTL). Where numbers need it, `InductionFacts` has the least element of a set
of naturals (`LeastExists`), and from it that what steps along a sequence keep
is kept at its end (`Reaches`) and that a recursive function over it exists
(`IteratesExist`). Batches are therefore recursive functions, where a fold would
have been shorter: folds, `SelectSeq` and `@@` are opaque to `tlapm`.

### Only model-checked

- Liveness under fairness: `BoundedWaitEnds`, `RetiredGoes`. The prover has
  neither `ENABLED` nor a rule for fairness.
- `FastPathSound`, `StackOrder`, `Settles`: these are about what the allocator's
  searches come to: groups, a warm start, a matching, sequential tries and the
  canvas's retry within a quota of tests. The proofs about planes hold of any
  search, which is what makes them short, and so say nothing of these three. The
  first and the last of them were once stated for more than is true of every
  device (section 4): on the devices of the run nothing broke them, and three
  planes free to move did. As they stand they hold on those as well, with no
  foreign plane lit: `Plane(_, _, 0, 3, _, _)` for all three; a fixed primary
  below two overlays of `[1, 3]`; an overlay of `[0, 1]` between two planes of
  `[0, 3]`; three fixed zpos.
- The pure algorithms, which are compared with their reference definitions over
  bounded inputs: what a recursive function computes for every input is
  induction over data.

## 6. What is not modelled

- Of the scene: the accessors, CRTC properties a caller adds, plane-state
  diagnostics, the bound of 64 on remembered pin verdicts. Of the source contract: CPU
  mappings, plane binding and the release callback.
- Of the allocator: rotation and scaling apart from format, diagnostic
  counters other than tests. Of commit emission: the list of chroma-subsampled
  formats. Of the canvas: the second axis, the third colour, packing.
- Of the session: the VT switch request. Of input: pointers, touches, gestures.
- `drmkit-core`, formats, fences, time, logging, the test kit: wrappers and tables.
- Parsing (EDID, cursor themes, `drmdb`), tone mapping, glyphs and gradients, PNG
  encoding, formatting, and the repository's own tools (`xtask`,
  `validation`, examples): no protocol state, and a model would restate them.
- Other clients: routing changes by another client that send no uevent, and a
  CRTC that already drives another output, are documented limits of the search.
