----------------------------- MODULE GemBuffers -----------------------------
(***************************************************************************)
(* The buffers of a process on its DRM file: dumb buffers (drmkit-dumb),   *)
(* imported dma-bufs and GBM allocations (drmkit-scene-sources), with the  *)
(* GEM handles and framebuffers the kernel keeps for them.  A session that *)
(* comes back has a new file, and the kernel hands the numbers out again.  *)
(***************************************************************************)
EXTENDS Integers, FiniteSets, SequencesExt

CONSTANTS
  Owners,     \* where the process keeps a buffer
  Layouts,    \* what producers hand over: a dma-buf for each plane
  MaxOpens,   \* bound on the files opened
  Shares,     \* whether two sources may import one dma-buf
  Retries     \* whether a source may be resumed twice on one file

Files == 1..MaxOpens
DmaBufs == UNION {ToSet(planes) : planes \in Layouts}

\* A layout has a plane, and the process opens a file.
ASSUME GemAssumption ==
  /\ MaxOpens \in Nat \ {0}
  /\ Layouts \subseteq Seq(DmaBufs) \ {<<>>}
  /\ Shares \in BOOLEAN /\ Retries \in BOOLEAN

VARIABLES
  tables,   \* [gem, fbs]: what each file's handles and each framebuffer name
  file,     \* the file the process's device is open on
  live,     \* the session is not paused
  buffers   \* what each owner has

gemVars == <<tables, file, live, buffers>>

NoBuffer == [kind |-> "none", file |-> 0, handles |-> {}, fb |-> 0, planes |-> <<>>,
             bo |-> 0, boFile |-> 0]

\* What a handle names: a buffer its owner made, or a producer's.
Made(owner) == <<"made", owner>>
Produced(d) == <<"produced", d>>

-----------------------------------------------------------------------------
(* The kernel: handles are a file's, framebuffers the device's and removed *)
(* by the file that added them; both come from the lowest free number.     *)

Lowest(S) == CHOOSE n \in S : \A m \in S : n <= m
FreeNumber(names) == Lowest(1..(Cardinality(DOMAIN names) + 1) \ DOMAIN names)

Adds(names, object) ==
  [n \in DOMAIN names \cup {FreeNumber(names)} |->
    IF n \in DOMAIN names THEN names[n] ELSE object]
Removes(names, numbers) == Restrict(names, DOMAIN names \ numbers)

FreeHandle(k, f) == FreeNumber(k.gem[f])
HandlesOf(k, f, object) == {h \in DOMAIN k.gem[f] : k.gem[f][h] = object}

Creates(k, f, object) == [k EXCEPT !.gem[f] = Adds(@, object)]

\* A dma-buf the file has a handle for is given that handle, uncounted.
Primes(k, f, object) == IF HandlesOf(k, f, object) # {} THEN k ELSE Creates(k, f, object)

Closes(k, f, handles) == [k EXCEPT !.gem[f] = Removes(@, handles)]

FreeFb(k) == FreeNumber(k.fbs)

AddsFb(k, f, handles) ==
  [k EXCEPT !.fbs = Adds(@, [file |-> f, objects |-> {k.gem[f][h] : h \in handles}])]

RemovesFbs(k, f, ids) ==
  [k EXCEPT !.fbs = Removes(@, {id \in ids \cap DOMAIN @ : @[id].file = f})]

\* A file goes with its last descriptor.
Reclaims(k, open) ==
  [gem |-> [f \in Files |-> IF f \in open THEN k.gem[f] ELSE Removes(k.gem[f], DOMAIN k.gem[f])],
   fbs |-> Removes(k.fbs, {id \in DOMAIN k.fbs : k.fbs[id].file \notin open})]

HeldOpen(b) == {b.file, b.boFile} \ {0}

-----------------------------------------------------------------------------
(* drmkit-dumb's Buffer.                                                   *)

\* A teardown that goes through the number the device is open under.
ThroughTheNumber(b) == file

\* tear_down and Drop: through the descriptor the buffer keeps of its own.
TeardownFile(b) == b.file

TearDown(k, b) ==
  IF b.file = 0 THEN k
  ELSE Closes(RemovesFbs(k, TeardownFile(b), {b.fb}), TeardownFile(b), b.handles)

DropDumb(k, b) == IF b.handles = {} THEN k ELSE TearDown(k, b)

\* forget, of either kind.
Forgotten(b) == [b EXCEPT !.file = 0, !.handles = {}, !.fb = 0]

\* create and create_planar.  What fails once the allocation is made, the
\* mapping, the chroma offset or the framebuffer, drops it again.
CreateDumb(k, owner, addFb, fails) ==
  LET allocated == Creates(k, file, Made(owner))
      handle == FreeHandle(k, file)
      bare == [NoBuffer EXCEPT !.kind = "dumb", !.file = file, !.handles = {handle}]
  IN  IF fails THEN [k |-> DropDumb(allocated, bare), b |-> NoBuffer]
      ELSE IF ~addFb THEN [k |-> allocated, b |-> bare]
      ELSE [k |-> AddsFb(allocated, file, {handle}),
            b |-> [bare EXCEPT !.fb = FreeFb(allocated)]]

-----------------------------------------------------------------------------
(* ImportedFramebuffer and what wraps it.                                  *)

\* import_planes: the first `taken` planes are imported, all of them and one
\* more for the framebuffer.
Imported(k, objects) ==
  LET prime[n \in 0..Len(objects)] ==
        IF n = 0 THEN [k |-> k, handles |-> {}]
        ELSE LET primed == Primes(prime[n - 1].k, file, objects[n])
             IN  [k |-> primed,
                  handles |-> prime[n - 1].handles \cup HandlesOf(primed, file, objects[n])]
  IN  prime

ImportPlanes(k, objects, taken) ==
  LET all == Imported(k, objects)[Len(objects)]
      some == Imported(k, objects)[taken]
  IN  IF taken > Len(objects)
      THEN [k |-> AddsFb(all.k, file, all.handles), file |-> file,
            handles |-> all.handles, fb |-> FreeFb(all.k)]
      ELSE [k |-> Closes(some.k, file, some.handles), file |-> 0, handles |-> {}, fb |-> 0]

Names(planes) == [i \in DOMAIN planes |-> Produced(planes[i])]

WithImport(b, i) == [b EXCEPT !.file = i.file, !.handles = i.handles, !.fb = i.fb]

\* ExternalDmaBufSource::create; nothing is left of one that fails.
CreateImport(k, planes, taken) ==
  LET i == ImportPlanes(k, Names(planes), taken)
      b == [NoBuffer EXCEPT !.kind = "import", !.planes = planes]
  IN  [k |-> i.k, b |-> IF i.fb = 0 THEN NoBuffer ELSE WithImport(b, i)]

\* reimport: the descriptors are kept whether or not it works.
Reimport(b, taken) ==
  LET i == ImportPlanes(tables, Names(b.planes), taken)
  IN  [k |-> i.k, b |-> WithImport(Forgotten(b), i)]

\* GbmBufferSource::create: an allocation, imported through its own dma-buf
\* on the file it was made on.  One of several planes is refused.
CreateGbm(k, owner, taken) ==
  LET allocated == Creates(k, file, Made(owner))
      bo == FreeHandle(k, file)
      i == ImportPlanes(allocated, <<Made(owner)>>, taken)
      b == [NoBuffer EXCEPT !.kind = "gbm", !.bo = bo, !.boFile = file]
  IN  IF i.fb = 0 THEN [k |-> Closes(i.k, file, {bo}), b |-> NoBuffer]
      ELSE [k |-> i.k, b |-> WithImport(b, i)]

\* The fields drop in order: the allocation, then the import.
DropGbm(k, b) == TearDown(Closes(k, b.boFile, {b.bo}), b)

DropBuffer(k, b) ==
  CASE b.kind = "gbm" -> DropGbm(k, b)
    [] b.kind = "dumb" -> DropDumb(k, b)
    [] OTHER -> TearDown(k, b)

-----------------------------------------------------------------------------
Keeps(owner, made) ==
  /\ buffers' = [buffers EXCEPT ![owner] = made.b]
  /\ tables' = Reclaims(made.k, {file} \cup UNION {HeldOpen(buffers'[o]) : o \in Owners})

NotShared(owner, planes) ==
  Shares \/ \A o \in Owners \ {owner} : ToSet(buffers[o].planes) \cap ToSet(planes) = {}

\* Points at which an import of n planes may fail, n + 1 for not at all.
Points(n) == 0..(n + 1)

Allocates(owner) ==
  /\ live /\ buffers[owner].kind = "none"
  /\ \/ \E addFb, fails \in BOOLEAN : Keeps(owner, CreateDumb(tables, owner, addFb, fails))
     \/ \E planes \in Layouts : \E taken \in Points(Len(planes)) :
          /\ NotShared(owner, planes)
          /\ Keeps(owner, CreateImport(tables, planes, taken))
     \/ \E taken \in Points(1) : Keeps(owner, CreateGbm(tables, owner, taken))
  /\ UNCHANGED <<file, live>>

\* DmaBufSourceCache::get_or_create for a key whose format changed: the old
\* source goes before the new one is imported.
Replaces(owner) ==
  /\ live /\ buffers[owner].kind = "import"
  /\ \E planes \in Layouts : \E taken \in Points(Len(planes)) :
       /\ NotShared(owner, planes)
       /\ Keeps(owner, CreateImport(TearDown(tables, buffers[owner]), planes, taken))
  /\ UNCHANGED <<file, live>>

\* evict, and the end of any owner, at any time.
Drops(owner) ==
  /\ buffers[owner].kind # "none"
  /\ Keeps(owner, [k |-> DropBuffer(tables, buffers[owner]), b |-> NoBuffer])
  /\ UNCHANGED <<file, live>>

\* ImportedFramebuffer::release: torn down, to be imported again.
Unimports(owner) ==
  /\ buffers[owner].kind = "import" /\ buffers[owner].file # 0
  /\ Keeps(owner, [k |-> TearDown(tables, buffers[owner]), b |-> Forgotten(buffers[owner])])
  /\ UNCHANGED <<file, live>>

\* CompositeCanvas::forget, on a pause.
ForgetsOnPause(owner) ==
  /\ ~live /\ buffers[owner].kind = "dumb" /\ buffers[owner].handles # {}
  /\ Keeps(owner, [k |-> tables, b |-> Forgotten(buffers[owner])])
  /\ UNCHANGED <<file, live>>

\* on_session_resumed of a dumb source: forgotten, then allocated again.
ResumedDumb(owner, fails) ==
  LET new == CreateDumb(tables, owner, TRUE, fails)
  IN  IF fails THEN [new EXCEPT !.b = Forgotten(buffers[owner])] ELSE new

\* of a GBM source: made first; until it is, nothing of the old is touched.
ResumedGbm(owner, taken) ==
  LET old == buffers[owner]
      new == CreateGbm(tables, owner, taken)
  IN  IF new.b = NoBuffer THEN [new EXCEPT !.b = old]
      ELSE [new EXCEPT !.k = Closes(new.k, old.boFile, {old.bo})]

Resumes(owner) ==
  LET b == buffers[owner] IN
  /\ live /\ b.kind # "none"
  /\ Retries \/ (b.boFile # file /\ b.file # file)
  /\ \/ /\ b.kind = "dumb" /\ (b.handles = {} \/ b.fb # 0)
        /\ \E fails \in BOOLEAN : Keeps(owner, ResumedDumb(owner, fails))
     \/ /\ b.kind = "import"
        /\ \E taken \in Points(Len(b.planes)) : Keeps(owner, Reimport(b, taken))
     \/ /\ b.kind = "gbm"
        /\ \E taken \in Points(1) : Keeps(owner, ResumedGbm(owner, taken))
  /\ UNCHANGED <<file, live>>

\* The session is lost; it comes back with a new file under the old number,
\* and the process closes the old descriptor, which others may hold open.
SessionPauses == live /\ live' = FALSE /\ UNCHANGED <<tables, file, buffers>>

SessionReopens(alsoOpen) ==
  /\ ~live /\ file < MaxOpens
  /\ live' = TRUE /\ file' = file + 1
  /\ UNCHANGED buffers
  /\ tables' = Reclaims(tables, alsoOpen \cup {file'} \cup UNION {HeldOpen(buffers[o]) : o \in Owners})

GemInit ==
  /\ tables = [gem |-> [f \in Files |-> <<>>], fbs |-> <<>>]
  /\ file = 1 /\ live = TRUE
  /\ buffers = [o \in Owners |-> NoBuffer]

GemNext ==
  \/ \E o \in Owners : Allocates(o)
  \/ \E o \in Owners : Replaces(o)
  \/ \E o \in Owners : Drops(o)
  \/ \E o \in Owners : Unimports(o)
  \/ \E o \in Owners : ForgetsOnPause(o)
  \/ \E o \in Owners : Resumes(o)
  \/ SessionPauses
  \/ SessionReopens({})

=============================================================================
