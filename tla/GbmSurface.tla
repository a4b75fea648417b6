----------------------------- MODULE GbmSurface -----------------------------
(***************************************************************************)
(* GbmSurfaceSource (drmkit-scene-gbm): a swap chain that a producer draws *)
(* into and the scene locks buffers of, with a framebuffer kept for each   *)
(* GEM handle, on the device file of GemBuffers and with no buffer beside. *)
(***************************************************************************)
EXTENDS GemBuffers

CONSTANTS
  Chain,       \* the buffers of a swap chain
  MaxTokens,   \* bound on the locks
  NeedsBind    \* SurfaceConfig.require_bind

ASSUME SurfaceAssumption == Chain \in Nat /\ MaxTokens \in Nat /\ NeedsBind \in BOOLEAN

VARIABLES
  surface,     \* the source, or NoSurface
  rendered,    \* the buffer swapped to the front and not locked, 0 for none
  producing,   \* the producer has a window on the surface
  scanned      \* the locks the scene holds: [token, buffer, from]

surfaceVars == <<surface, rendered, producing, scanned>>

NoSurface == [gbmFile |-> 0, fbFile |-> 0, bos |-> <<>>, framebuffers |-> {}, locked |-> {},
              nextToken |-> 1, paused |-> FALSE, bound |-> FALSE]

Standing == surface # NoSurface
OpenFor(s) == {s.gbmFile, s.fbFile} \ {0}

Linked(i) == <<"linked", i>>

\* make_surface: the chain's buffers are on the device's file.
ChainMade(k) ==
  LET made[i \in 0..Chain] == IF i = 0 THEN k ELSE Creates(made[i - 1], file, Linked(i))
  IN  made

MakeSurface(k) ==
  [k |-> ChainMade(k)[Chain],
   bos |-> [i \in 1..Chain |-> FreeHandle(ChainMade(k)[i - 1], file)]]

FreesSurface(k, s) == Closes(k, s.gbmFile, Range(s.bos))

SettleFiles(k, s) == tables' = Reclaims(k, {file} \cup OpenFor(s))

CreateSurface ==
  /\ ~Standing /\ live
  /\ LET made == MakeSurface(tables)
         s == [NoSurface EXCEPT !.gbmFile = file, !.fbFile = file, !.bos = made.bos]
     IN  surface' = s /\ SettleFiles(made.k, s)
  /\ rendered' = 0 /\ producing' = FALSE
  /\ UNCHANGED <<file, live, buffers, scanned>>

\* The producer makes its window, and says so where it is asked to.
Binds ==
  /\ Standing /\ ~producing /\ ~surface.paused
  /\ producing' = TRUE
  /\ surface' = [surface EXCEPT !.bound = NeedsBind]
  /\ UNCHANGED <<gemVars, rendered, scanned>>

\* The producer draws into a buffer that is free and swaps.
Renders ==
  /\ producing /\ rendered = 0
  /\ \E i \in 1..Chain :
       /\ i \notin {l.buffer : l \in surface.locked}
       /\ rendered' = i
  /\ UNCHANGED <<gemVars, surface, producing, scanned>>

MayLock == ~surface.paused /\ (NeedsBind => surface.bound) /\ producing /\ rendered # 0

\* framebuffer_for: what there is for the handle, or a new one.
FramebufferFor(k, s, handle) ==
  IF \E c \in s.framebuffers : c.handle = handle THEN [k |-> k, framebuffers |-> s.framebuffers]
  ELSE [k |-> AddsFb(k, s.fbFile, {handle}),
        framebuffers |-> s.framebuffers \cup {[handle |-> handle, fb |-> FreeFb(k)]}]

\* acquire.  A buffer that cannot be registered goes back to the chain.
LocksFront ==
  /\ Standing /\ MayLock /\ surface.nextToken <= MaxTokens
  /\ LET handle == surface.bos[rendered]
         with == FramebufferFor(tables, surface, handle)
         lock == [token |-> surface.nextToken, buffer |-> rendered]
     IN  \/ /\ surface' = [surface EXCEPT !.framebuffers = with.framebuffers,
                             !.nextToken = @ + 1, !.locked = @ \cup {lock}]
            /\ tables' = with.k
            /\ scanned' = scanned \cup {[token |-> lock.token, buffer |-> rendered,
                                         from |-> surface.gbmFile]}
         \/ /\ with.k # tables
            /\ UNCHANGED <<tables, surface, scanned>>
  /\ rendered' = 0
  /\ UNCHANGED <<file, live, buffers, producing>>

\* release, of a lock the scene has from this surface or an earlier one.
Unlocked(s, token) == [s EXCEPT !.locked = {l \in @ : l.token # token}]

ReleasesLock ==
  \E held \in scanned :
    /\ Standing
    /\ surface' = Unlocked(surface, held.token)
    /\ scanned' = scanned \ {held}
    /\ UNCHANGED <<gemVars, rendered, producing>>

\* on_session_paused.  The scene has released all but a frame being built.
PausesSurface ==
  /\ Standing /\ ~live /\ ~surface.paused
  /\ surface' = [surface EXCEPT !.paused = TRUE, !.framebuffers = {}, !.locked = {}]
  /\ \E kept \in {{}} \cup {{l} : l \in scanned} : scanned' = kept
  /\ UNCHANGED <<gemVars, rendered, producing>>

\* on_session_resumed: a new chain on the new file.  The descriptor for the
\* framebuffers may be the last thing that cannot be had.
ResumedSurface(s, bos, duplicates) ==
  [s EXCEPT !.locked = {}, !.framebuffers = {}, !.bos = bos, !.gbmFile = file,
            !.fbFile = IF duplicates THEN file ELSE @,
            !.paused = ~duplicates, !.bound = IF duplicates THEN FALSE ELSE @]

ResumesSurface ==
  /\ Standing /\ live /\ surface.paused
  /\ \E duplicates \in BOOLEAN :
       LET made == MakeSurface(tables)
           s == ResumedSurface(surface, made.bos, duplicates)
       IN  surface' = s /\ SettleFiles(FreesSurface(made.k, surface), s)
  /\ rendered' = 0 /\ producing' = FALSE
  /\ UNCHANGED <<file, live, buffers, scanned>>

\* Drop: the framebuffers on their own file, unless it is lost.
DropsSurface ==
  /\ Standing
  /\ LET removed == IF surface.paused THEN tables
                    ELSE RemovesFbs(tables, surface.fbFile, {c.fb : c \in surface.framebuffers})
     IN  SettleFiles(FreesSurface(removed, surface), NoSurface)
  /\ surface' = NoSurface /\ scanned' = {}
  /\ rendered' = 0 /\ producing' = FALSE
  /\ UNCHANGED <<file, live, buffers>>

SurfaceInit ==
  /\ surface = NoSurface /\ rendered = 0 /\ producing = FALSE /\ scanned = {}

SurfaceNext ==
  \/ (SessionPauses \/ SessionReopens(OpenFor(surface))) /\ UNCHANGED surfaceVars
  \/ CreateSurface
  \/ Binds
  \/ Renders
  \/ LocksFront
  \/ ReleasesLock
  \/ PausesSurface
  \/ ResumesSurface
  \/ DropsSurface

-----------------------------------------------------------------------------
(* Each file's tables beside what the process believes it has there.       *)

ObjectsOf(o, b) == IF b.kind = "import" THEN ToSet(Names(b.planes)) ELSE {Made(o)}

\* On file f the numbers name nothing but the objects.
Name(k, f, numbers, objects) ==
  \A h \in numbers : h \in DOMAIN k.gem[f] /\ k.gem[f][h] \in objects

\* The framebuffer of this number is one the file added, of the objects.
AddedFb(k, id, f, objects) ==
  id \in DOMAIN k.fbs /\ k.fbs[id] = [file |-> f, objects |-> objects]

BufferStands(k, o, b) ==
  /\ Name(k, b.file, b.handles, ObjectsOf(o, b))
  /\ b.bo # 0 => Name(k, b.boFile, {b.bo}, {Made(o)})
  /\ b.fb # 0 => AddedFb(k, b.fb, b.file, ObjectsOf(o, b))

SurfaceStands(k, s) ==
  /\ \A i \in DOMAIN s.bos : Name(k, s.gbmFile, {s.bos[i]}, {Linked(i)})
  /\ \A c \in s.framebuffers : AddedFb(k, c.fb, s.fbFile, {k.gem[s.gbmFile][c.handle]})

\* A number the process keeps still names what it was given for, on the file
\* it was given on: no teardown, late, through an old file or of a half made
\* buffer, has taken another's object or left a number to be used again.
NumbersStand ==
  /\ \A o \in Owners : BufferStands(tables, o, buffers[o])
  /\ SurfaceStands(tables, surface)

BelievedHandles(f) ==
  (UNION {buffers[o].handles : o \in {o \in Owners : buffers[o].file = f}})
  \cup {buffers[o].bo : o \in {o \in Owners : buffers[o].boFile = f}}
  \cup (IF surface.gbmFile = f THEN Range(surface.bos) ELSE {})

BelievedFbs == {buffers[o].fb : o \in Owners} \cup {c.fb : c \in surface.framebuffers}

\* The process leaks nothing on a live file, whatever fails half way.
NothingLeaks ==
  live => /\ DOMAIN tables.gem[file] \subseteq BelievedHandles(file)
          /\ {id \in DOMAIN tables.fbs : tables.fbs[id].file = file} \subseteq BelievedFbs

\* The kernel's tables and the process's records are of one mind.
TablesAgree == NumbersStand /\ NothingLeaks

\* What the scene holds of the surface that stands is locked, so no producer
\* draws into it: also when a lock of the surface before the pause is given
\* back after it.
HeldStaysLocked ==
  \A held \in scanned :
    Standing /\ ~surface.paused /\ held.from = surface.gbmFile =>
      [token |-> held.token, buffer |-> held.buffer] \in surface.locked

=============================================================================
