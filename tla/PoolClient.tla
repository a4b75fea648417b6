----------------------------- MODULE PoolClient -----------------------------
(***************************************************************************)
(* An ExternalDmaBufPool between a producer and the least a scene does     *)
(* with its source, as in RingClient.  The producer passes buffers through *)
(* as a compositor passes its clients': it may submit a key at any time,   *)
(* retire it and have it name another buffer from then on, and move to a   *)
(* new generation, whose keys are fresh: an old one comes back only when   *)
(* its import is gone.                                                     *)
(***************************************************************************)
EXTENDS ExternalDmaBufPool

CONSTANT Depth   \* acquisitions a scene holds at once: N-2, N-1 and N

ASSUME DepthAssumption == Depth \in Nat \ {0, 1}

VARIABLES
  renamed,   \* keys the producer has retired, and may use for another buffer
  wanted,    \* the buffer the pending frame was submitted with, or NoBuffer
  outdated,  \* keys of the generation before, not torn down yet
  lent,      \* the acquisitions out, oldest first: token and import
  starved,   \* the last acquire gave nothing
  retired,   \* the scene has removed the layer
  held,      \* history: an acquisition repeated one still out
  failed     \* history: an acquire failed since the last pause

producerVars == <<renamed, wanted, outdated>>
clientVars == <<poolVars, producerVars, lent, starved, retired, held, failed>>

\* Once its import is gone, a key is new.
Forgets(old, outdatedNow) ==
  LET there == {key \in Slots : \E i \in DOMAIN cached' : cached'[i] = key}
  IN renamed' = old \cap there /\ outdated' = outdatedNow \cap there

\* The producer uses a key for the same buffer until it retires the key.
ClientSubmits(key, buf) ==
  /\ ~retired
  /\ key \notin outdated
  /\ key \in Cached \ renamed => buf = buffer[key]
  /\ PoolSubmit(key, buf)
  /\ wanted' = buf
  /\ Forgets(renamed \ {key}, outdated)
  /\ UNCHANGED <<lent, starved, retired, held, failed>>

ClientRetiresKey(key) ==
  /\ ~retired
  /\ PoolRetire(key)
  /\ Forgets(renamed \cup {key}, outdated)
  /\ UNCHANGED <<wanted, lent, starved, retired, held, failed>>

ClientResetsGeneration ==
  /\ ~retired
  /\ PoolResetGeneration
  /\ Forgets(renamed, Cached)
  /\ UNCHANGED <<wanted, lent, starved, retired, held, failed>>

\* Bound: a failed acquire loses a token for good, and nothing is acquired
\* after one until a pause forgets all tokens.
MayAcquire == ~retired /\ ~failed

ClientAcquires ==
  /\ MayAcquire /\ Len(lent) < Depth
  /\ PoolAcquires
  /\ lent' = Append(lent, [token |-> scanningToken', import |-> acquired'])
  /\ starved' = FALSE
  /\ held' = (held \/ \E i \in DOMAIN lent : lent[i].token = scanningToken')
  /\ wanted' = NoBuffer
  /\ Forgets(renamed, outdated)
  /\ UNCHANGED <<retired, failed>>

ClientGetsNothing ==
  /\ MayAcquire
  /\ \/ PoolFails /\ failed' = TRUE /\ UNCHANGED starved
     \/ PoolStarves /\ starved' = TRUE /\ UNCHANGED failed
  /\ wanted' = NoBuffer
  /\ Forgets(renamed, outdated)
  /\ UNCHANGED <<lent, retired, held>>

\* The newest acquisition stays, unless frames without one have followed.
ClientReleases ==
  /\ Len(lent) >= IF retired \/ starved THEN 1 ELSE 2
  /\ PoolReleases(Head(lent).token)
  /\ lent' = Tail(lent)
  /\ Forgets(renamed, outdated)
  /\ UNCHANGED <<wanted, starved, retired, held, failed>>

ClientRetires ==
  /\ ~retired
  /\ PoolRetired
  /\ retired' = TRUE
  /\ UNCHANGED <<producerVars, lent, starved, held, failed>>

ClientPauses ==
  /\ ~retired
  /\ PoolPaused
  /\ lent' = <<>> /\ renamed' = {} /\ outdated' = {} /\ starved' = TRUE
  /\ held' = FALSE /\ failed' = FALSE
  /\ wanted' = NoBuffer
  /\ UNCHANGED retired

ClientInit ==
  /\ PoolInit
  /\ renamed = {} /\ wanted = NoBuffer /\ outdated = {}
  /\ lent = <<>>
  /\ starved = TRUE /\ retired = FALSE /\ held = FALSE /\ failed = FALSE

ClientNext ==
  \/ \E key \in Slots, buf \in Buffers : ClientSubmits(key, buf)
  \/ \E key \in Slots : ClientRetiresKey(key)
  \/ ClientResetsGeneration
  \/ ClientAcquires
  \/ ClientGetsNothing
  \/ ClientReleases
  \/ ClientRetires
  \/ ClientPauses

\* The scene goes on building frames and its commits go on landing.
Frames == ClientAcquires \/ ClientGetsNothing

ClientSpec ==
  /\ ClientInit /\ [][ClientNext]_clientVars
  /\ WF_clientVars(Frames)
  /\ WF_clientVars(ClientReleases)

-----------------------------------------------------------------------------
(* Properties.                                                             *)

\* "A buffer still scanning out stays on screen until a later frame displaces
\* it": the framebuffer of every acquisition a commit may still scan out is
\* there, through the cap, retirement and a change of generation.  For a
\* producer that submits before every frame; see SceneRing for what an
\* acquisition that repeats a token does to the release of the first.
FramebuffersStand ==
  ~held => \A i \in DOMAIN lent :
    lent[i].import.key \in Cached /\ lent[i].import = ImportOf(lent[i].import.key)

\* The cached framebuffer of a key never stands in for another buffer: a
\* frame newly acquired shows what the producer submitted, although the key
\* may have been retired and renamed in the meantime.
ShowsSubmitted ==
  [][HasPending /\ Len(lent') > Len(lent) => lent'[Len(lent')].import.buffer = wanted]_clientVars

\* A retired import that is neither on screen nor about to be goes once the
\* commits that hold it have retired, rather than when the cap pushes it out.
RetiredGoes ==
  \A key \in Slots :
    (key \in final /\ key \notin {scanningKey, pending.key})
      ~> (key \notin Cached \/ failed \/ retired)

\* "A frame that cannot be taken is skipped" by submit, which says so: one it
\* has taken is never refused at acquire, where it takes the other layers'
\* frame down with it.
AcceptedIsShown == ~failed

=============================================================================
