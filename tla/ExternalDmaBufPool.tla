------------------------- MODULE ExternalDmaBufPool -------------------------
(***************************************************************************)
(* The pool over a producer's DMA-BUFs, imported the first time their key  *)
(* is submitted: RingPresenter decides what is shown, the pool which       *)
(* imports stay.  An import goes when the cap pushes it out, when its key  *)
(* is retired or its generation is over, and nothing refers to it.         *)
(*                                                                         *)
(* The source is exclusively borrowed by the scene's calls, so each method *)
(* is one step.  last_used only orders the imports: they are kept in that  *)
(* order instead.  A submit whose import the device refuses changes        *)
(* nothing and is left out.                                                *)
(***************************************************************************)
EXTENDS RingPresenter

CONSTANTS
  Buffers,   \* the DMA-BUFs a key may come to name
  NoBuffer,  \* None
  MaxPool    \* max_pool

ASSUME PoolAssumption ==
  /\ NoBuffer \notin Buffers
  /\ MaxPool \in Nat \ {0}

VARIABLES
  cached,    \* the keys with an import, least recently submitted first
  buffer,    \* key -> what its import was made of, or NoBuffer
  retiring,  \* keys whose import goes once unreferenced
  final,     \* those retired for good: stale, in the code
  acquired   \* the import the last successful acquire handed out

poolVars == <<presenterVars, cached, buffer, retiring, final, acquired>>

Cached == {cached[i] : i \in DOMAIN cached}

\* The framebuffer behind a key.
ImportOf(key) == [key |-> key, buffer |-> buffer[key]]
NoImport == [key |-> NoSlot, buffer |-> NoBuffer]

\* RingPresenter::is_referenced.
IsReferenced(key) == scanningKey = key \/ \E o \in outstanding : o.key = key

\* Of an order, the keys of kept.
KeptOf(order, kept) ==
  LET upTo[i \in 0..Len(order)] ==
        IF i = 0 THEN <<>>
        ELSE IF order[i] \in kept THEN Append(upTo[i - 1], order[i]) ELSE upTo[i - 1]
  IN upTo[Len(order)]

\* Of the imports in this order, those of kept stay.
Keeping(order, imports, kept) ==
  /\ cached' = KeptOf(order, kept)
  /\ buffer' = [key \in Slots |-> IF key \in kept THEN imports[key] ELSE NoBuffer]
  /\ final' = final \cap kept

\* enforce_cap: the oldest imports beyond the cap go, and those some commit
\* may still refer to are marked to go later.
Excess(order) == {order[i] : i \in 1 .. Len(order) - MaxPool}
Evicted(order) == {key \in Excess(order) : ~IsReferenced(key)}
Marked(order) == {key \in Excess(order) : IsReferenced(key)}

\* submit of a key that is not final: it is imported unless it is already,
\* and wanted again whatever was decided about it earlier.
PoolSubmit(key, buf) ==
  /\ key \notin final
  /\ LET order == Append(KeptOf(cached, Cached \ {key}), key)
         kept == (Cached \cup {key}) \ Evicted(order)
     IN /\ Keeping(order, IF key \in Cached THEN buffer ELSE [buffer EXCEPT ![key] = buf], kept)
        /\ retiring' = ((retiring \ {key}) \cap kept) \cup Marked(order)
  /\ Submit(key, FALSE, Whole)
  /\ UNCHANGED acquired

\* retire: the import is final.  An unknown key is a no-op.
MarksRetiringNever(key) == UNCHANGED retiring
MarksRetiring(key) == retiring' = retiring \cup ({key} \cap Cached)
MarksFinalNever(key) == UNCHANGED final
MarksFinal(key) == final' = final \cup ({key} \cap Cached)

PoolRetire(key) ==
  /\ MarksRetiring(key)
  /\ MarksFinal(key)
  /\ UNCHANGED <<presenterVars, cached, buffer, acquired>>

\* reset_generation: every import goes, unless its key is submitted again.
PoolResetGeneration ==
  /\ retiring' = Cached
  /\ UNCHANGED <<presenterVars, cached, buffer, final, acquired>>

\* sweep, at the end of an acquire or of a release that hands a key back:
\* what is retiring and not referenced any more.
SweptAnyway == retiring
Swept == {key \in retiring : ~IsReferenced(key)'}

Sweep ==
  /\ Keeping(cached, buffer, Cached \ Swept)
  /\ retiring' = retiring \ Swept

\* acquire answers with the framebuffer of scanningKey'.
PoolAcquires ==
  /\ \/ AcquireFresh /\ pending.key \in Cached
     \/ AcquireIdle /\ scanningKey \in Cached
  /\ acquired' = ImportOf(scanningKey')
  /\ Sweep

\* acquire answers Failed(INVAL): the presenter has moved on to a key whose
\* import is gone.
PoolFails ==
  /\ AcquireFresh /\ pending.key \notin Cached
  /\ Sweep
  /\ UNCHANGED acquired

\* acquire answers WouldBlock.
PoolStarves ==
  /\ AcquireIdle /\ scanningKey \notin Cached
  /\ Sweep
  /\ UNCHANGED acquired

PoolReleases(token) ==
  /\ Release({token})
  /\ IF Fired({token}) # {} THEN Sweep ELSE UNCHANGED <<cached, buffer, retiring, final>>
  /\ UNCHANGED acquired

PoolRetired == RetireScanning /\ UNCHANGED <<cached, buffer, retiring, final, acquired>>

\* on_session_paused: every import belongs to the revoked descriptor.
PoolPaused ==
  /\ Reset
  /\ cached' = <<>> /\ retiring' = {} /\ final' = {}
  /\ buffer' = [key \in Slots |-> NoBuffer]
  /\ acquired' = NoImport

PoolInit ==
  /\ PresenterInit
  /\ cached = <<>> /\ retiring = {} /\ final = {}
  /\ buffer = [key \in Slots |-> NoBuffer]
  /\ acquired = NoImport

=============================================================================
