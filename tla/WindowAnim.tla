----------------------------- MODULE WindowAnim -----------------------------
(***************************************************************************)
(* The transitions of a window's decoration (drmkit-csd): focus and hover  *)
(* on two tracks of their own, and the shadow patches a renderer keeps to  *)
(* draw them.  Progress is in steps of 1/8.                                *)
(***************************************************************************)
EXTENDS Integers, SequencesExt

CONSTANTS
  Buttons,         \* the window's buttons
  Duration,        \* ticks of a transition; the theme has animations
  ShadowCapacity,  \* the patches a cache keeps
  MaxRetargets     \* bound on the aims a caller changes

ASSUME AnimAssumption == Duration \in Nat \ {0} /\ ShadowCapacity \in Nat \ {0}

VARIABLES
  aims,       \* [focus, hover]: focus_target and hover_target
  tracks,     \* [focus, hover]
  painted,    \* hover_painted
  patches,    \* ShadowCache::order, oldest first, and so its entries
  drawn,      \* what the renderer last drew, or Undrawn
  unchanged,  \* ticks since the caller last changed its mind, of each track
  retargets

animVars == <<aims, tracks, painted, patches, drawn, unchanged, retargets>>

Full    == 8
NoHover == "none"
Undrawn == [shadow |-> "none", hover |-> NoHover]

Settled(at) == [start |-> at, progress |-> at, elapsed |-> 0, running |-> FALSE]

RunsFrom(at, track) == [track EXCEPT !.start = at, !.elapsed = 0, !.running = TRUE]

\* Ease-out cubic, of t = elapsed / Duration.
Eased(elapsed) ==
  LET inverse == Duration - elapsed
  IN Full - (Full * inverse * inverse * inverse) \div (Duration * Duration * Duration)

\* Track::advance
Advance(track, dt, target) ==
  LET elapsed == IF track.elapsed + dt < Duration THEN track.elapsed + dt ELSE Duration
      moved == track.start + ((target - track.start) * Eased(elapsed)) \div Full
  IN IF ~track.running THEN track
     ELSE IF elapsed = Duration
       THEN [track EXCEPT !.elapsed = elapsed, !.progress = target, !.running = FALSE]
     ELSE [track EXCEPT !.elapsed = elapsed, !.progress = moved]

FocusTarget(focused) == IF focused THEN Full ELSE 0

\* The track runs to full only while the painted button is aimed at.
HoverTarget(hover, shows) == IF hover # NoHover /\ hover = shows THEN Full ELSE 0

Animating == tracks.focus.running \/ tracks.hover.running

-----------------------------------------------------------------------------

\* Aiming where it aims already restarts nothing.
FocusStarts(focused) == aims.focus # focused

RetargetFocus(focused) ==
  /\ aims' = [aims EXCEPT !.focus = focused]
  /\ tracks' = IF FocusStarts(focused)
                 THEN [tracks EXCEPT !.focus = RunsFrom(tracks.focus.progress, tracks.focus)]
               ELSE tracks
  /\ retargets' = IF aims.focus # focused THEN retargets + 1 ELSE retargets
  /\ unchanged' = IF aims.focus # focused THEN [unchanged EXCEPT !.focus = 0] ELSE unchanged
  /\ UNCHANGED <<painted, patches, drawn>>

\* A button left goes on being painted while it fades; one newly under the
\* pointer starts dark.
RetargetHover(hover) ==
  /\ hover # aims.hover
  /\ aims' = [aims EXCEPT !.hover = hover]
  /\ IF hover = NoHover
       THEN /\ tracks' = [tracks EXCEPT !.hover = RunsFrom(tracks.hover.progress, tracks.hover)]
            /\ UNCHANGED painted
       ELSE /\ tracks' = [tracks EXCEPT !.hover = RunsFrom(0, [tracks.hover EXCEPT !.progress = 0])]
            /\ painted' = hover
  /\ retargets' = retargets + 1
  /\ unchanged' = [unchanged EXCEPT !.hover = 0]
  /\ UNCHANGED <<patches, drawn>>

\* snap, and a tick of a theme without animations.
Snap ==
  /\ tracks' = [focus |-> Settled(FocusTarget(aims.focus)),
                hover |-> Settled(IF aims.hover = NoHover THEN 0 ELSE Full)]
  /\ painted' = aims.hover
  /\ UNCHANGED <<aims, patches, drawn, unchanged, retargets>>

AnimTick(dt) ==
  LET target == HoverTarget(aims.hover, painted)
      focus  == Advance(tracks.focus, dt, FocusTarget(aims.focus))
      hover  == Advance(tracks.hover, dt, target)
      counts(n) == IF n + dt < Duration THEN n + dt ELSE Duration
  IN /\ tracks' = [focus |-> focus, hover |-> hover]
     /\ painted' = IF tracks.hover.running /\ ~hover.running /\ target = 0 THEN NoHover
                   ELSE painted
     /\ unchanged' = [focus |-> counts(unchanged.focus), hover |-> counts(unchanged.hover)]
     /\ UNCHANGED <<aims, patches, drawn, retargets>>

-----------------------------------------------------------------------------
(* The renderer and its cache.                                             *)

\* ensure: a hit is a use too, a miss makes room first.  A key is there once.
PlaceOf(order, key) == CHOOSE i \in 1..Len(order) : order[i] = key

Ensure(order, key) ==
  IF Contains(order, key) THEN Append(RemoveAt(order, PlaceOf(order, key)), key)
  ELSE Append(IF Len(order) < ShadowCapacity THEN order
              ELSE SubSeq(order, Len(order) - ShadowCapacity + 2, Len(order)), key)

Focused(shape) == <<"focused", shape>>
Blurred(shape) == <<"blurred", shape>>

\* draw_shadow: a patch, or a mix of two that must both be there.
DrawShadow(order, shape, focus) ==
  CASE focus = 0 -> [order |-> Ensure(order, Blurred(shape)), drawn |-> "blurred"]
    [] focus = Full -> [order |-> Ensure(order, Focused(shape)), drawn |-> "focused"]
    [] OTHER ->
         LET both == Ensure(Ensure(order, Blurred(shape)), Focused(shape))
         IN [order |-> both,
             drawn |-> IF {Blurred(shape), Focused(shape)} \subseteq ToSet(both) THEN "mixed"
                       ELSE "none"]

\* apply_to and draw, at one of the window's sizes.
DrawDecoration(shape) ==
  LET cast == DrawShadow(patches, shape, tracks.focus.progress)
  IN /\ patches' = cast.order
     /\ drawn' = [shadow |-> cast.drawn, hover |-> painted]
     /\ UNCHANGED <<aims, tracks, painted, unchanged, retargets>>

AnimInit ==
  \E focused \in BOOLEAN :
    /\ aims = [focus |-> focused, hover |-> NoHover]
    /\ tracks = [focus |-> Settled(FocusTarget(focused)), hover |-> Settled(0)]
    /\ painted = NoHover /\ patches = <<>> /\ drawn = Undrawn
    /\ unchanged = [focus |-> Duration, hover |-> Duration] /\ retargets = 0

AnimNext ==
  \/ \E focused \in BOOLEAN :
       /\ aims.focus # focused => retargets < MaxRetargets
       /\ RetargetFocus(focused)
  \/ \E hover \in Buttons \cup {NoHover} : retargets < MaxRetargets /\ RetargetHover(hover)
  \/ Snap
  \/ \E dt \in 1..(Duration + 1) : AnimTick(dt)
  \/ \E shape \in 1..2 : DrawDecoration(shape)

-----------------------------------------------------------------------------
(* Properties.                                                             *)

ArrivedAt(which, at) == tracks[which].progress = at /\ ~tracks[which].running

\* A transition the caller has not changed for its duration is over, however
\* often the caller reported what it had said already, and a window nothing
\* animates is drawn as it is: focused or not, the button under the pointer
\* lit and no other.  A caller told that nothing animates would never draw
\* again.
AnimationsArrive ==
  /\ unchanged.focus = Duration => ArrivedAt("focus", FocusTarget(aims.focus))
  /\ unchanged.hover = Duration => ~tracks.hover.running
  /\ ~Animating => /\ ArrivedAt("focus", FocusTarget(aims.focus))
                   /\ ArrivedAt("hover", IF aims.hover = NoHover THEN 0 ELSE Full)
                   /\ painted = aims.hover
  /\ painted = NoHover => tracks.hover.progress = 0
  /\ ShadowCapacity >= 2 /\ drawn # Undrawn => drawn.shadow # "none"

=============================================================================
