---------------------------- MODULE StickyPlanes ----------------------------
(***************************************************************************)
(* The plane properties that outlive their client: the YCbCr matrix and    *)
(* range, the driver's private scaler and tables, alpha.  Whoever held the *)
(* device before left them as it liked, and a frame writes only what it    *)
(* believes the kernel does not have.  Two records decide that: what the   *)
(* plane's last commit carried for the layer (the baseline), and what      *)
(* colours the plane was last given.                                       *)
(***************************************************************************)
EXTENDS Integers, FiniteSets

CONSTANTS
  StickyDevice,     \* plane -> [encodings, ranges, private, alphaMax]
  StickyLayers,     \* the layers
  Interpretations,  \* what a layer asks: records [encoding, range]
  Opacities,        \* and its alpha, 16 bits or Unset
  MaxAsks,          \* bound: changes a caller makes
  MaxClients        \* bound: other clients that hold the device meanwhile

VARIABLES
  stuck,         \* the kernel's plane -> [encoding, range, private, alpha]
  asks,          \* layer -> [color, alpha]
  colorNoted,    \* color_committed: plane -> [encoding, range]
  fullAlpha,     \* the baseline: plane -> [layer, alpha]
  stickyUnknown, \* planes_unknown
  stickyFrame,   \* the frame built, or NoStickyFrame
  lastCarried,       \* plane -> the entry of its last accepted frame
  othersOwn,     \* planes another client has set since a restating frame did
  askEdits, clients

stickyVars == <<stuck, asks, colorNoted, fullAlpha, stickyUnknown, stickyFrame,
                lastCarried, othersOwn, askEdits, clients>>

StickyPlaneIds == DOMAIN StickyDevice

Unset         == -1
Unwritten     == "unwritten"
NoColors      == [encoding |-> Unwritten, range |-> Unwritten]
TheCanvas     == "canvas"
NoStickyFrame == [plan |-> <<>>]
NotCarried    == [layer |-> "none", color |-> NoColors, alpha |-> Unset]

FullAlpha == 65535

-----------------------------------------------------------------------------
(* What a plane is given.                                                  *)

\* The matrix asked for, else BT.709, else BT.601.
EncodingValue(entries, want) ==
  IF want \in entries THEN want
  ELSE IF "bt709" \in entries THEN "bt709"
  ELSE IF "bt601" \in entries THEN "bt601" ELSE Unwritten

\* The range asked for, else limited, else full.
RangeValue(entries, want) ==
  IF want \in entries THEN want
  ELSE IF "limited" \in entries THEN "limited"
  ELSE IF "full" \in entries THEN "full" ELSE Unwritten

ResolveColor(p, want) ==
  [encoding |-> EncodingValue(StickyDevice[p].encodings, want.encoding),
   range |-> RangeValue(StickyDevice[p].ranges, want.range)]

HasColorProps(p) == StickyDevice[p].encodings # {} \/ StickyDevice[p].ranges # {}

\* To the nearest of the plane's own steps.
RescaleAlpha(value, max) ==
  LET clamped == IF value < FullAlpha THEN value ELSE FullAlpha
  IN IF max >= FullAlpha THEN clamped
     ELSE (clamped * max + FullAlpha \div 2) \div FullAlpha

EmitColor(p, entry, part, restate) ==
  LET now    == ResolveColor(p, entry.color)[part]
      before == IF restate THEN Unwritten ELSE colorNoted[p][part]
  IN IF entry.layer = TheCanvas \/ now \in {Unwritten, before} THEN stuck[p][part] ELSE now

\* A plane with no baseline is written in full, its private state zeroed.
EmitSticky(p, entry, restate) ==
  LET inFull == entry.base = NotCarried
  IN [encoding |-> EmitColor(p, entry, "encoding", restate),
      range    |-> EmitColor(p, entry, "range", restate),
      private  |-> IF inFull /\ StickyDevice[p].private THEN 0 ELSE stuck[p].private,
      alpha    |-> IF entry.alpha = Unset \/ (~inFull /\ entry.alpha = entry.base.alpha)
                     THEN stuck[p].alpha
                   ELSE RescaleAlpha(entry.alpha, StickyDevice[p].alphaMax)]

-----------------------------------------------------------------------------
(* Frames.                                                                 *)

AskColor(l, want) ==
  /\ askEdits < MaxAsks /\ asks[l].color # want
  /\ asks' = [asks EXCEPT ![l].color = want]
  /\ askEdits' = askEdits + 1
  /\ UNCHANGED <<stuck, colorNoted, fullAlpha, stickyUnknown, stickyFrame, lastCarried,
                 othersOwn, clients>>

AskAlpha(l, alpha) ==
  /\ askEdits < MaxAsks /\ asks[l].alpha # alpha
  /\ asks' = [asks EXCEPT ![l].alpha = alpha]
  /\ askEdits' = askEdits + 1
  /\ UNCHANGED <<stuck, colorNoted, fullAlpha, stickyUnknown, stickyFrame, lastCarried,
                 othersOwn, clients>>

Plans ==
  UNION {{f \in [planes -> StickyLayers \cup {TheCanvas}] :
            \A p, q \in planes : p # q => f[p] # f[q]} :
         planes \in SUBSET StickyPlaneIds \ {{}}}

PlanEntry(p, l) ==
  IF l = TheCanvas
    THEN [layer |-> l, color |-> NoColors, alpha |-> FullAlpha, base |-> NotCarried]
    ELSE [layer |-> l, color |-> asks[l].color, alpha |-> asks[l].alpha,
          base |-> IF fullAlpha[p].layer = l THEN fullAlpha[p] ELSE NotCarried]

BuildSticky(placed, real) ==
  /\ stickyFrame = NoStickyFrame
  /\ stickyFrame' = [plan |-> [p \in DOMAIN placed |-> PlanEntry(p, placed[p])],
                     real |-> real, restates |-> stickyUnknown]
  /\ UNCHANGED <<stuck, asks, colorNoted, fullAlpha, stickyUnknown, lastCarried, othersOwn,
                 askEdits, clients>>

\* A test and a refused commit apply nothing, and nothing is noted of them.
StickyRefused ==
  /\ stickyFrame # NoStickyFrame
  /\ stickyFrame' = NoStickyFrame
  /\ UNCHANGED <<stuck, asks, colorNoted, fullAlpha, stickyUnknown, lastCarried, othersOwn,
                 askEdits, clients>>

\* note_color_committed, of each entry that asks for something.
NoteColors(plan) ==
  colorNoted' = [p \in StickyPlaneIds |->
    IF p \in DOMAIN plan /\ plan[p].layer # TheCanvas /\ HasColorProps(p)
      THEN ResolveColor(p, plan[p].color) ELSE colorNoted[p]]

StickyTaken ==
  LET plan   == stickyFrame.plan
      layers == {p \in DOMAIN plan : plan[p].layer # TheCanvas}
  IN /\ stickyFrame # NoStickyFrame /\ stickyFrame.real
     /\ stuck' = [p \in StickyPlaneIds |->
                    IF p \in DOMAIN plan THEN EmitSticky(p, plan[p], stickyFrame.restates)
                    ELSE stuck[p]]
     /\ NoteColors(plan)
     /\ fullAlpha' = [p \in StickyPlaneIds |->
                        IF p \in layers
                          THEN [layer |-> plan[p].layer, color |-> NoColors,
                                alpha |-> plan[p].alpha]
                        ELSE NotCarried]
     /\ lastCarried' = [p \in StickyPlaneIds |->
                      IF p \in layers THEN [plan[p] EXCEPT !.base = NotCarried]
                      ELSE NotCarried]
     /\ othersOwn' = IF stickyFrame.restates THEN othersOwn \ layers ELSE othersOwn
     /\ stickyUnknown' = FALSE
     /\ stickyFrame' = NoStickyFrame
     /\ UNCHANGED <<asks, askEdits, clients>>

\* Another client has the device for a while and sets the planes as it likes;
\* then on_session_resumed, which forgets the output but not the colours.
AnotherClient(left) ==
  /\ clients < MaxClients /\ stickyFrame = NoStickyFrame
  /\ clients' = clients + 1
  /\ stuck' = [p \in StickyPlaneIds |-> left]
  /\ fullAlpha' = [p \in StickyPlaneIds |-> NotCarried]
  /\ lastCarried' = [p \in StickyPlaneIds |-> NotCarried]
  /\ stickyUnknown' = TRUE
  /\ othersOwn' = StickyPlaneIds
  /\ UNCHANGED <<asks, colorNoted, stickyFrame, askEdits>>

LeftBehind ==
  {[encoding |-> e, range |-> "full", private |-> 7, alpha |-> 1] : e \in {"bt601", "bt2020"}}

StickyInit ==
  /\ stuck \in {[p \in StickyPlaneIds |-> left] : left \in LeftBehind}
  /\ asks = [l \in StickyLayers |-> [color |-> CHOOSE i \in Interpretations : TRUE,
                                     alpha |-> Unset]]
  /\ colorNoted = [p \in StickyPlaneIds |-> NoColors]
  /\ fullAlpha = [p \in StickyPlaneIds |-> NotCarried]
  /\ lastCarried = [p \in StickyPlaneIds |-> NotCarried]
  /\ stickyUnknown = TRUE /\ stickyFrame = NoStickyFrame /\ othersOwn = {}
  /\ askEdits = 0 /\ clients = 0

StickyNext ==
  \/ \E l \in StickyLayers, want \in Interpretations : AskColor(l, want)
  \/ \E l \in StickyLayers, alpha \in Opacities : AskAlpha(l, alpha)
  \/ \E placed \in Plans, real \in BOOLEAN : BuildSticky(placed, real)
  \/ StickyRefused
  \/ StickyTaken
  \/ \E left \in LeftBehind : AnotherClient(left)

\* "These properties are sticky across clients, so they have to be written to
\* displace whatever the previous compositor left": a plane that shows a layer
\* decodes it with the matrix and the range the layer asked for, or the nearest
\* the plane has, fades it as asked, and carries nobody's private setup.  Not
\* so for the colours of a plane that the first frame after a switch left out.
StickyAsAsked ==
  \A p \in StickyPlaneIds :
    LET entry == lastCarried[p]
        want  == ResolveColor(p, entry.color)
    IN entry.layer # "none" =>
         /\ p \notin othersOwn =>
              /\ want.encoding \in {Unwritten, stuck[p].encoding}
              /\ want.range \in {Unwritten, stuck[p].range}
         /\ entry.alpha # Unset =>
              stuck[p].alpha = RescaleAlpha(entry.alpha, StickyDevice[p].alphaMax)
         /\ StickyDevice[p].private => stuck[p].private = 0

=============================================================================
