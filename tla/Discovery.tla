----------------------------- MODULE Discovery ------------------------------
(***************************************************************************)
(* Finding a display (drmkit-display, drmkit-modeset): a connector with    *)
(* something on it, a mode of its, a CRTC that can drive it and the CRTC's *)
(* primary plane, read step by step while displays come and go, and again  *)
(* whenever the hotplug monitor says so.                                   *)
(***************************************************************************)
EXTENDS Integers, SequencesExt

CONSTANTS
  Connectors,   \* the connectors in the kernel's order: [id, kind, encoders]
  ModeLists,    \* the mode lists a sink may advertise: [w, h, refresh, preferred, interlaced]
  Drives,       \* encoder -> the CRTCs it can drive
  CrtcList,     \* the CRTCs in the kernel's order
  PlaneList,    \* the planes in the kernel's order: [id, type, crtcs]
  Ranks,        \* the connector kinds preferred, best first
  Pins,         \* the connectors a caller may insist on, 0 for none
  MaxPlugs      \* bound on the changes of the displays

Modes == [w : Nat, h : Nat, refresh : Nat, preferred : BOOLEAN, interlaced : BOOLEAN]

\* Ids are the kernel's, which gives none of 0, and it drives the CRTCs it lists.
ASSUME DiscoveryAssumption ==
  /\ Connectors \in Seq([id : Nat \ {0}, kind : STRING, encoders : Seq(DOMAIN Drives)])
  /\ \A i, j \in DOMAIN Connectors : Connectors[i].id = Connectors[j].id => i = j
  /\ CrtcList \in Seq(Nat \ {0})
  /\ DOMAIN Drives \subseteq Nat \ {0}
  /\ \A e \in DOMAIN Drives : Drives[e] \subseteq ToSet(CrtcList)
  /\ PlaneList \in Seq([id : Nat \ {0}, type : STRING, crtcs : SUBSET ToSet(CrtcList)])
  /\ Ranks \in Seq(STRING) /\ ModeLists \subseteq Seq(Modes)

VARIABLES
  sinks,    \* connector -> [connected, modes, encoder]; encoder 0 for none
  routes,   \* encoder -> the CRTC it feeds, 0 for none
  uevents,  \* what the monitor has not read
  owed,     \* a hotplug was read and the displays were not looked at since
  finder,   \* the discovery in progress, and the last one's answer
  plugs

discoveryVars == <<sinks, routes, uevents, owed, finder, plugs>>

Ids(list) == {list[i].id : i \in 1..Len(list)}
Connector(id) == CHOOSE c \in ToSet(Connectors) : c.id = id

\* The first of a list that is one of S.
FirstIn(list, S) == list[Min({i \in 1..Len(list) : list[i] \in S})]

Bare0 == [connected |-> FALSE, modes |-> <<>>, encoder |-> 0]

-----------------------------------------------------------------------------
(* mode.rs                                                                 *)

NoMode == [w |-> 0, h |-> 0, refresh |-> 0, preferred |-> FALSE, interlaced |-> FALSE]

Better(mode, best) ==
  \/ mode.w * mode.h > best.w * best.h
  \/ mode.w * mode.h = best.w * best.h /\ mode.refresh > best.refresh

SelectPreferredMode(modes) ==
  LET preferred == {m \in ToSet(modes) : m.preferred}
      best[k \in 0..Len(modes)] ==
        IF k = 0 THEN modes[1]
        ELSE IF Better(modes[k], best[k - 1]) THEN modes[k] ELSE best[k - 1]
  IN IF preferred # {} THEN FirstIn(modes, preferred) ELSE best[Len(modes)]

AbsDiff(a, b) == IF a < b THEN b - a ELSE a - b

Score(mode, target) ==
  LET dw == AbsDiff(mode.w, target.w)  dh == AbsDiff(mode.h, target.h)
  IN dw * dw + dh * dh
     + (IF target.refresh > 0 THEN 100 * AbsDiff(mode.refresh, target.refresh) ELSE 0)

\* The first of the best, NoMode where all are interlaced.
SelectMode(modes, target) ==
  FoldLeft(LAMBDA best, m :
             IF \/ best = NoMode
                \/ Score(m, target) < Score(best, target)
                \/ Score(m, target) = Score(best, target) /\ m.refresh > best.refresh
               THEN m ELSE best,
           NoMode, SelectSeq(modes, LAMBDA m : ~m.interlaced))

-----------------------------------------------------------------------------
(* negotiate.rs, scanout_format.rs: what a producer and the planes of a    *)
(* CRTC can both do.  A modifier is [class, linear, dcc]: what classify    *)
(* says of it, and the two layouts that cannot be fetched transposed.      *)

ClassRank(m) == [compression |-> 0, tiling |-> 1, linear |-> 2][m.class]

RotationCompatible(m, rotation) == rotation \in {90, 270} => ~m.linear /\ ~m.dcc

\* The producer's that the plane takes too, the cheapest to scan out first and
\* otherwise in the producer's order.
Negotiate(producer, plane, rotation) ==
  LET both == SelectSeq(producer, LAMBDA m : RotationCompatible(m, rotation) /\ m \in plane)
      once == FoldLeft(LAMBDA out, m : IF m \in ToSet(out) THEN out ELSE Append(out, m), <<>>, both)
      ranked(k) == SelectSeq(once, LAMBDA m : ClassRank(m) = k)
  IN ranked(0) \o ranked(1) \o ranked(2)

\* candidate_modifiers, of planes [type, crtcs, formats, modifiers].
CandidateModifiers(planes, crtc) ==
  UNION {p.modifiers : p \in {q \in ToSet(planes) : crtc \in q.crtcs /\ q.type # "cursor"}}

\* What the producer may allocate in: linear where nothing is left.
AllowedModifiers(planes, crtc, producer, rotation) ==
  LET agreed == Negotiate(producer, CandidateModifiers(planes, crtc), rotation)
  IN IF agreed = <<>> THEN <<[class |-> "linear", linear |-> TRUE, dcc |-> FALSE]>> ELSE agreed

NoFormat == "none"

\* The first format preferred that the primary takes, else that any plane does.
NegotiateScanoutFormat(planes, crtc, preferred) ==
  LET ours     == {p \in ToSet(planes) : crtc \in p.crtcs}
      primary  == {p \in ours : p.type = "primary"}
      able     == {p \in ours : p.formats \cap ToSet(preferred) # {}}
  IN IF primary # {} /\ FirstIn(planes, primary) \in able
       THEN FirstIn(preferred, FirstIn(planes, primary).formats)
     ELSE IF able # {} THEN FirstIn(preferred, FirstIn(planes, able).formats) ELSE NoFormat

-----------------------------------------------------------------------------
(* scanout.rs                                                              *)

\* rank_pick: the first candidate of the best rank any has, 0 for none.
RankPick(kinds, ranks) ==
  IF ToSet(ranks) \cap ToSet(kinds) = {} THEN 0
  ELSE Min({i \in 1..Len(kinds) : kinds[i] = FirstIn(ranks, ToSet(kinds))})

Eligible(sink) == sink.connected /\ sink.modes # <<>>

\* crtc_for_connector: the CRTC it is on, or the first its encoders can drive,
\* 0 for none.  Where it is on is read from the connector as it was probed and
\* from the encoder as it is.  Encoders that do not answer are passed over.
FirstDrivable(encoders, silent) ==
  LET can == {e \in ToSet(encoders) \ silent : Drives[e] # {}}
  IN IF can = {} THEN 0 ELSE FirstIn(CrtcList, Drives[FirstIn(encoders, can)])

CrtcFor(id, encoder, silent) ==
  IF encoder \notin {0} \cup silent /\ routes[encoder] # 0 THEN routes[encoder]
  ELSE FirstDrivable(Connector(id).encoders, silent)

\* primary_plane_for_crtc, 0 for none.
PrimaryFor(crtc) ==
  LET fits == {p \in ToSet(PlaneList) : p.type = "primary" /\ crtc \in p.crtcs}
  IN IF fits = {} THEN 0 ELSE FirstIn(PlaneList, fits).id

\* mute are the connectors that were asked and did not answer.
Resting == [at |-> "rest", pin |-> 0, left |-> <<>>, seen |-> <<>>, mute |-> {},
            answer |-> "none", connector |-> 0, mode |-> NoMode, crtc |-> 0, plane |-> 0]

BeginDiscovery(pin) ==
  /\ finder.at = "rest" /\ owed
  /\ finder' = [Resting EXCEPT !.at = "connectors", !.pin = pin, !.left = Connectors]
  /\ owed' = FALSE
  /\ UNCHANGED <<sinks, routes, uevents, plugs>>

\* One connector is probed; with one insisted on the others are passed over, and
\* so is one that does not answer.
ProbeConnector(answers) ==
  /\ finder.at = "connectors" /\ finder.left # <<>>
  /\ LET id == Head(finder.left).id
     IN finder' = [finder EXCEPT !.left = Tail(@),
          !.mute = IF answers THEN @ ELSE @ \cup {id},
          !.seen = IF answers /\ finder.pin \in {0, id} /\ Eligible(sinks[id])
                     THEN Append(@, [id |-> id, sink |-> sinks[id]]) ELSE @]
  /\ UNCHANGED <<sinks, routes, uevents, owed, plugs>>

\* Falling back to the first where no rank names one.
Preferred(seen) ==
  LET best == RankPick([i \in 1..Len(seen) |-> Connector(seen[i].id).kind], Ranks)
  IN seen[IF best = 0 THEN 1 ELSE best]

\* The choice, and the routing of it.
AnswerDiscovery(silent) ==
  /\ finder.at = "connectors" /\ finder.left = <<>>
  /\ IF finder.seen = <<>>
       THEN finder' = [Resting EXCEPT !.pin = finder.pin, !.mute = finder.mute,
              !.answer = IF finder.pin = 0 THEN "NothingConnected" ELSE "ConnectorUnavailable"]
     ELSE LET chosen == Preferred(finder.seen)
              crtc == CrtcFor(chosen.id, chosen.sink.encoder, silent)
              plane == PrimaryFor(crtc)
          IN finder' = [Resting EXCEPT !.pin = finder.pin, !.mute = finder.mute,
               !.connector = chosen.id,
               !.mode = SelectPreferredMode(chosen.sink.modes), !.crtc = crtc, !.plane = plane,
               !.answer = IF crtc = 0 THEN "NoCrtc" ELSE IF plane = 0 THEN "NoPrimaryPlane"
                          ELSE "target"]
  /\ UNCHANGED <<sinks, routes, uevents, owed, plugs>>

-----------------------------------------------------------------------------
(* The displays, and hotplug.rs                                            *)

\* A display comes, goes, or fails to say what it is.
PlugDisplay(id, connected, modes) ==
  /\ plugs < MaxPlugs /\ plugs' = plugs + 1
  /\ ~connected => modes = <<>>
  /\ sinks' = [sinks EXCEPT ![id].connected = connected, ![id].modes = modes]
  /\ uevents' = Append(uevents, [type |-> "change", hotplug |-> "1"])
  /\ UNCHANGED <<routes, owed, finder>>

\* Another client routes an encoder, of which nobody is told.
OtherRoutes(id, encoder, crtc) ==
  /\ plugs < MaxPlugs /\ plugs' = plugs + 1
  /\ crtc \in Drives[encoder]
  /\ sinks' = [sinks EXCEPT ![id].encoder = encoder]
  /\ routes' = [e \in DOMAIN Drives |-> IF e = encoder THEN crtc
                                        ELSE IF routes[e] = crtc THEN 0 ELSE routes[e]]
  /\ UNCHANGED <<uevents, owed, finder>>

\* Something else of the subsystem's is heard of.
OtherUevent(type) ==
  /\ plugs < MaxPlugs /\ plugs' = plugs + 1
  /\ uevents' = Append(uevents, [type |-> type, hotplug |-> "none"])
  /\ UNCHANGED <<sinks, routes, owed, finder>>

\* A display is heard of as it comes.
IsAdd(event) == event.type = "add"
IsHotplug(event) == event.type = "change" /\ event.hotplug = "1"

\* dispatch drains the socket, hotplug or not.
DispatchHotplug ==
  /\ finder.at = "rest" /\ uevents # <<>>
  /\ owed' = (owed \/ \E i \in 1..Len(uevents) : IsHotplug(uevents[i]))
  /\ uevents' = <<>>
  /\ UNCHANGED <<sinks, routes, finder, plugs>>

\* The caller opens the monitor, then looks.
DiscoveryInit ==
  /\ sinks = [id \in Ids(Connectors) |-> Bare0] /\ routes = [e \in DOMAIN Drives |-> 0]
  /\ uevents = <<>> /\ owed = TRUE /\ finder = Resting /\ plugs = 0

DiscoveryNext ==
  \/ \E pin \in Pins : BeginDiscovery(pin)
  \/ \E answers \in BOOLEAN : ProbeConnector(answers)
  \/ \E silent \in SUBSET DOMAIN Drives : AnswerDiscovery(silent)
  \/ \E id \in Ids(Connectors), connected \in BOOLEAN, modes \in ModeLists :
       PlugDisplay(id, connected, modes)
  \/ \E id \in Ids(Connectors) : \E encoder \in ToSet(Connector(id).encoders) :
       \E crtc \in ToSet(CrtcList) : OtherRoutes(id, encoder, crtc)
  \/ \E type \in {"add", "change"} : OtherUevent(type)
  \/ DispatchHotplug

-----------------------------------------------------------------------------
(* Properties.                                                             *)

Candidate(id) == id \notin finder.mute /\ finder.pin \in {0, id} /\ Eligible(sinks[id])

RankOf(id) ==
  IF Connector(id).kind \in ToSet(Ranks)
    THEN Min({r \in 1..Len(Ranks) : Ranks[r] = Connector(id).kind}) ELSE Len(Ranks) + 1

Place(id) == CHOOSE i \in 1..Len(Connectors) : Connectors[i].id = id

\* With every uevent read and nothing owed for them, the answer is about the
\* displays as they are: of the connectors that answered the best that has one, a
\* mode it has, on a CRTC one of its encoders can drive, whichever of them
\* answered, with a primary plane of that CRTC; that there is none is said only
\* when it is so.  A display that came or went while the connectors were probed
\* is heard of afterwards.
TargetCurrent ==
  finder.at = "rest" /\ finder.answer # "none" /\ uevents = <<>> /\ ~owed =>
    CASE finder.answer \in {"NothingConnected", "ConnectorUnavailable"} ->
           \A id \in Ids(Connectors) : ~Candidate(id)
      [] finder.answer = "target" ->
           LET id == finder.connector IN
           /\ Candidate(id)
           /\ \A other \in Ids(Connectors) \ {id} : Candidate(other) =>
                \/ RankOf(id) < RankOf(other)
                \/ RankOf(id) = RankOf(other) /\ Place(id) < Place(other)
           /\ finder.mode \in ToSet(sinks[id].modes)
           /\ \E e \in ToSet(Connector(id).encoders) : finder.crtc \in Drives[e]
           /\ \E p \in ToSet(PlaneList) :
                p.id = finder.plane /\ p.type = "primary" /\ finder.crtc \in p.crtcs
      [] OTHER -> Candidate(finder.connector)

=============================================================================
