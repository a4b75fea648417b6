-------------------------------- MODULE Keys --------------------------------
(***************************************************************************)
(* The keyboards of a seat (drmkit-input): libinput's events read by Seat, *)
(* folded by their caller into a Keyboard and a KeyRepeater with its       *)
(* timer, across pauses and keyboards that come and go.                    *)
(***************************************************************************)
EXTENDS Integers, SequencesExt

CONSTANTS
  Letters,    \* keys the keymap repeats
  CapsLock,   \* the lock key, which it does not
  Keyboards,  \* the keyboards that may be plugged in
  Typed,      \* the one whose keys are pressed
  MaxBurst,   \* MAX_BURST
  MaxTold     \* bound on the events that wait to be read

ASSUME KeysAssumption ==
  CapsLock \notin Letters /\ Typed \in Keyboards /\ IsFiniteSet(Keyboards)

VARIABLES
  pressed,    \* the keys that fingers hold down
  plugged,    \* the keyboards that are plugged in
  felt,       \* the keys libinput holds as down
  told,       \* what libinput has to say
  suspended,
  keyboards,  \* Seat.keyboards
  leds,       \* Seat.leds: "on", "off", or "none" pushed yet
  lit,        \* the keyboards whose caps light is on
  handed,     \* the key events the caller has read and not handled
  held,       \* Keyboard.held
  xkbDown,    \* the keys xkb's state has down
  locked,     \* whether xkb has Caps Lock latched
  unlocks,    \* whether the release of the lock key will unlatch it
  repeating,  \* Repeat.held, "none" for None
  armed,      \* the repeat timer runs
  expired,    \* its expirations that were not read
  repeated    \* the key the last step repeated, "none" if it did not

deviceVars == <<pressed, plugged, felt, told, suspended, keyboards, leds, lit>>
xkbVars == <<held, xkbDown, locked, unlocks>>
repeatVars == <<repeating, armed, expired>>
keysVars == <<deviceVars, handed, xkbVars, repeatVars, repeated>>

Key == Letters \cup {CapsLock}
Pressing(key) == [kind |-> "press", key |-> key]
Releasing(key) == [kind |-> "release", key |-> key]
Added(k) == [kind |-> "added", keyboard |-> k]
Removed(k) == [kind |-> "removed", keyboard |-> k]

-----------------------------------------------------------------------------
(* xkb's state, of which only the lock is told apart: a press latches it,  *)
(* and a release unlatches what was latched before the press.  Down and Up *)
(* take and give [down, locked, unlocks].                                  *)

Xkb == [down |-> xkbDown, locked |-> locked, unlocks |-> unlocks]

Down(x, key) ==
  IF key # CapsLock \/ key \in x.down THEN [x EXCEPT !.down = @ \cup {key}]
  ELSE [down |-> x.down \cup {key}, locked |-> TRUE, unlocks |-> x.locked]

Up(x, key) ==
  IF key # CapsLock \/ key \notin x.down THEN [x EXCEPT !.down = @ \ {key}]
  ELSE [x EXCEPT !.down = @ \ {key}, !.locked = @ /\ ~x.unlocks]

\* set_leds: the lock key is tapped when its light is on the wrong side.
SetLeds(x, desired) == IF x.locked = desired THEN x ELSE Up(Down(x, CapsLock), CapsLock)

Becomes(x) == xkbDown' = x.down /\ locked' = x.locked /\ unlocks' = x.unlocks

\* The keymap's answer.
ShouldRepeat(key) == key \in Letters

\* The caller pushes the lights when a step changed the lock.
PushLeds(x) ==
  IF x.locked = locked THEN UNCHANGED <<leds, lit>>
  ELSE /\ leds' = IF x.locked THEN "on" ELSE "off"
       /\ lit' = IF x.locked THEN lit \cup (keyboards \cap plugged) ELSE lit \ keyboards

-----------------------------------------------------------------------------
(* Repeat and its timer.                                                   *)

Arm(key) == repeating' = key /\ armed' = TRUE /\ expired' = 0
Disarm == repeating' = "none" /\ armed' = FALSE /\ expired' = 0

\* on_key
RepeaterOnKey(event) ==
  IF event.kind = "press" /\ ShouldRepeat(event.key) THEN Arm(event.key)
  ELSE IF event.kind = "release" /\ repeating = event.key THEN Disarm
  ELSE UNCHANGED repeatVars

\* A cancel that lets the key repeat.
CancelNothing == UNCHANGED repeatVars

\* cancel
Cancel == Disarm

\* The kernel's timer.
TimerExpires ==
  /\ armed /\ expired <= MaxBurst
  /\ expired' = expired + 1
  /\ repeated' = "none"
  /\ UNCHANGED <<deviceVars, handed, xkbVars, repeating, armed>>

\* dispatch and synthesize: at most a burst, and nothing for no key.
RepeaterDispatch ==
  /\ expired > 0
  /\ expired' = 0
  /\ repeated' = repeating
  /\ UNCHANGED <<deviceVars, handed, xkbVars, repeating, armed>>

-----------------------------------------------------------------------------
(* The fingers and libinput, which are external.                           *)

PressKey(key) ==
  /\ key \notin pressed /\ Len(told) < MaxTold
  /\ pressed' = pressed \cup {key}
  /\ IF suspended THEN UNCHANGED <<felt, told>>
     ELSE felt' = felt \cup {key} /\ told' = Append(told, Pressing(key))
  /\ repeated' = "none"
  /\ UNCHANGED <<plugged, suspended, keyboards, leds, lit, handed, xkbVars, repeatVars>>

\* A release is told of a key whose press was.
ReleaseKey(key) ==
  /\ key \in pressed /\ Len(told) < MaxTold
  /\ pressed' = pressed \ {key}
  /\ IF key \in felt
       THEN felt' = felt \ {key} /\ told' = Append(told, Releasing(key))
       ELSE UNCHANGED <<felt, told>>
  /\ repeated' = "none"
  /\ UNCHANGED <<plugged, suspended, keyboards, leds, lit, handed, xkbVars, repeatVars>>

\* A keyboard is plugged in dark, or unplugged.
Plug(k) ==
  /\ k # Typed /\ Len(told) < MaxTold
  /\ plugged' = IF k \in plugged THEN plugged \ {k} ELSE plugged \cup {k}
  /\ lit' = lit \ {k}
  /\ told' = IF suspended THEN told
               ELSE Append(told, IF k \in plugged THEN Removed(k) ELSE Added(k))
  /\ repeated' = "none"
  /\ UNCHANGED <<pressed, felt, suspended, keyboards, leds, handed, xkbVars, repeatVars>>

-----------------------------------------------------------------------------
(* Seat.                                                                   *)

\* on_device, over [keyboards, lit, keys]; the keys are the caller's.
OnEvent(s, event) ==
  CASE event.kind = "added" ->
         [s EXCEPT !.keyboards = @ \cup {event.keyboard},
                   !.lit = CASE leds = "on" -> @ \cup ({event.keyboard} \cap plugged)
                             [] leds = "off" -> @ \ {event.keyboard}
                             [] OTHER -> @]
    [] event.kind = "removed" -> [s EXCEPT !.keyboards = @ \ {event.keyboard}]
    [] OTHER -> [s EXCEPT !.keys = Append(@, event)]

Dispatched ==
  LET s[n \in 0..Len(told)] ==
        IF n = 0 THEN [keyboards |-> keyboards, lit |-> lit, keys |-> <<>>]
        ELSE OnEvent(s[n - 1], told[n])
  IN s[Len(told)]

\* dispatch
SeatDispatch ==
  /\ told # <<>> /\ handed = <<>>
  /\ keyboards' = Dispatched.keyboards /\ lit' = Dispatched.lit /\ handed' = Dispatched.keys
  /\ told' = <<>>
  /\ repeated' = "none"
  /\ UNCHANGED <<pressed, plugged, felt, suspended, leds, xkbVars, repeatVars>>

Without(key) ==
  LET rest[n \in 0..Len(held)] ==
        IF n = 0 THEN <<>>
        ELSE IF held[n] = key THEN rest[n - 1] ELSE Append(rest[n - 1], held[n])
  IN rest[Len(held)]

\* The caller takes one key event: process_key, on_key, and the lights.
HandleKey ==
  /\ handed # <<>>
  /\ LET event == Head(handed)
         x == IF event.kind = "press" THEN Down(Xkb, event.key) ELSE Up(Xkb, event.key)
     IN /\ Becomes(x)
        /\ held' = IF event.kind = "release" THEN Without(event.key)
                   ELSE IF Contains(held, event.key) THEN held
                   ELSE Append(held, event.key)
        /\ RepeaterOnKey(event)
        /\ PushLeds(x)
  /\ handed' = Tail(handed)
  /\ repeated' = "none"
  /\ UNCHANGED <<pressed, plugged, felt, told, suspended, keyboards>>

\* reload: the held keys are replayed onto a new state, and then the lock.
Replayed ==
  LET x[n \in 0..Len(held)] ==
        IF n = 0 THEN [down |-> {}, locked |-> FALSE, unlocks |-> FALSE]
        ELSE Down(x[n - 1], held[n])
  IN x[Len(held)]

Reload ==
  /\ Becomes(SetLeds(Replayed, locked))
  /\ repeated' = "none"
  /\ UNCHANGED <<deviceVars, handed, held, repeatVars>>

\* A pause, for a caller that has handled what it read: suspend closes the
\* devices, and libinput may or may not tell the releases of what it had down;
\* what no one read is lost. The repeat is cancelled.
Suspend ==
  /\ ~suspended /\ handed = <<>>
  /\ suspended' = TRUE /\ keyboards' = {} /\ felt' = {}
  /\ \E releases \in SUBSET ToSet(held) :
       told' = SetToSeq({Releasing(key) : key \in releases})
                   \o SetToSeq({Removed(k) : k \in keyboards})
  /\ Cancel
  /\ repeated' = "none"
  /\ UNCHANGED <<pressed, plugged, leds, lit, handed, xkbVars>>

\* Resume: the devices are added again, dark or as they were; release_all
\* lets go of what is held and keeps the lock.
LetGo ==
  LET x[n \in 0..Len(held)] == IF n = 0 THEN Xkb ELSE Up(x[n - 1], held[n])
  IN x[Len(held)]

Resume ==
  /\ suspended /\ suspended' = FALSE
  /\ told' = told \o SetToSeq({Added(k) : k \in plugged})
  /\ \E dark \in SUBSET lit : lit' = lit \ dark
  /\ Becomes(SetLeds(LetGo, locked))
  /\ held' = <<>>
  /\ repeated' = "none"
  /\ UNCHANGED <<pressed, plugged, felt, keyboards, leds, handed, repeatVars>>

-----------------------------------------------------------------------------

KeysInit ==
  /\ pressed = {} /\ plugged = {Typed} /\ felt = {} /\ told = <<Added(Typed)>>
  /\ suspended = FALSE /\ keyboards = {} /\ leds = "none" /\ lit = {} /\ handed = <<>>
  /\ held = <<>> /\ xkbDown = {} /\ locked = FALSE /\ unlocks = FALSE
  /\ repeating = "none" /\ armed = FALSE /\ expired = 0
  /\ repeated = "none"

KeysNext ==
  \/ TimerExpires
  \/ RepeaterDispatch
  \/ \E key \in Key : PressKey(key) \/ ReleaseKey(key)
  \/ \E k \in Keyboards : Plug(k)
  \/ SeatDispatch
  \/ HandleKey
  \/ Reload
  \/ Suspend
  \/ Resume

-----------------------------------------------------------------------------
(* Properties.                                                             *)

\* A key is repeated only while a finger is on it or the word of its release
\* is still on its way, whatever the timer had counted and whatever releases a
\* pause swallowed; and when everything was read and handled, the keyboard and
\* xkb hold what libinput does, and every keyboard's light shows the lock.
KeysFollowFingers ==
  /\ repeated # "none" =>
       \/ repeated \in pressed
       \/ Contains(told \o handed, Releasing(repeated))
  /\ told = <<>> /\ handed = <<>> /\ ~suspended =>
       /\ xkbDown = felt /\ ToSet(held) = felt
       /\ keyboards = plugged
       /\ lit = IF locked THEN plugged ELSE {}

=============================================================================
