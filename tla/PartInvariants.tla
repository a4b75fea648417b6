--------------------------- MODULE PartInvariants ---------------------------
(***************************************************************************)
(* The inductive invariants of the parts of Parts that take the longest to *)
(* prove: each part's own steps keep its invariant, which implies what the *)
(* part promises.  PartsProofs draws the theorems from them.               *)
(***************************************************************************)
EXTENDS Keys, Canvas, GbmSurface, InductionFacts, SequenceTheorems, FunctionTheorems

-----------------------------------------------------------------------------
(* The keyboards.                                                          *)

KeyEvents == {Pressing(key) : key \in Key} \cup {Releasing(key) : key \in Key}
DeviceEvents == {Added(k) : k \in Keyboards} \cup {Removed(k) : k \in Keyboards}
AboutKey(key) == {Pressing(key), Releasing(key)}
AboutKeyboard(k) == {Added(k), Removed(k)}

\* The first n of s have no word of A, or e for the last one.
Silent(s, n, A) == \A i \in 1..n : s[i] \notin A
LastWord(s, n, A, e) ==
  e \in A /\ \E i \in 1..n : s[i] = e /\ \A j \in 1..n : i < j => s[j] \notin A

LEMMA WordGrows ==
  ASSUME NEW s, NEW n \in Nat \ {0}, NEW A
  PROVE  /\ Silent(s, n, A) <=> Silent(s, n - 1, A) /\ s[n] \notin A
         /\ \A e : LastWord(s, n, A, e) <=>
                     IF s[n] \in A THEN s[n] = e ELSE LastWord(s, n - 1, A, e)
<1>1. \A i : i \in 1..n <=> i \in 1..n - 1 \/ i = n
  OBVIOUS
<1>2. Silent(s, n, A) <=> Silent(s, n - 1, A) /\ s[n] \notin A
  BY <1>1 DEF Silent
<1>3. ASSUME NEW e PROVE LastWord(s, n, A, e) <=>
                           IF s[n] \in A THEN s[n] = e ELSE LastWord(s, n - 1, A, e)
  <2>1. CASE s[n] \in A
    <3>1. s[n] = e => LastWord(s, n, A, e)
      <4>1. \A j \in 1..n : ~(n < j)
        OBVIOUS
      <4>2. QED
        BY <1>1, <2>1, <4>1 DEF LastWord
    <3>2. \A i \in 1..n : i # n => i < n
      OBVIOUS
    <3>3. LastWord(s, n, A, e) => s[n] = e
      BY <1>1, <2>1, <3>2 DEF LastWord
    <3>4. QED
      BY <2>1, <3>1, <3>3
  <2>2. CASE s[n] \notin A
    BY <1>1, <2>2 DEF LastWord
  <2>3. QED
    BY <2>1, <2>2
<1>4. QED
  BY <1>2, <1>3

\* What is heard of A is one word, if any.
LEMMA WordIsOne ==
  ASSUME NEW s, NEW n \in Nat, NEW A
  PROVE  /\ Silent(s, n, A) \/ \E e \in A : LastWord(s, n, A, e)
         /\ \A e : LastWord(s, n, A, e) =>
              e \in A /\ ~Silent(s, n, A) /\ \A f : LastWord(s, n, A, f) => e = f
<1> DEFINE at == {i \in 1..n : s[i] \in A}
<1>1. CASE at = {}
  BY <1>1 DEF Silent, LastWord
<1>2. CASE at # {}
  <2>1. at \in SUBSET Int /\ n \in Int /\ \A i \in at : i <= n
    OBVIOUS
  <2>2. \E i \in at : \A j \in at : i >= j
    <3> HIDE DEF at
    <3>1. QED
      BY <1>2, <2>1, GreatestOfBounded
  <2>3. PICK i \in at : \A j \in at : i >= j
    BY <2>2
  <2>4. \A j \in 1..n : i < j => s[j] \notin A
    BY <2>1, <2>3
  <2>5. LastWord(s, n, A, s[i]) /\ s[i] \in A
    BY <2>3, <2>4 DEF LastWord
  <2>6. ASSUME NEW e, LastWord(s, n, A, e) PROVE e = s[i]
    <3>1. PICK k \in 1..n : s[k] = e /\ \A j \in 1..n : k < j => s[j] \notin A
      BY <2>6 DEF LastWord
    <3>2. k \in at
      BY <2>6, <3>1 DEF LastWord
    <3>3. ~(k < i) /\ ~(i < k)
      BY <2>3, <2>4, <3>1, <3>2
    <3>4. k = i
      BY <2>1, <2>3, <3>3
    <3>5. QED
      BY <3>1, <3>4
  <2>7. ~Silent(s, n, A)
    BY <2>3 DEF Silent
  <2>8. QED
    BY <2>5, <2>6, <2>7
<1>3. QED
  BY <1>1, <1>2

LEMMA WordsAreSame ==
  ASSUME NEW s, NEW t, NEW n, \A i \in 1..n : s[i] = t[i], NEW A
  PROVE  /\ Silent(s, n, A) <=> Silent(t, n, A)
         /\ \A e : LastWord(s, n, A, e) <=> LastWord(t, n, A, e)
BY DEF Silent, LastWord

\* A word more at the end.
LEMMA WordIsAdded ==
  ASSUME NEW E, NEW s \in Seq(E), NEW x \in E, NEW A
  PROVE  LET t == Append(s, x) IN
         /\ t \in Seq(E) /\ Len(t) = Len(s) + 1 /\ Len(s) \in Nat
         /\ Silent(t, Len(t), A) <=> Silent(s, Len(s), A) /\ x \notin A
         /\ \A e : LastWord(t, Len(t), A, e) <=>
                     IF x \in A THEN x = e ELSE LastWord(s, Len(s), A, e)
<1> DEFINE t == Append(s, x)
           n == Len(s)
<1>1. /\ t \in Seq(E) /\ Len(t) = n + 1 /\ n \in Nat /\ t[n + 1] = x
      /\ \A i \in 1..n : t[i] = s[i]
  OBVIOUS
<1> HIDE DEF t, n
<1>2. n + 1 \in Nat \ {0} /\ (n + 1) - 1 = n
  BY <1>1
<1>3. /\ Silent(t, n, A) <=> Silent(s, n, A)
      /\ \A e : LastWord(t, n, A, e) <=> LastWord(s, n, A, e)
  BY <1>1, WordsAreSame
<1>4. /\ Silent(t, n + 1, A) <=> Silent(t, n, A) /\ t[n + 1] \notin A
      /\ \A e : LastWord(t, n + 1, A, e) <=>
                  IF t[n + 1] \in A THEN t[n + 1] = e ELSE LastWord(t, n, A, e)
  BY <1>2, WordGrows
<1>5. QED
  BY <1>1, <1>3, <1>4 DEF t, n

\* The first word taken.
LEMMA WordIsTaken ==
  ASSUME NEW E, NEW s \in Seq(E), s # <<>>, NEW A
  PROVE  LET t == Tail(s) IN
         /\ t \in Seq(E) /\ Head(s) \in E
         /\ \A i \in 1..Len(t) : \E j \in 1..Len(s) : t[i] = s[j]
         /\ \E j \in 1..Len(s) : Head(s) = s[j]
         /\ Silent(s, Len(s), A) <=> Silent(t, Len(t), A) /\ Head(s) \notin A
         /\ \A e : LastWord(s, Len(s), A, e) <=>
                     IF Silent(t, Len(t), A) THEN Head(s) \in A /\ Head(s) = e
                     ELSE LastWord(t, Len(t), A, e)
<1> DEFINE t == Tail(s)
           n == Len(s)
           next(i) == i + 1
           last(i) == i - 1
<1>1. /\ n \in Nat \ {0} /\ Head(s) = s[1] /\ t \in Seq(E) /\ Len(t) = n - 1
      /\ \A i \in 1..n - 1 : t[i] = s[i + 1]
  BY HeadTailProperties
<1> HIDE DEF t, n
<1>2. s[1] \in E /\ 1 \in 1..n
  BY <1>1, ElementOfSeq DEF n
<1>3. \A i \in 1..Len(t) : next(i) \in 1..n /\ next(i) # 1 /\ 1 < next(i) /\ t[i] = s[next(i)]
  BY <1>1
<1>4. \A j \in 1..n : j # 1 => last(j) \in 1..Len(t) /\ next(last(j)) = j
  BY <1>1
<1>5. \A i, k \in 1..Len(t) : i < k <=> next(i) < next(k)
  BY <1>1
<1>6. \A j \in 1..n : ~(j < 1)
  BY <1>1
<1> HIDE DEF next, last
<1>7. Silent(s, n, A) <=> Silent(t, Len(t), A) /\ s[1] \notin A
  BY <1>2, <1>3, <1>4 DEF Silent
<1>8. ASSUME NEW e PROVE LastWord(s, n, A, e) <=>
                           IF Silent(t, Len(t), A) THEN s[1] \in A /\ s[1] = e
                           ELSE LastWord(t, Len(t), A, e)
  <2>1. CASE Silent(t, Len(t), A)
    <3>1. \A j \in 1..n : j # 1 => s[j] \notin A
      BY <1>3, <1>4, <2>1 DEF Silent
    <3>2. \A j \in 1..n : 1 < j => j # 1
      OBVIOUS
    <3>3. QED
      BY <1>2, <2>1, <3>1, <3>2 DEF LastWord
  <2>2. CASE ~Silent(t, Len(t), A)
    <3>1. ASSUME LastWord(s, n, A, e) PROVE LastWord(t, Len(t), A, e)
      <4>1. PICK j \in 1..n : s[j] = e /\ e \in A /\ \A m \in 1..n : j < m => s[m] \notin A
        BY <3>1 DEF LastWord
      <4>2. j # 1
        BY <1>3, <2>2, <4>1 DEF Silent
      <4>3. /\ last(j) \in 1..Len(t) /\ t[last(j)] = e
            /\ \A k \in 1..Len(t) : last(j) < k => j < next(k)
        BY <1>3, <1>4, <1>5, <4>1, <4>2
      <4>4. \A k \in 1..Len(t) : last(j) < k => t[k] \notin A
        BY <1>3, <4>1, <4>3
      <4>5. QED
        BY <4>1, <4>3, <4>4 DEF LastWord
    <3>2. ASSUME LastWord(t, Len(t), A, e) PROVE LastWord(s, n, A, e)
      <4>1. PICK i \in 1..Len(t) :
              t[i] = e /\ e \in A /\ \A k \in 1..Len(t) : i < k => t[k] \notin A
        BY <3>2 DEF LastWord
      <4>2. next(i) \in 1..n /\ s[next(i)] = e
        BY <1>3, <4>1
      <4>3. ASSUME NEW m \in 1..n, next(i) < m PROVE s[m] \notin A
        <5>1. m # 1
          BY <1>1, <1>3, <4>3
        <5>2. last(m) \in 1..Len(t) /\ next(last(m)) = m
          BY <1>4, <5>1
        <5>3. i < last(m)
          BY <1>5, <4>3, <5>2
        <5>4. QED
          BY <1>3, <4>1, <5>2, <5>3
      <4>4. QED
        BY <4>1, <4>2, <4>3 DEF LastWord
    <3>3. QED
      BY <2>2, <3>1, <3>2
  <2>3. QED
    BY <2>1, <2>2
<1>9. QED
  BY <1>1, <1>2, <1>3, <1>7, <1>8 DEF t, n

\* A finite set told in some order.
LEMMA SetIsTold ==
  ASSUME NEW S, IsFiniteSet(S)
  PROVE  /\ SetToSeq(S) \in Seq(S)
         /\ \A x \in S : \E i \in 1..Len(SetToSeq(S)) : SetToSeq(S)[i] = x
<1> DEFINE n == Cardinality(S)
           Is(f) == f \in [1..n -> S] /\ IsInjective(f)
<1>1. n \in Nat /\ ExistsBijection(1..n, S)
  BY FS_CardinalityType
<1>2. PICK f : f \in Bijection(1..n, S)
  BY <1>1 DEF ExistsBijection
<1>3. Is(f)
  BY <1>2 DEF Bijection, Injection, IsInjective
<1>4. SetToSeq(S) = CHOOSE h \in [1..n -> S] : IsInjective(h)
  BY DEF SetToSeq
<1>5. SetToSeq(S) \in [1..n -> S] /\ IsInjective(SetToSeq(S))
  BY <1>3, <1>4
<1> DEFINE s == SetToSeq(S)
<1> HIDE DEF s
<1>6. s \in Injection(1..n, S)
  BY <1>5 DEF s, IsInjective, Injection
<1>7. s \in Surjection(1..n, S)
  BY <1>1, <1>6, FS_Injection, FS_Interval
<1>8. s \in Seq(S) /\ Len(s) = n
  BY <1>1, <1>5 DEF s
<1>9. QED
  BY <1>7, <1>8 DEF s, Surjection

-----------------------------------------------------------------------------
\* What libinput and the caller have to read says is nothing, or ends as A is.
KeysTypes ==
  /\ felt \subseteq pressed /\ felt \subseteq Key /\ plugged \subseteq Keyboards
  /\ keyboards \subseteq Keyboards
  /\ suspended \in BOOLEAN
  /\ told \in Seq(KeyEvents \cup DeviceEvents) /\ handed \in Seq(KeyEvents)
  /\ held \in Seq(Key)
  /\ locked \in BOOLEAN /\ unlocks \in BOOLEAN

\* xkb has down what is held, and with the lock key down the lock is on.
XkbFollows ==
  /\ xkbDown = ToSet(held)
  /\ CapsLock \in xkbDown => locked

\* What repeats is held, and was never let go of.
RepeatsHeld ==
  /\ repeating # "none" => repeating \in ToSet(held) /\ ~suspended
  /\ repeated \in {"none", repeating}

LightsFollow ==
  /\ leds \in {"none", "on", "off"} /\ (leds = "on" <=> locked)
  /\ lit \subseteq plugged /\ (leds = "none" => lit = {})

\* What is held once everything is read is what libinput has down.
KeyHeard(key) ==
  LET A == AboutKey(key)  t == Len(told)  h == Len(handed) IN
  /\ LastWord(told, t, A, Pressing(key)) => key \in felt
  /\ LastWord(told, t, A, Releasing(key)) => key \notin felt
  /\ Silent(told, t, A) =>
       /\ LastWord(handed, h, A, Pressing(key)) => key \in felt
       /\ LastWord(handed, h, A, Releasing(key)) => key \notin felt
       /\ Silent(handed, h, A) => (key \in ToSet(held) <=> key \in felt)

\* And likewise the keyboards, whose lights are set as they are read.
KeyboardHeard(k) ==
  LET A == AboutKeyboard(k)  t == Len(told) IN
  /\ LastWord(told, t, A, Added(k)) => k \in plugged
  /\ LastWord(told, t, A, Removed(k)) => k \notin plugged
  /\ Silent(told, t, A) =>
       /\ k \in keyboards <=> k \in plugged
       /\ k \in plugged => (k \in lit <=> locked)

\* In a pause there is no news but of what went.
Paused ==
  /\ felt = {} /\ keyboards = {}
  /\ \A i \in 1..Len(told) : \A x : told[i] # Pressing(x) /\ told[i] # Added(x)
  /\ \A i \in 1..Len(handed) : \A x : handed[i] # Pressing(x)

Heard ==
  IF suspended THEN Paused
  ELSE (\A key \in Key : KeyHeard(key)) /\ (\A k \in Keyboards : KeyboardHeard(k))

KeysInv == KeysTypes /\ XkbFollows /\ RepeatsHeld /\ LightsFollow /\ Heard

\* Events of different kinds or of different keys are different.
LEMMA EventsDiffer ==
  /\ \A x, y : /\ Pressing(x) # Releasing(y) /\ Pressing(x) # Added(y) /\ Pressing(x) # Removed(y)
               /\ Releasing(x) # Added(y) /\ Releasing(x) # Removed(y) /\ Added(x) # Removed(y)
               /\ (Pressing(x) = Pressing(y) => x = y) /\ (Releasing(x) = Releasing(y) => x = y)
               /\ (Added(x) = Added(y) => x = y) /\ (Removed(x) = Removed(y) => x = y)
<1> SUFFICES ASSUME NEW x, NEW y
             PROVE  /\ Pressing(x) # Releasing(y) /\ Pressing(x) # Added(y)
                    /\ Pressing(x) # Removed(y) /\ Releasing(x) # Added(y)
                    /\ Releasing(x) # Removed(y) /\ Added(x) # Removed(y)
                    /\ (Pressing(x) = Pressing(y) => x = y)
                    /\ (Releasing(x) = Releasing(y) => x = y)
                    /\ (Added(x) = Added(y) => x = y) /\ (Removed(x) = Removed(y) => x = y)
  OBVIOUS
<1>1. /\ Pressing(x).kind = "press" /\ Releasing(x).kind = "release"
      /\ Added(x).kind = "added" /\ Removed(x).kind = "removed"
      /\ Pressing(y).kind = "press" /\ Releasing(y).kind = "release"
      /\ Added(y).kind = "added" /\ Removed(y).kind = "removed"
      /\ Pressing(x).key = x /\ Releasing(x).key = x /\ Added(x).keyboard = x
      /\ Removed(x).keyboard = x /\ Pressing(y).key = y /\ Releasing(y).key = y
      /\ Added(y).keyboard = y /\ Removed(y).keyboard = y
  BY DEF Pressing, Releasing, Added, Removed
<1>2. QED
  BY <1>1

LEMMA KeysStart == KeysInit => KeysInv
<1> SUFFICES ASSUME KeysInit PROVE KeysInv
  OBVIOUS
<1>1. /\ pressed = {} /\ plugged = {Typed} /\ felt = {} /\ told = <<Added(Typed)>>
      /\ suspended = FALSE /\ keyboards = {} /\ leds = "none" /\ lit = {} /\ handed = <<>>
      /\ held = <<>> /\ xkbDown = {} /\ locked = FALSE /\ unlocks = FALSE
      /\ repeating = "none" /\ repeated = "none"
  BY DEF KeysInit
<1>2. /\ Len(told) = 1 /\ told[1] = Added(Typed) /\ Len(handed) = 0 /\ 1..Len(handed) = {}
      /\ \A i \in 1..1 : i = 1 /\ ~(1 < i)
  BY <1>1
<1>3. ToSet(held) = {}
  BY <1>1 DEF ToSet
<1>4. KeysTypes
  <2>1. Added(Typed) \in DeviceEvents
    BY KeysAssumption DEF DeviceEvents
  <2>2. told \in Seq(KeyEvents \cup DeviceEvents)
    <3> DEFINE E == KeyEvents \cup DeviceEvents
    <3>1. Added(Typed) \in E
      BY <2>1
    <3> HIDE DEF E
    <3>2. told \in Seq(E)
      BY <1>1, <3>1
    <3>3. QED
      BY <3>2 DEF E
  <2>3. handed \in Seq(KeyEvents) /\ held \in Seq(Key)
    BY <1>1
  <2>4. QED
    BY <1>1, <2>2, <2>3, KeysAssumption DEF KeysTypes
<1>5. \A key \in Key : KeyHeard(key)
  <2> SUFFICES ASSUME NEW key \in Key PROVE KeyHeard(key)
    OBVIOUS
  <2>1. told[1] \notin AboutKey(key)
    BY <1>2, EventsDiffer DEF AboutKey
  <2>2. \A e : ~LastWord(told, 1, AboutKey(key), e)
    BY <1>2, <2>1 DEF LastWord
  <2>3. \A e : ~LastWord(handed, 0, AboutKey(key), e)
    BY <1>2 DEF LastWord
  <2>4. QED
    BY <1>1, <1>2, <1>3, <2>2, <2>3 DEF KeyHeard
<1>6. \A k \in Keyboards : KeyboardHeard(k)
  <2> SUFFICES ASSUME NEW k \in Keyboards PROVE KeyboardHeard(k)
    OBVIOUS
  <2> DEFINE A == AboutKeyboard(k)
  <2>1. Silent(told, 1, A) => k # Typed
    BY <1>2 DEF Silent, AboutKeyboard
  <2>2. LastWord(told, 1, A, Added(k)) => k = Typed
    BY <1>2, EventsDiffer DEF LastWord
  <2>3. ~LastWord(told, 1, A, Removed(k))
    BY <1>2, EventsDiffer DEF LastWord
  <2>4. QED
    BY <1>1, <1>2, <2>1, <2>2, <2>3 DEF KeyboardHeard
<1>7. QED
  BY <1>1, <1>3, <1>4, <1>5, <1>6 DEF KeysInv, XkbFollows, RepeatsHeld, LightsFollow, Heard

\* Something told more, while it is not paused, of a key or of a keyboard.
LEMMA TellsOfKey ==
  ASSUME KeysTypes, NEW key \in Key, KeyHeard(key), UNCHANGED <<handed, held>>,
         NEW x \in KeyEvents \cup DeviceEvents, told' = Append(told, x),
         x = Pressing(key) => key \in felt', x = Releasing(key) => key \notin felt',
         x \notin AboutKey(key) => (key \in felt' <=> key \in felt)
  PROVE  KeyHeard(key)'
<1> DEFINE A == AboutKey(key)
           E == KeyEvents \cup DeviceEvents
<1>1. told \in Seq(E) /\ x \in E
  BY DEF KeysTypes
<1> HIDE DEF A, E
<1>2. /\ Silent(told', Len(told'), A) <=> Silent(told, Len(told), A) /\ x \notin A
      /\ \A e : LastWord(told', Len(told'), A, e) <=>
                  IF x \in A THEN x = e ELSE LastWord(told, Len(told), A, e)
  BY <1>1, WordIsAdded
<1>3. CASE x \in A
  BY <1>2, <1>3 DEF KeyHeard, A
<1>4. CASE x \notin A
  BY <1>2, <1>4 DEF KeyHeard, A
<1>5. QED
  BY <1>3, <1>4

LEMMA TellsOfKeyboard ==
  ASSUME KeysTypes, NEW k \in Keyboards, KeyboardHeard(k), UNCHANGED <<keyboards, locked>>,
         NEW x \in KeyEvents \cup DeviceEvents, told' = Append(told, x),
         x = Added(k) => k \in plugged', x = Removed(k) => k \notin plugged',
         x \notin AboutKeyboard(k) => /\ k \in plugged' <=> k \in plugged
                                      /\ k \in lit' <=> k \in lit
  PROVE  KeyboardHeard(k)'
<1> DEFINE A == AboutKeyboard(k)
           E == KeyEvents \cup DeviceEvents
<1>1. told \in Seq(E) /\ x \in E
  BY DEF KeysTypes
<1> HIDE DEF A, E
<1>2. /\ Silent(told', Len(told'), A) <=> Silent(told, Len(told), A) /\ x \notin A
      /\ \A e : LastWord(told', Len(told'), A, e) <=>
                  IF x \in A THEN x = e ELSE LastWord(told, Len(told), A, e)
  BY <1>1, WordIsAdded
<1>3. CASE x \in A
  BY <1>2, <1>3 DEF KeyboardHeard, A
<1>4. CASE x \notin A
  BY <1>2, <1>4 DEF KeyboardHeard, A
<1>5. QED
  BY <1>3, <1>4

-----------------------------------------------------------------------------
\* xkb's state.
XkbRec == [down : SUBSET Key, locked : BOOLEAN, unlocks : BOOLEAN]

LEMMA KeyGoesDown ==
  ASSUME NEW x \in XkbRec, NEW key \in Key
  PROVE  /\ Down(x, key) \in XkbRec /\ Down(x, key).down = x.down \cup {key}
         /\ Down(x, key).locked <=> x.locked \/ (key = CapsLock /\ CapsLock \notin x.down)
         /\ key = CapsLock /\ CapsLock \notin x.down => (Down(x, key).unlocks <=> x.locked)
<1>1. /\ x.down \in SUBSET Key /\ x.locked \in BOOLEAN /\ x.unlocks \in BOOLEAN
      /\ x = [down |-> x.down, locked |-> x.locked, unlocks |-> x.unlocks]
  BY DEF XkbRec
<1>2. CASE key # CapsLock \/ key \in x.down
  <2>1. Down(x, key) = [down |-> x.down \cup {key}, locked |-> x.locked, unlocks |-> x.unlocks]
    BY <1>1, <1>2 DEF Down
  <2>2. x.down \cup {key} \in SUBSET Key
    BY <1>1
  <2>3. QED
    BY <1>1, <1>2, <2>1, <2>2 DEF XkbRec
<1>3. CASE ~(key # CapsLock \/ key \in x.down)
  <2>1. Down(x, key) = [down |-> x.down \cup {key}, locked |-> TRUE, unlocks |-> x.locked]
    BY <1>3 DEF Down
  <2>2. x.down \cup {key} \in SUBSET Key
    BY <1>1
  <2>3. QED
    BY <1>1, <1>3, <2>1, <2>2 DEF XkbRec
<1>4. QED
  BY <1>2, <1>3

LEMMA KeyGoesUp ==
  ASSUME NEW x \in XkbRec, NEW key \in Key
  PROVE  /\ Up(x, key) \in XkbRec /\ Up(x, key).down = x.down \ {key}
         /\ key # CapsLock => Up(x, key).locked = x.locked
         /\ key = CapsLock /\ CapsLock \in x.down =>
              (Up(x, key).locked <=> x.locked /\ ~x.unlocks)
<1>1. /\ x.down \in SUBSET Key /\ x.locked \in BOOLEAN /\ x.unlocks \in BOOLEAN
      /\ x = [down |-> x.down, locked |-> x.locked, unlocks |-> x.unlocks]
  BY DEF XkbRec
<1>2. x.down \ {key} \in SUBSET Key
  BY <1>1
<1>3. CASE key # CapsLock \/ key \notin x.down
  <2>1. Up(x, key) = [down |-> x.down \ {key}, locked |-> x.locked, unlocks |-> x.unlocks]
    BY <1>1, <1>3 DEF Up
  <2>2. QED
    BY <1>1, <1>2, <1>3, <2>1 DEF XkbRec
<1>4. CASE ~(key # CapsLock \/ key \notin x.down)
  <2> DEFINE on == x.locked /\ ~x.unlocks
  <2>1. Up(x, key) = [down |-> x.down \ {key}, locked |-> on, unlocks |-> x.unlocks]
    BY <1>1, <1>4 DEF Up
  <2>2. on \in BOOLEAN
    OBVIOUS
  <2> HIDE DEF on
  <2>3. /\ Up(x, key) \in XkbRec /\ Up(x, key).down = x.down \ {key} /\ Up(x, key).locked = on
    BY <1>1, <1>2, <2>1, <2>2 DEF XkbRec
  <2>4. QED
    BY <1>4, <2>3 DEF on
<1>5. QED
  BY <1>3, <1>4

\* set_leds leaves the keys as they are and the lock as it should be.
LEMMA LockIsTapped ==
  ASSUME NEW x \in XkbRec, NEW desired \in BOOLEAN, CapsLock \in x.down => x.locked = desired
  PROVE  /\ SetLeds(x, desired) \in XkbRec /\ SetLeds(x, desired).down = x.down
         /\ SetLeds(x, desired).locked = desired
<1>1. CASE x.locked = desired
  BY <1>1 DEF SetLeds
<1>2. CASE x.locked # desired
  <2> DEFINE y == Down(x, CapsLock)
             z == Up(y, CapsLock)
  <2>1. SetLeds(x, desired) = z /\ CapsLock \notin x.down /\ CapsLock \in Key
        /\ x.locked \in BOOLEAN
    BY <1>2 DEF SetLeds, Key, XkbRec
  <2>2. /\ y \in XkbRec /\ y.down = x.down \cup {CapsLock} /\ y.locked
        /\ y.unlocks <=> x.locked
    BY <2>1, KeyGoesDown
  <2> HIDE DEF y
  <2>3. /\ z \in XkbRec /\ z.down = y.down \ {CapsLock} /\ (z.locked <=> y.locked /\ ~y.unlocks)
    BY <2>1, <2>2, KeyGoesUp
  <2>4. z.locked \in BOOLEAN
    BY <2>3 DEF XkbRec
  <2> HIDE DEF z
  <2>5. z.down = x.down
    BY <2>1, <2>2, <2>3
  <2>6. z.locked = desired
    BY <1>2, <2>1, <2>2, <2>3, <2>4
  <2>7. QED
    BY <2>1, <2>3, <2>5, <2>6
<1>3. QED
  BY <1>1, <1>2

\* A replay has down what is held, and the lock on if its key is.
LEMMA ReplayHolds ==
  ASSUME held \in Seq(Key)
  PROVE  /\ Replayed \in XkbRec /\ Replayed.down = ToSet(held)
         /\ Replayed.locked <=> CapsLock \in ToSet(held)
<1> DEFINE n == Len(held)
           base == [down |-> {}, locked |-> FALSE, unlocks |-> FALSE]
           step == [k \in 1..n |-> [v \in XkbRec |-> Down(v, held[k])]]
           Is(f) == f = [k \in 0..n |-> IF k = 0 THEN base ELSE Down(f[k - 1], held[k])]
           x == CHOOSE f : Is(f)
           Upto(k) == {held[i] : i \in 1..k}
<1>1. n \in Nat /\ \A k \in 1..n : held[k] \in Key
  BY ElementOfSeq
<1>2. Replayed = x[n]
  BY DEF Replayed
<1>3. base \in XkbRec /\ base.down = {} /\ base.locked = FALSE
  BY DEF XkbRec
<1> HIDE DEF base
<1>4. Steps(n, XkbRec, base, step)
  <2>1. step \in [1..n -> [XkbRec -> XkbRec]]
    BY <1>1, KeyGoesDown
  <2> HIDE DEF step
  <2>2. QED
    BY <1>1, <1>3, <2>1 DEF Steps
<1>5. PICK f : Iterates(n, XkbRec, base, step, f)
  <2> HIDE DEF step, n
  <2>1. QED
    BY <1>4, IteratesExist
<1>6. Is(f)
  <2>1. f \in [0..n -> XkbRec] /\ f[0] = base
    BY <1>5 DEF Iterates
  <2>2. \A k \in 1..n : f[k] = Down(f[k - 1], held[k])
    <3>1. \A k \in 1..n : f[k - 1] \in XkbRec /\ f[k] = step[k][f[k - 1]]
      <4> HIDE DEF step, n
      <4>1. QED
        BY <1>1, <1>5, IteratesStep
    <3>2. QED
      BY <3>1
  <2> HIDE DEF step
  <2>3. \A k \in 0..n : f[k] = IF k = 0 THEN base ELSE Down(f[k - 1], held[k])
    BY <1>1, <2>1, <2>2
  <2>4. QED
    BY <2>1, <2>3
<1>7. Is(x)
  BY <1>6
<1> HIDE DEF x, step
<1> DEFINE Holds(k) == /\ x[k] \in XkbRec /\ x[k].down = Upto(k)
                       /\ x[k].locked <=> CapsLock \in Upto(k)
           T == {k \in 0..n : Holds(k)}
<1>8. 0 \in T
  <2>1. x[0] = base /\ 0 \in 0..n /\ Upto(0) = {}
    BY <1>1, <1>7
  <2>2. QED
    BY <1>3, <2>1
<1>9. ASSUME NEW k \in 1..n, k - 1 \in T PROVE k \in T
  <2>1. x[k] = Down(x[k - 1], held[k]) /\ k \in 0..n /\ held[k] \in Key
    <3>1. k \in 0..n /\ k # 0 /\ held[k] \in Key
      BY <1>1
    <3> HIDE DEF n, T
    <3>2. QED
      BY <1>7, <3>1
  <2>2. Holds(k - 1)
    BY <1>9
  <2>3. Upto(k) = Upto(k - 1) \cup {held[k]}
    <3>1. \A i : i \in 1..k <=> i \in 1..k - 1 \/ i = k
      BY <1>1
    <3>2. QED
      BY <3>1
  <2> HIDE DEF Upto
  <2>4. /\ x[k] \in XkbRec /\ x[k].down = x[k - 1].down \cup {held[k]}
        /\ x[k].locked <=> x[k - 1].locked
                           \/ (held[k] = CapsLock /\ CapsLock \notin x[k - 1].down)
    BY <2>1, <2>2, KeyGoesDown
  <2>5. Holds(k)
    BY <2>2, <2>3, <2>4
  <2>6. QED
    BY <2>1, <2>5
<1>10. n \in T
  <2>1. 0..n \subseteq T
    <3> HIDE DEF T
    <3>1. QED
      BY <1>1, <1>8, <1>9, Reaches
  <2>2. n \in 0..n
    BY <1>1
  <2> HIDE DEF T, n
  <2>3. QED
    BY <2>1, <2>2
<1>11. Upto(n) = ToSet(held)
  BY DEF ToSet
<1> HIDE DEF Upto
<1>12. QED
  BY <1>2, <1>10, <1>11

\* A release of all that is held leaves nothing down.
LEMMA ReleaseLetsGo ==
  ASSUME held \in Seq(Key), Xkb \in XkbRec, xkbDown = ToSet(held)
  PROVE  LetGo \in XkbRec /\ LetGo.down = {}
<1> DEFINE n == Len(held)
           step == [k \in 1..n |-> [v \in XkbRec |-> Up(v, held[k])]]
           Is(f) == f = [k \in 0..n |-> IF k = 0 THEN Xkb ELSE Up(f[k - 1], held[k])]
           x == CHOOSE f : Is(f)
           Upto(k) == {held[i] : i \in 1..k}
<1>1. n \in Nat /\ \A k \in 1..n : held[k] \in Key
  BY ElementOfSeq
<1>2. LetGo = x[n]
  BY DEF LetGo
<1>3. Xkb.down = ToSet(held)
  BY DEF Xkb
<1>4. Steps(n, XkbRec, Xkb, step)
  <2>1. step \in [1..n -> [XkbRec -> XkbRec]]
    BY <1>1, KeyGoesUp
  <2> HIDE DEF step
  <2>2. QED
    BY <1>1, <2>1 DEF Steps
<1>5. PICK f : Iterates(n, XkbRec, Xkb, step, f)
  <2> HIDE DEF step, n
  <2>1. QED
    BY <1>4, IteratesExist
<1>6. Is(f)
  <2>1. f \in [0..n -> XkbRec] /\ f[0] = Xkb
    BY <1>5 DEF Iterates
  <2>2. \A k \in 1..n : f[k] = Up(f[k - 1], held[k])
    <3>1. \A k \in 1..n : f[k - 1] \in XkbRec /\ f[k] = step[k][f[k - 1]]
      <4> HIDE DEF step, n
      <4>1. QED
        BY <1>1, <1>5, IteratesStep
    <3>2. QED
      BY <3>1
  <2> HIDE DEF step
  <2>3. \A k \in 0..n : f[k] = IF k = 0 THEN Xkb ELSE Up(f[k - 1], held[k])
    BY <1>1, <2>1, <2>2
  <2>4. QED
    BY <2>1, <2>3
<1>7. Is(x)
  BY <1>6
<1> HIDE DEF x, step
<1> DEFINE Holds(k) == x[k] \in XkbRec /\ x[k].down = ToSet(held) \ Upto(k)
           T == {k \in 0..n : Holds(k)}
<1>8. 0 \in T
  <2>1. x[0] = Xkb /\ 0 \in 0..n /\ Upto(0) = {}
    BY <1>1, <1>7
  <2>2. QED
    BY <1>3, <2>1
<1>9. ASSUME NEW k \in 1..n, k - 1 \in T PROVE k \in T
  <2>1. x[k] = Up(x[k - 1], held[k]) /\ k \in 0..n /\ held[k] \in Key
    <3>1. k \in 0..n /\ k # 0 /\ held[k] \in Key
      BY <1>1
    <3> HIDE DEF n, T
    <3>2. QED
      BY <1>7, <3>1
  <2>2. Holds(k - 1)
    BY <1>9
  <2>3. Upto(k) = Upto(k - 1) \cup {held[k]}
    <3>1. \A i : i \in 1..k <=> i \in 1..k - 1 \/ i = k
      BY <1>1
    <3>2. QED
      BY <3>1
  <2> HIDE DEF Upto
  <2>4. x[k] \in XkbRec /\ x[k].down = x[k - 1].down \ {held[k]}
    BY <2>1, <2>2, KeyGoesUp
  <2>5. Holds(k)
    BY <2>2, <2>3, <2>4
  <2>6. QED
    BY <2>1, <2>5
<1>10. n \in T
  <2>1. 0..n \subseteq T
    <3> HIDE DEF T
    <3>1. QED
      BY <1>1, <1>8, <1>9, Reaches
  <2>2. n \in 0..n
    BY <1>1
  <2> HIDE DEF T, n
  <2>3. QED
    BY <2>1, <2>2
<1>11. Upto(n) = ToSet(held)
  BY DEF ToSet
<1> HIDE DEF Upto
<1>12. QED
  BY <1>2, <1>10, <1>11

\* What is held without a key.
LEMMA KeyIsLetGo ==
  ASSUME held \in Seq(Key), NEW key
  PROVE  Without(key) \in Seq(Key) /\ ToSet(Without(key)) = ToSet(held) \ {key}
<1> DEFINE n == Len(held)
           V == Seq(Key)
           Kept(v, k) == IF held[k] = key THEN v ELSE Append(v, held[k])
           step == [k \in 1..n |-> [v \in V |-> Kept(v, k)]]
           Is(f) == f = [k \in 0..n |-> IF k = 0 THEN <<>> ELSE
                                        IF held[k] = key THEN f[k - 1] ELSE Append(f[k - 1], held[k])]
           rest == CHOOSE f : Is(f)
           Upto(k) == {held[i] : i \in 1..k}
<1>1. n \in Nat /\ \A k \in 1..n : held[k] \in Key
  BY ElementOfSeq
<1>2. Without(key) = rest[n]
  BY DEF Without
<1>3. <<>> \in V /\ ToSet(<<>>) = {}
  BY DEF ToSet
<1>4. ASSUME NEW v \in V, NEW k \in 1..n
      PROVE  /\ Kept(v, k) \in V
             /\ ToSet(Kept(v, k)) = ToSet(v) \cup ({held[k]} \ {key})
  <2>1. CASE held[k] = key
    BY <2>1
  <2>2. CASE held[k] # key
    <3> DEFINE w == Append(v, held[k])
    <3>1. /\ w \in V /\ DOMAIN w = 1..Len(v) + 1 /\ w[Len(v) + 1] = held[k]
          /\ \A i \in 1..Len(v) : w[i] = v[i] /\ DOMAIN v = 1..Len(v) /\ Len(v) \in Nat
      BY <1>1
    <3>2. \A i : i \in DOMAIN w <=> i \in 1..Len(v) \/ i = Len(v) + 1
      BY <3>1
    <3>3. ToSet(w) = ToSet(v) \cup {held[k]}
      <4> HIDE DEF w
      <4>1. ToSet(w) = {w[i] : i \in DOMAIN w} /\ ToSet(v) = {v[i] : i \in DOMAIN v}
        BY DEF ToSet
      <4>2. ASSUME NEW i \in DOMAIN w PROVE w[i] \in ToSet(v) \cup {held[k]}
        BY <3>1, <3>2, <4>1
      <4>3. ASSUME NEW i \in DOMAIN v PROVE v[i] \in ToSet(w)
        BY <3>1, <3>2, <4>1
      <4>4. held[k] \in ToSet(w)
        BY <3>1, <3>2, <4>1
      <4>5. QED
        BY <4>1, <4>2, <4>3, <4>4
    <3>4. Kept(v, k) = w
      BY <2>2
    <3> HIDE DEF w, Kept, V
    <3>5. QED
      BY <2>2, <3>1, <3>3, <3>4
  <2>3. QED
    BY <2>1, <2>2
<1>5. Steps(n, V, <<>>, step)
  <2>1. step \in [1..n -> [V -> V]]
    <3> HIDE DEF V, Kept
    <3>1. QED
      BY <1>4
  <2> HIDE DEF step
  <2>2. QED
    BY <1>1, <2>1 DEF Steps
<1>6. PICK f : Iterates(n, V, <<>>, step, f)
  <2> HIDE DEF step, n, V
  <2>1. QED
    BY <1>5, IteratesExist
<1>7. Is(f)
  <2> HIDE DEF V
  <2>1. f \in [0..n -> V] /\ f[0] = <<>>
    BY <1>6 DEF Iterates
  <2> HIDE DEF step, Kept
  <2>2. \A k \in 1..n : f[k] = Kept(f[k - 1], k)
    <3>1. \A k \in 1..n : f[k - 1] \in V /\ f[k] = step[k][f[k - 1]]
      <4> HIDE DEF step, n
      <4>1. QED
        BY <1>1, <1>6, IteratesStep
    <3>2. QED
      BY <3>1 DEF step
  <2>3. \A k \in 0..n : k # 0 => k \in 1..n
    BY <1>1
  <2>4. \A k \in 0..n : f[k] = IF k = 0 THEN <<>> ELSE Kept(f[k - 1], k)
    <3> HIDE DEF n
    <3>1. QED
      BY <2>1, <2>2, <2>3
  <2>5. f = [k \in 0..n |-> IF k = 0 THEN <<>> ELSE Kept(f[k - 1], k)]
    BY <2>1, <2>4
  <2>6. QED
    BY <2>5 DEF Kept
<1>8. Is(rest)
  <2> HIDE DEF Is
  <2>1. QED
    BY <1>7
<1> HIDE DEF rest, step, V
<1> DEFINE Holds(k) == rest[k] \in V /\ ToSet(rest[k]) = Upto(k) \ {key}
           T == {k \in 0..n : Holds(k)}
<1>9. 0 \in T
  <2>1. rest[0] = <<>> /\ 0 \in 0..n /\ Upto(0) = {}
    BY <1>1, <1>8
  <2>2. QED
    BY <1>3, <2>1
<1>10. ASSUME NEW k \in 1..n, k - 1 \in T PROVE k \in T
  <2>1. rest[k] = Kept(rest[k - 1], k) /\ k \in 0..n /\ held[k] \in Key
    <3>1. k \in 0..n /\ k # 0 /\ held[k] \in Key
      BY <1>1
    <3> HIDE DEF n, T
    <3>2. QED
      BY <1>8, <3>1
  <2>2. Holds(k - 1)
    BY <1>10
  <2>3. Upto(k) = Upto(k - 1) \cup {held[k]}
    <3>1. \A i : i \in 1..k <=> i \in 1..k - 1 \/ i = k
      BY <1>1
    <3>2. QED
      BY <3>1
  <2> HIDE DEF Upto, Kept
  <2>4. rest[k] \in V /\ ToSet(rest[k]) = ToSet(rest[k - 1]) \cup ({held[k]} \ {key})
    BY <1>4, <2>1, <2>2
  <2>5. Holds(k)
    BY <2>2, <2>3, <2>4
  <2>6. QED
    BY <2>1, <2>5
<1>11. n \in T
  <2>1. 0..n \subseteq T
    <3> HIDE DEF T
    <3>1. QED
      BY <1>1, <1>9, <1>10, Reaches
  <2>2. n \in 0..n
    BY <1>1
  <2> HIDE DEF T, n
  <2>3. QED
    BY <2>1, <2>2
<1>12. Upto(n) = ToSet(held)
  BY DEF ToSet
<1> HIDE DEF Upto
<1>13. QED
  BY <1>2, <1>11, <1>12 DEF V

-----------------------------------------------------------------------------
\* What Seat has read of the first n events: the keys as they were told, and
\* of each keyboard what the last word on it says.
SeatRec == [keyboards : SUBSET Keyboards, lit : SUBSET plugged, keys : Seq(KeyEvents)]

KeyRead(key, v, n) ==
  LET A == AboutKey(key)  h == Len(v.keys) IN
  /\ Silent(v.keys, h, A) <=> Silent(told, n, A)
  /\ \A e : LastWord(v.keys, h, A, e) <=> LastWord(told, n, A, e)

KeyboardRead(k, v, n) ==
  LET A == AboutKeyboard(k) IN
  /\ Silent(told, n, A) => (k \in v.keyboards <=> k \in keyboards) /\ (k \in v.lit <=> k \in lit)
  /\ LastWord(told, n, A, Added(k)) =>
       /\ k \in v.keyboards
       /\ leds = "on" => (k \in v.lit <=> k \in plugged)
       /\ leds = "off" => k \notin v.lit
  /\ LastWord(told, n, A, Removed(k)) => k \notin v.keyboards

NothingMade(v, n) ==
  /\ \A i \in 1..Len(v.keys) : \E j \in 1..n : v.keys[i] = told[j]
  /\ \A k \in v.keyboards : k \in keyboards \/ \E j \in 1..n : told[j] = Added(k)
  /\ leds = "none" /\ lit = {} => v.lit = {}

ReadTo(v, n) ==
  /\ v \in SeatRec /\ NothingMade(v, n)
  /\ \A key \in Key : KeyRead(key, v, n)
  /\ \A k \in Keyboards : KeyboardRead(k, v, n)

LEMMA KeyIsRead ==
  ASSUME NEW v \in SeatRec, NEW e \in KeyEvents
  PROVE  /\ OnEvent(v, e) \in SeatRec /\ OnEvent(v, e).keyboards = v.keyboards
         /\ OnEvent(v, e).lit = v.lit /\ OnEvent(v, e).keys = Append(v.keys, e)
         /\ \A x : e # Added(x) /\ e # Removed(x)
<1>1. e.kind \in {"press", "release"} /\ \A x : e # Added(x) /\ e # Removed(x)
  <2>1. PICK key \in Key : e \in {Pressing(key), Releasing(key)}
    BY DEF KeyEvents
  <2>2. \A x : e # Added(x) /\ e # Removed(x)
    BY <2>1, EventsDiffer
  <2>3. e.kind \in {"press", "release"}
    BY <2>1 DEF Pressing, Releasing
  <2>4. QED
    BY <2>2, <2>3
<1>2. OnEvent(v, e) = [v EXCEPT !.keys = Append(@, e)]
  BY <1>1 DEF OnEvent
<1>3. v = [keyboards |-> v.keyboards, lit |-> v.lit, keys |-> v.keys]
      /\ v.keyboards \in SUBSET Keyboards /\ v.lit \in SUBSET plugged /\ v.keys \in Seq(KeyEvents)
  BY DEF SeatRec
<1> DEFINE w == Append(v.keys, e)
<1>4. w \in Seq(KeyEvents)
  <2> DEFINE E == KeyEvents
  <2> HIDE DEF E
  <2>1. v.keys \in Seq(E) /\ e \in E
    BY <1>3 DEF E
  <2>2. QED
    BY <2>1 DEF E
<1>5. OnEvent(v, e) = [keyboards |-> v.keyboards, lit |-> v.lit, keys |-> w]
  BY <1>2, <1>3
<1> HIDE DEF w
<1>6. /\ OnEvent(v, e) \in SeatRec /\ OnEvent(v, e).keyboards = v.keyboards
      /\ OnEvent(v, e).lit = v.lit /\ OnEvent(v, e).keys = w
  BY <1>3, <1>4, <1>5 DEF SeatRec
<1>7. QED
  BY <1>1, <1>6 DEF w

LEMMA AdditionIsRead ==
  ASSUME NEW v \in SeatRec, NEW k \in Keyboards
  PROVE  LET w == OnEvent(v, Added(k)) IN
         /\ w \in SeatRec /\ w.keyboards = v.keyboards \cup {k} /\ w.keys = v.keys
         /\ \A m : m # k => (m \in w.lit <=> m \in v.lit)
         /\ leds = "on" => (k \in w.lit <=> k \in plugged)
         /\ leds = "off" => k \notin w.lit
         /\ leds = "none" => w.lit = v.lit
<1> DEFINE light == CASE leds = "on" -> v.lit \cup ({k} \cap plugged)
                      [] leds = "off" -> v.lit \ {k}
                      [] OTHER -> v.lit
           w == OnEvent(v, Added(k))
<1>1. v = [keyboards |-> v.keyboards, lit |-> v.lit, keys |-> v.keys]
      /\ v.keyboards \in SUBSET Keyboards /\ v.lit \in SUBSET plugged /\ v.keys \in Seq(KeyEvents)
  BY DEF SeatRec
<1>2. Added(k).kind = "added" /\ Added(k).keyboard = k
  BY DEF Added
<1>3. w = [v EXCEPT !.keyboards = @ \cup {k}, !.lit = light]
  <2> DEFINE e == Added(k)
  <2> HIDE DEF e
  <2>1. e.kind = "added" /\ e.keyboard = k
    BY <1>2 DEF e
  <2>2. OnEvent(v, e) = [v EXCEPT !.keyboards = @ \cup {k}, !.lit = light]
    BY <2>1 DEF OnEvent
  <2>3. QED
    BY <2>2 DEF e
<1>4. /\ light \in SUBSET plugged
      /\ \A m : m # k => (m \in light <=> m \in v.lit)
      /\ leds = "on" => (k \in light <=> k \in plugged)
      /\ leds = "off" => k \notin light
      /\ leds = "none" => light = v.lit
  <2>1. CASE leds = "on"
    BY <1>1, <2>1
  <2>2. CASE leds = "off"
    BY <1>1, <2>2
  <2>3. CASE leds # "on" /\ leds # "off"
    BY <1>1, <2>3
  <2>4. QED
    BY <2>1, <2>2, <2>3
<1> HIDE DEF light, w
<1>5. w = [keyboards |-> v.keyboards \cup {k}, lit |-> light, keys |-> v.keys]
  BY <1>1, <1>3
<1>6. v.keyboards \cup {k} \in SUBSET Keyboards
  BY <1>1
<1>7. w \in SeatRec /\ w.keyboards = v.keyboards \cup {k} /\ w.keys = v.keys /\ w.lit = light
  BY <1>1, <1>4, <1>5, <1>6 DEF SeatRec
<1>8. QED
  BY <1>4, <1>7 DEF w

LEMMA RemovalIsRead ==
  ASSUME NEW v \in SeatRec, NEW k \in Keyboards
  PROVE  LET w == OnEvent(v, Removed(k)) IN
         w \in SeatRec /\ w.keyboards = v.keyboards \ {k} /\ w.keys = v.keys /\ w.lit = v.lit
<1> DEFINE e == Removed(k)
<1>1. e.kind = "removed" /\ e.keyboard = k
  BY DEF Removed
<1> HIDE DEF e
<1>2. v = [keyboards |-> v.keyboards, lit |-> v.lit, keys |-> v.keys]
      /\ v.keyboards \in SUBSET Keyboards /\ v.lit \in SUBSET plugged /\ v.keys \in Seq(KeyEvents)
  BY DEF SeatRec
<1>3. OnEvent(v, e) = [v EXCEPT !.keyboards = @ \ {k}]
  BY <1>1 DEF OnEvent
<1>4. OnEvent(v, e) = [keyboards |-> v.keyboards \ {k}, lit |-> v.lit, keys |-> v.keys]
  BY <1>2, <1>3
<1>5. v.keyboards \ {k} \in SUBSET Keyboards
  BY <1>2
<1>6. QED
  BY <1>2, <1>4, <1>5 DEF SeatRec, e

LEMMA KeyReadsOn ==
  ASSUME KeysTypes, NEW n \in 1..Len(told), NEW v \in SeatRec, NEW key \in Key,
         KeyRead(key, v, n - 1)
  PROVE  KeyRead(key, OnEvent(v, told[n]), n)
<1> DEFINE A == AboutKey(key)
           E == KeyEvents
           s == v.keys
           e == told[n]
           w == OnEvent(v, e)
<1>1. n \in Nat \ {0} /\ s \in Seq(E)
  BY DEF SeatRec, KeysTypes
<1>2. /\ Silent(told, n, A) <=> Silent(told, n - 1, A) /\ e \notin A
      /\ \A x : LastWord(told, n, A, x) <=> IF e \in A THEN e = x ELSE LastWord(told, n - 1, A, x)
  <2> HIDE DEF A
  <2>1. QED
    BY <1>1, WordGrows
<1>3. /\ Silent(s, Len(s), A) <=> Silent(told, n - 1, A)
      /\ \A x : LastWord(s, Len(s), A, x) <=> LastWord(told, n - 1, A, x)
  BY DEF KeyRead
<1>4. e \in KeyEvents \cup DeviceEvents
  BY ElementOfSeq DEF KeysTypes
<1>5. CASE e \in KeyEvents
  <2>1. w.keys = Append(s, e)
    BY <1>5, KeyIsRead
  <2> HIDE DEF A, E, s, e, w
  <2>2. /\ Silent(w.keys, Len(w.keys), A) <=> Silent(s, Len(s), A) /\ e \notin A
        /\ \A x : LastWord(w.keys, Len(w.keys), A, x) <=>
                    IF e \in A THEN e = x ELSE LastWord(s, Len(s), A, x)
    BY <1>1, <1>5, <2>1, WordIsAdded DEF E
  <2>3. QED
    BY <1>2, <1>3, <2>2 DEF KeyRead, A, e, w
<1>6. CASE e \in DeviceEvents
  <2>1. PICK k \in Keyboards : e \in {Added(k), Removed(k)}
    BY <1>6 DEF DeviceEvents
  <2>2. w.keys = s
    BY <2>1, AdditionIsRead, RemovalIsRead
  <2>3. e \notin A
    BY <2>1, EventsDiffer DEF AboutKey
  <2> HIDE DEF A, s, e, w
  <2>4. QED
    BY <1>2, <1>3, <2>2, <2>3 DEF KeyRead, A, e, w
<1>7. QED
  BY <1>4, <1>5, <1>6

LEMMA KeyboardReadsOn ==
  ASSUME KeysTypes, NEW n \in 1..Len(told), NEW v \in SeatRec, NEW k \in Keyboards,
         KeyboardRead(k, v, n - 1)
  PROVE  KeyboardRead(k, OnEvent(v, told[n]), n)
<1> DEFINE A == AboutKeyboard(k)
           e == told[n]
           w == OnEvent(v, e)
<1>1. n \in Nat \ {0}
  OBVIOUS
<1>2. /\ Silent(told, n, A) <=> Silent(told, n - 1, A) /\ e \notin A
      /\ \A x : LastWord(told, n, A, x) <=> IF e \in A THEN e = x ELSE LastWord(told, n - 1, A, x)
  <2> HIDE DEF A
  <2>1. QED
    BY <1>1, WordGrows
<1>3. e \in KeyEvents \cup DeviceEvents
  BY ElementOfSeq DEF KeysTypes
<1>4. CASE e = Added(k)
  <2>1. /\ k \in w.keyboards
        /\ leds = "on" => (k \in w.lit <=> k \in plugged)
        /\ leds = "off" => k \notin w.lit
    BY <1>4, AdditionIsRead
  <2>2. e \in A /\ e # Removed(k)
    BY <1>4, EventsDiffer DEF AboutKeyboard
  <2> HIDE DEF A, e, w
  <2>3. QED
    BY <1>2, <2>1, <2>2 DEF KeyboardRead, A, e, w
<1>5. CASE e = Removed(k)
  <2>1. k \notin w.keyboards
    BY <1>5, RemovalIsRead
  <2>2. e \in A /\ e # Added(k)
    BY <1>5, EventsDiffer DEF AboutKeyboard
  <2> HIDE DEF A, e, w
  <2>3. QED
    BY <1>2, <2>1, <2>2 DEF KeyboardRead, A, e, w
<1>6. CASE e \notin A
  <2>1. (k \in w.keyboards <=> k \in v.keyboards) /\ (k \in w.lit <=> k \in v.lit)
    <3>1. CASE e \in KeyEvents
      BY <3>1, KeyIsRead
    <3>2. CASE e \in DeviceEvents
      <4>1. PICK m \in Keyboards : e \in {Added(m), Removed(m)}
        BY <3>2 DEF DeviceEvents
      <4>2. m # k
        BY <1>6, <4>1 DEF AboutKeyboard
      <4>3. CASE e = Added(m)
        BY <4>2, <4>3, AdditionIsRead
      <4>4. CASE e = Removed(m)
        BY <4>2, <4>4, RemovalIsRead
      <4>5. QED
        BY <4>1, <4>3, <4>4
    <3>3. QED
      BY <1>3, <3>1, <3>2
  <2> HIDE DEF e, w
  <2>2. QED
    BY <1>2, <1>6, <2>1 DEF KeyboardRead, A, e, w
<1>7. QED
  BY <1>4, <1>5, <1>6 DEF AboutKeyboard

LEMMA NothingIsMade ==
  ASSUME KeysTypes, LightsFollow, NEW n \in 1..Len(told), NEW v \in SeatRec,
         NothingMade(v, n - 1)
  PROVE  NothingMade(OnEvent(v, told[n]), n)
<1> DEFINE e == told[n]
           w == OnEvent(v, e)
<1>1. \A j \in 1..n - 1 : j \in 1..n
  OBVIOUS
<1>2. n \in 1..n
  OBVIOUS
<1>3. e \in KeyEvents \cup DeviceEvents
  BY ElementOfSeq DEF KeysTypes
<1>4. CASE e \in KeyEvents
  <2>1. w.keyboards = v.keyboards /\ w.lit = v.lit /\ w.keys = Append(v.keys, e)
    BY <1>4, KeyIsRead
  <2>2. v.keys \in Seq(KeyEvents)
    BY DEF SeatRec
  <2>3. ASSUME NEW i \in 1..Len(w.keys) PROVE \E j \in 1..n : w.keys[i] = told[j]
    <3>1. (i \in 1..Len(v.keys) /\ w.keys[i] = v.keys[i]) \/ w.keys[i] = e
      <4> HIDE DEF e, w
      <4>1. QED
        BY <1>4, <2>1, <2>2, <2>3
    <3>2. CASE w.keys[i] = e
      BY <1>2, <3>2
    <3>3. CASE i \in 1..Len(v.keys) /\ w.keys[i] = v.keys[i]
      <4>1. PICK j \in 1..n - 1 : v.keys[i] = told[j]
        BY <3>3 DEF NothingMade
      <4>2. QED
        BY <1>1, <3>3, <4>1
    <3>4. QED
      BY <3>1, <3>2, <3>3
  <2> HIDE DEF e, w
  <2>4. QED
    BY <1>1, <2>1, <2>3 DEF NothingMade, e, w
<1>5. CASE e \in DeviceEvents
  <2>1. PICK k \in Keyboards : e \in {Added(k), Removed(k)}
    BY <1>5 DEF DeviceEvents
  <2>2. /\ w.keys = v.keys /\ (leds = "none" => w.lit = v.lit)
        /\ w.keyboards \subseteq v.keyboards
           \/ (e = Added(k) /\ w.keyboards = v.keyboards \cup {k})
    BY <2>1, AdditionIsRead, RemovalIsRead
  <2> HIDE DEF e, w
  <2>3. \A i \in 1..Len(w.keys) : \E j \in 1..n : w.keys[i] = told[j]
    BY <1>1, <2>2 DEF NothingMade
  <2>4. \A m \in w.keyboards : m \in keyboards \/ \E j \in 1..n : told[j] = Added(m)
    BY <1>1, <1>2, <2>2 DEF NothingMade, e
  <2>5. QED
    BY <2>2, <2>3, <2>4 DEF NothingMade, e, w
<1>6. QED
  BY <1>3, <1>4, <1>5

LEMMA DispatchReads ==
  ASSUME KeysTypes, LightsFollow
  PROVE  ReadTo(Dispatched, Len(told))
<1> DEFINE n == Len(told)
           base == [keyboards |-> keyboards, lit |-> lit, keys |-> <<>>]
           step == [k \in 1..n |-> [v \in SeatRec |-> OnEvent(v, told[k])]]
           Is(f) == f = [k \in 0..n |-> IF k = 0 THEN base ELSE OnEvent(f[k - 1], told[k])]
           s == CHOOSE f : Is(f)
<1>1. n \in Nat /\ \A k \in 1..n : told[k] \in KeyEvents \cup DeviceEvents
  BY ElementOfSeq DEF KeysTypes
<1>2. Dispatched = s[n]
  BY DEF Dispatched
<1>3. base \in SeatRec /\ base.keyboards = keyboards /\ base.lit = lit /\ base.keys = <<>>
  BY DEF SeatRec, LightsFollow, KeysTypes
<1> HIDE DEF base
<1>4. ASSUME NEW v \in SeatRec, NEW e \in KeyEvents \cup DeviceEvents
      PROVE  OnEvent(v, e) \in SeatRec
  <2>1. CASE e \in KeyEvents
    BY <2>1, KeyIsRead
  <2>2. CASE e \in DeviceEvents
    <3>1. PICK k \in Keyboards : e \in {Added(k), Removed(k)}
      BY <2>2 DEF DeviceEvents
    <3>2. QED
      BY <3>1, AdditionIsRead, RemovalIsRead
  <2>3. QED
    BY <2>1, <2>2
<1>5. Steps(n, SeatRec, base, step)
  <2>1. step \in [1..n -> [SeatRec -> SeatRec]]
    BY <1>1, <1>4
  <2> HIDE DEF step
  <2>2. QED
    BY <1>1, <1>3, <2>1 DEF Steps
<1>6. PICK f : Iterates(n, SeatRec, base, step, f)
  <2> HIDE DEF step, n
  <2>1. QED
    BY <1>5, IteratesExist
<1>7. Is(f)
  <2>1. f \in [0..n -> SeatRec] /\ f[0] = base
    BY <1>6 DEF Iterates
  <2>2. \A k \in 1..n : f[k] = OnEvent(f[k - 1], told[k])
    <3>1. \A k \in 1..n : f[k - 1] \in SeatRec /\ f[k] = step[k][f[k - 1]]
      <4> HIDE DEF step, n
      <4>1. QED
        BY <1>1, <1>6, IteratesStep
    <3>2. QED
      BY <3>1
  <2> HIDE DEF step
  <2>3. \A k \in 0..n : f[k] = IF k = 0 THEN base ELSE OnEvent(f[k - 1], told[k])
    BY <1>1, <2>1, <2>2
  <2>4. QED
    BY <2>1, <2>3
<1>8. Is(s)
  BY <1>7
<1> HIDE DEF s, step
<1> DEFINE T == {k \in 0..n : ReadTo(s[k], k)}
<1>9. 0 \in T
  <2>1. s[0] = base /\ 0 \in 0..n
    BY <1>1, <1>8
  <2>2. ASSUME NEW A PROVE Silent(told, 0, A) /\ \A x : ~LastWord(told, 0, A, x)
    BY DEF Silent, LastWord
  <2>3. Len(base.keys) = 0 /\ 1..0 = {}
    BY <1>3
  <2>4. ASSUME NEW A PROVE Silent(base.keys, 0, A) /\ \A x : ~LastWord(base.keys, 0, A, x)
    BY DEF Silent, LastWord
  <2>5. \A key \in Key : KeyRead(key, base, 0)
    BY <2>2, <2>3, <2>4 DEF KeyRead
  <2>6. \A k \in Keyboards : KeyboardRead(k, base, 0)
    BY <1>3, <2>2 DEF KeyboardRead
  <2>7. NothingMade(base, 0)
    BY <1>3, <2>3 DEF NothingMade
  <2>8. QED
    BY <1>3, <2>1, <2>5, <2>6, <2>7 DEF ReadTo
<1>10. ASSUME NEW k \in 1..n, k - 1 \in T PROVE k \in T
  <2>1. s[k] = OnEvent(s[k - 1], told[k]) /\ k \in 0..n
    <3>1. k \in 0..n /\ k # 0
      BY <1>1
    <3> HIDE DEF n, T
    <3>2. QED
      BY <1>8, <3>1
  <2> DEFINE v == s[k - 1]
             w == OnEvent(v, told[k])
  <2>2. ReadTo(v, k - 1)
    BY <1>10
  <2> HIDE DEF v
  <2>3. w \in SeatRec
    BY <1>1, <1>4, <2>2 DEF ReadTo
  <2>4. NothingMade(w, k)
    BY <2>2, NothingIsMade DEF ReadTo
  <2>5. \A key \in Key : KeyRead(key, w, k)
    BY <2>2, KeyReadsOn DEF ReadTo
  <2>6. \A m \in Keyboards : KeyboardRead(m, w, k)
    BY <2>2, KeyboardReadsOn DEF ReadTo
  <2>7. ReadTo(w, k)
    BY <2>3, <2>4, <2>5, <2>6 DEF ReadTo
  <2>8. QED
    BY <2>1, <2>7 DEF v
<1>11. n \in T
  <2>1. 0..n \subseteq T
    <3> HIDE DEF T
    <3>1. QED
      BY <1>1, <1>9, <1>10, Reaches
  <2>2. n \in 0..n
    BY <1>1
  <2> HIDE DEF T, n
  <2>3. QED
    BY <2>1, <2>2
<1>12. QED
  BY <1>2, <1>11

-----------------------------------------------------------------------------
\* The steps.  What was heard of what does not change is heard of it still.
LEMMA KeyIsHeardStill ==
  ASSUME UNCHANGED <<told, handed, held, felt>>, NEW key, KeyHeard(key)
  PROVE  KeyHeard(key)'
BY DEF KeyHeard

LEMMA KeyboardIsHeardStill ==
  ASSUME UNCHANGED <<told, plugged, keyboards, lit, locked>>, NEW k, KeyboardHeard(k)
  PROVE  KeyboardHeard(k)'
BY DEF KeyboardHeard

LEMMA OnlyTimersChange ==
  ASSUME KeysInv, UNCHANGED <<deviceVars, handed, xkbVars, repeating>>,
         repeated' \in {"none", repeating'}
  PROVE  KeysInv'
<1>1. UNCHANGED <<pressed, plugged, felt, told, suspended, keyboards, leds, lit, handed,
                  held, xkbDown, locked, unlocks, repeating>>
  BY DEF deviceVars, xkbVars
<1>2. KeysTypes' /\ XkbFollows' /\ LightsFollow'
  BY <1>1 DEF KeysInv, KeysTypes, XkbFollows, LightsFollow
<1>3. RepeatsHeld'
  BY <1>1 DEF KeysInv, RepeatsHeld
<1>4. Heard'
  <2>1. CASE suspended
    BY <1>1, <2>1 DEF KeysInv, Heard, Paused
  <2>2. CASE ~suspended
    <3>1. \A key \in Key : KeyHeard(key)'
      BY <1>1, <2>2, KeyIsHeardStill DEF KeysInv, Heard
    <3>2. \A k \in Keyboards : KeyboardHeard(k)'
      BY <1>1, <2>2, KeyboardIsHeardStill DEF KeysInv, Heard
    <3>3. QED
      BY <1>1, <2>2, <3>1, <3>2 DEF Heard
  <2>3. QED
    BY <2>1, <2>2
<1>5. QED
  BY <1>2, <1>3, <1>4 DEF KeysInv

LEMMA ToldIsTyped ==
  ASSUME KeysTypes, NEW x \in KeyEvents \cup DeviceEvents, told' = Append(told, x)
  PROVE  (told \in Seq(KeyEvents \cup DeviceEvents))'
<1> DEFINE E == KeyEvents \cup DeviceEvents
<1>1. told \in Seq(E) /\ x \in E
  BY DEF KeysTypes
<1> HIDE DEF E
<1>2. told' \in Seq(E)
  BY <1>1
<1>3. QED
  BY <1>2 DEF E, KeyEvents, DeviceEvents, Pressing, Releasing, Added, Removed, Key

LEMMA KeyIsTold ==
  ASSUME KeysInv, NEW key \in Key, ~suspended, NEW x \in {Pressing(key), Releasing(key)},
         told' = Append(told, x),
         felt' = IF x = Pressing(key) THEN felt \cup {key} ELSE felt \ {key},
         felt' \subseteq pressed', repeated' = "none",
         UNCHANGED <<plugged, suspended, keyboards, leds, lit, handed, xkbVars, repeatVars>>
  PROVE  KeysInv'
<1>1. UNCHANGED <<held, xkbDown, locked, unlocks, repeating>>
  BY DEF xkbVars, repeatVars
<1>2. x \in KeyEvents \cup DeviceEvents
  BY DEF KeyEvents
<1>3. KeysTypes'
  <2>1. (told \in Seq(KeyEvents \cup DeviceEvents))'
    BY <1>2, ToldIsTyped DEF KeysInv
  <2>2. QED
    BY <1>1, <2>1 DEF KeysInv, KeysTypes
<1>4. XkbFollows' /\ LightsFollow' /\ RepeatsHeld'
  BY <1>1 DEF KeysInv, XkbFollows, LightsFollow, RepeatsHeld
<1>5. ASSUME NEW m \in Key PROVE KeyHeard(m)'
  <2>1. x = Pressing(m) => m \in felt'
    BY EventsDiffer
  <2>2. x = Releasing(m) => m \notin felt'
    BY EventsDiffer
  <2>3. x \notin AboutKey(m) => (m \in felt' <=> m \in felt)
    BY DEF AboutKey
  <2>4. QED
    BY <1>1, <1>2, <2>1, <2>2, <2>3, TellsOfKey DEF KeysInv, Heard
<1>6. ASSUME NEW k \in Keyboards PROVE KeyboardHeard(k)'
  <2>1. x # Added(k) /\ x # Removed(k)
    BY EventsDiffer
  <2>2. QED
    BY <1>1, <1>2, <2>1, TellsOfKeyboard DEF KeysInv, Heard
<1>7. QED
  BY <1>3, <1>4, <1>5, <1>6 DEF KeysInv, Heard

\* A finger moves, and nothing is told of it.
LEMMA FingersChange ==
  ASSUME KeysInv, (felt \subseteq pressed)', repeated' = "none",
         UNCHANGED <<plugged, felt, told, suspended, keyboards, leds, lit, handed,
                     xkbVars, repeatVars>>
  PROVE  KeysInv'
<1>1. UNCHANGED <<held, xkbDown, locked, unlocks, repeating>>
  BY DEF xkbVars, repeatVars
<1>2. KeysTypes' /\ XkbFollows' /\ LightsFollow' /\ RepeatsHeld'
  BY <1>1 DEF KeysInv, KeysTypes, XkbFollows, LightsFollow, RepeatsHeld
<1>3. Heard'
  <2>1. CASE suspended
    BY <2>1 DEF KeysInv, Heard, Paused
  <2>2. CASE ~suspended
    <3>1. \A key \in Key : KeyHeard(key)'
      BY <1>1, <2>2, KeyIsHeardStill DEF KeysInv, Heard
    <3>2. \A k \in Keyboards : KeyboardHeard(k)'
      BY <1>1, <2>2, KeyboardIsHeardStill DEF KeysInv, Heard
    <3>3. QED
      BY <2>2, <3>1, <3>2 DEF Heard
  <2>3. QED
    BY <2>1, <2>2
<1>4. QED
  BY <1>2, <1>3 DEF KeysInv

LEMMA PressKeepsKeys ==
  ASSUME KeysInv, NEW key \in Key, PressKey(key) \/ ReleaseKey(key) PROVE KeysInv'
<1>1. CASE PressKey(key)
  <2>1. CASE suspended
    <3>1. (felt \subseteq pressed)'
      BY <1>1, <2>1 DEF PressKey, KeysInv, KeysTypes
    <3>2. QED
      BY <1>1, <2>1, <3>1, FingersChange DEF PressKey
  <2>2. CASE ~suspended
    <3> DEFINE x == Pressing(key)
    <3>1. /\ told' = Append(told, x) /\ felt' = felt \cup {key} /\ (felt \subseteq pressed)'
      BY <1>1, <2>2 DEF PressKey, KeysInv, KeysTypes
    <3>2. QED
      BY <1>1, <2>2, <3>1, KeyIsTold DEF PressKey
  <2>3. QED
    BY <2>1, <2>2
<1>2. CASE ReleaseKey(key)
  <2>1. CASE key \notin felt
    <3>1. (felt \subseteq pressed)'
      BY <1>2, <2>1 DEF ReleaseKey, KeysInv, KeysTypes
    <3>2. QED
      BY <1>2, <2>1, <3>1, FingersChange DEF ReleaseKey
  <2>2. CASE key \in felt
    <3> DEFINE x == Releasing(key)
    <3>1. ~suspended
      BY <2>2 DEF KeysInv, Heard, Paused
    <3>2. /\ told' = Append(told, x) /\ felt' = felt \ {key} /\ (felt \subseteq pressed)'
      BY <1>2, <2>2 DEF ReleaseKey, KeysInv, KeysTypes
    <3>3. x # Pressing(key)
      BY EventsDiffer
    <3>4. QED
      BY <1>2, <3>1, <3>2, <3>3, KeyIsTold DEF ReleaseKey
  <2>3. QED
    BY <2>1, <2>2
<1>3. QED
  BY <1>1, <1>2

LEMMA PlugKeepsKeys ==
  ASSUME KeysInv, NEW k \in Keyboards, Plug(k) PROVE KeysInv'
<1> DEFINE x == IF k \in plugged THEN Removed(k) ELSE Added(k)
<1>1. UNCHANGED <<pressed, felt, suspended, keyboards, leds, handed,
                  held, xkbDown, locked, unlocks, repeating>>
  BY DEF Plug, xkbVars, repeatVars
<1>2. /\ plugged' = IF k \in plugged THEN plugged \ {k} ELSE plugged \cup {k}
      /\ lit' = lit \ {k} /\ repeated' = "none"
      /\ told' = IF suspended THEN told ELSE Append(told, x)
  BY DEF Plug
<1>3. x \in KeyEvents \cup DeviceEvents
  BY DEF DeviceEvents
<1>4. KeysTypes'
  <2>1. (told \in Seq(KeyEvents \cup DeviceEvents))'
    <3>1. CASE suspended
      BY <1>2, <3>1 DEF KeysInv, KeysTypes
    <3>2. CASE ~suspended
      <4> HIDE DEF x
      <4>1. QED
        BY <1>2, <1>3, <3>2, ToldIsTyped DEF KeysInv
    <3>3. QED
      BY <3>1, <3>2
  <2>2. QED
    BY <1>1, <1>2, <2>1 DEF KeysInv, KeysTypes
<1>5. XkbFollows' /\ LightsFollow' /\ RepeatsHeld'
  BY <1>1, <1>2 DEF KeysInv, XkbFollows, LightsFollow, RepeatsHeld
<1>6. Heard'
  <2>1. CASE suspended
    BY <1>1, <1>2, <2>1 DEF KeysInv, Heard, Paused
  <2>2. CASE ~suspended
    <3>1. ASSUME NEW m \in Key PROVE KeyHeard(m)'
      <4>1. x # Pressing(m) /\ x # Releasing(m)
        BY EventsDiffer
      <4> HIDE DEF x
      <4>2. QED
        BY <1>1, <1>2, <1>3, <2>2, <4>1, TellsOfKey DEF KeysInv, Heard
    <3>2. ASSUME NEW m \in Keyboards PROVE KeyboardHeard(m)'
      <4>1. x = Added(m) => m \in plugged'
        BY <1>2, EventsDiffer
      <4>2. x = Removed(m) => m \notin plugged'
        BY <1>2, EventsDiffer
      <4>3. x \notin AboutKeyboard(m) => m # k
        BY DEF AboutKeyboard
      <4>4. m # k => (m \in plugged' <=> m \in plugged) /\ (m \in lit' <=> m \in lit)
        BY <1>2
      <4> HIDE DEF x
      <4>5. QED
        BY <1>1, <1>2, <1>3, <2>2, <4>1, <4>2, <4>3, <4>4, TellsOfKeyboard DEF KeysInv, Heard
    <3>3. QED
      BY <1>1, <2>2, <3>1, <3>2 DEF Heard
  <2>3. QED
    BY <2>1, <2>2
<1>7. QED
  BY <1>4, <1>5, <1>6 DEF KeysInv

LEMMA DispatchKeepsKeys ==
  ASSUME KeysInv, SeatDispatch PROVE KeysInv'
<1> DEFINE v == Dispatched
           n == Len(told)
<1>1. UNCHANGED <<pressed, plugged, felt, suspended, leds, held, xkbDown, locked, unlocks, repeating>>
  BY DEF SeatDispatch, xkbVars, repeatVars
<1>2. /\ keyboards' = v.keyboards /\ lit' = v.lit /\ handed' = v.keys /\ told' = <<>>
      /\ repeated' = "none" /\ handed = <<>>
  BY DEF SeatDispatch
<1>3. ReadTo(v, n)
  BY DispatchReads DEF KeysInv
<1> HIDE DEF v, n
<1>4. v.keyboards \in SUBSET Keyboards /\ v.lit \in SUBSET plugged /\ v.keys \in Seq(KeyEvents)
  BY <1>3 DEF ReadTo, SeatRec
<1>5. KeysTypes'
  <2>1. told' \in Seq(KeyEvents \cup DeviceEvents)
    BY <1>2
  <2>2. (told \in Seq(KeyEvents \cup DeviceEvents))' /\ (handed \in Seq(KeyEvents))'
    BY <1>2, <1>4, <2>1
       DEF KeyEvents, DeviceEvents, Pressing, Releasing, Added, Removed, Key
  <2>3. QED
    BY <1>1, <1>2, <1>4, <2>2 DEF KeysInv, KeysTypes
<1>6. XkbFollows' /\ RepeatsHeld'
  BY <1>1, <1>2 DEF KeysInv, XkbFollows, RepeatsHeld
<1>7. LightsFollow'
  BY <1>1, <1>2, <1>3, <1>4 DEF KeysInv, LightsFollow, ReadTo, NothingMade
<1>8. Len(told') = 0 /\ 1..0 = {} /\ Len(handed) = 0
  BY <1>2
<1>9. ASSUME NEW s, NEW A PROVE Silent(s, 0, A) /\ \A e : ~LastWord(s, 0, A, e)
  BY DEF Silent, LastWord
<1>10. Heard'
  <2>1. CASE suspended
    <3>1. Paused
      BY <2>1 DEF KeysInv, Heard
    <3>2. v.keyboards = {}
      BY <1>3, <3>1 DEF ReadTo, NothingMade, Paused, n
    <3>3. \A i \in 1..Len(v.keys) : \A x : v.keys[i] # Pressing(x)
      BY <1>3, <3>1 DEF ReadTo, NothingMade, Paused, n
    <3>4. QED
      BY <1>1, <1>2, <1>8, <2>1, <3>1, <3>2, <3>3 DEF Heard, Paused
  <2>2. CASE ~suspended
    <3>1. ASSUME NEW key \in Key PROVE KeyHeard(key)'
      <4>1. KeyHeard(key)
        BY <2>2 DEF KeysInv, Heard
      <4>2. KeyRead(key, v, n)
        BY <1>3 DEF ReadTo
      <4>3. QED
        BY <1>1, <1>2, <1>8, <1>9, <4>1, <4>2 DEF KeyHeard, KeyRead, n
    <3>2. ASSUME NEW k \in Keyboards PROVE KeyboardHeard(k)'
      <4> DEFINE A == AboutKeyboard(k)
      <4>1. KeyboardHeard(k)
        BY <2>2 DEF KeysInv, Heard
      <4>2. KeyboardRead(k, v, n)
        BY <1>3 DEF ReadTo
      <4>3. Silent(told, n, A) \/ LastWord(told, n, A, Added(k)) \/ LastWord(told, n, A, Removed(k))
        BY WordIsOne DEF AboutKeyboard, n, KeysInv, KeysTypes
      <4>4. (k \in v.keyboards <=> k \in plugged) /\ (k \in plugged => (k \in v.lit <=> locked))
        <5>1. CASE Silent(told, n, A)
          BY <4>1, <4>2, <5>1 DEF KeyboardHeard, KeyboardRead, n
        <5>2. CASE LastWord(told, n, A, Added(k))
          <6>1. k \in plugged /\ k \in v.keyboards
            BY <4>1, <4>2, <5>2 DEF KeyboardHeard, KeyboardRead, n
          <6>2. (leds = "on" => k \in v.lit) /\ (leds = "off" => k \notin v.lit)
            BY <4>2, <5>2, <6>1 DEF KeyboardRead
          <6>3. leds = "none" => k \notin v.lit
            BY <1>3 DEF KeysInv, LightsFollow, ReadTo, NothingMade
          <6>4. QED
            BY <6>1, <6>2, <6>3 DEF KeysInv, LightsFollow
        <5>3. CASE LastWord(told, n, A, Removed(k))
          BY <4>1, <4>2, <5>3 DEF KeyboardHeard, KeyboardRead, n
        <5>4. QED
          BY <4>3, <5>1, <5>2, <5>3
      <4>5. QED
        BY <1>1, <1>2, <1>8, <1>9, <4>4 DEF KeyboardHeard
    <3>3. QED
      BY <1>1, <2>2, <3>1, <3>2 DEF Heard
  <2>3. QED
    BY <2>1, <2>2
<1>11. QED
  BY <1>5, <1>6, <1>7, <1>10 DEF KeysInv

\* The lights are pushed when the lock changes.
LEMMA PushedLightsFollow ==
  ASSUME KeysInv, NEW x \in XkbRec, locked' = x.locked, PushLeds(x),
         UNCHANGED <<plugged, told, suspended, keyboards>>
  PROVE  LightsFollow' /\ (~suspended => \A k \in Keyboards : KeyboardHeard(k)')
<1>1. x.locked \in BOOLEAN /\ locked \in BOOLEAN
  BY DEF XkbRec, KeysInv, KeysTypes
<1>2. CASE x.locked = locked
  <2>1. UNCHANGED <<leds, lit, locked>>
    BY <1>2 DEF PushLeds
  <2>2. LightsFollow'
    BY <2>1 DEF KeysInv, LightsFollow
  <2>3. ~suspended => \A k \in Keyboards : KeyboardHeard(k)'
    BY <2>1, KeyboardIsHeardStill DEF KeysInv, Heard
  <2>4. QED
    BY <2>2, <2>3
<1>3. CASE x.locked # locked
  <2>1. /\ leds' = IF x.locked THEN "on" ELSE "off"
        /\ lit' = IF x.locked THEN lit \cup (keyboards \cap plugged) ELSE lit \ keyboards
    BY <1>3 DEF PushLeds
  <2>2. LightsFollow'
    BY <1>1, <2>1 DEF KeysInv, LightsFollow
  <2>3. ASSUME ~suspended, NEW k \in Keyboards PROVE KeyboardHeard(k)'
    <3>1. KeyboardHeard(k)
      BY <2>3 DEF KeysInv, Heard
    <3>2. k \in keyboards /\ k \in plugged => (k \in lit' <=> locked')
      BY <1>1, <2>1
    <3>3. QED
      BY <3>1, <3>2 DEF KeyboardHeard
  <2>4. QED
    BY <2>2, <2>3
<1>4. QED
  BY <1>2, <1>3

LEMMA XkbIsTyped ==
  ASSUME KeysInv
  PROVE  Xkb \in XkbRec /\ Xkb.down = xkbDown /\ Xkb.locked = locked
<1>1. xkbDown \in SUBSET Key
  BY ElementOfSeq DEF KeysInv, KeysTypes, XkbFollows, ToSet
<1>2. QED
  BY <1>1 DEF KeysInv, KeysTypes, Xkb, XkbRec

LEMMA HeldIsAdded ==
  ASSUME held \in Seq(Key), NEW key \in Key
  PROVE  LET next == IF Contains(held, key) THEN held ELSE Append(held, key) IN
         next \in Seq(Key) /\ ToSet(next) = ToSet(held) \cup {key}
<1>1. CASE Contains(held, key)
  BY <1>1 DEF Contains, ToSet
<1>2. CASE ~Contains(held, key)
  <2> DEFINE w == Append(held, key)
  <2>1. /\ w \in Seq(Key) /\ DOMAIN w = 1..Len(held) + 1 /\ w[Len(held) + 1] = key
        /\ \A i \in 1..Len(held) : w[i] = held[i]
        /\ DOMAIN held = 1..Len(held) /\ Len(held) \in Nat
    OBVIOUS
  <2>2. \A i : i \in DOMAIN w <=> i \in 1..Len(held) \/ i = Len(held) + 1
    BY <2>1
  <2>3. ToSet(w) = ToSet(held) \cup {key}
    <3> HIDE DEF w
    <3>1. QED
      BY <2>1, <2>2 DEF ToSet
  <2>4. QED
    BY <1>2, <2>1, <2>3
<1>3. QED
  BY <1>1, <1>2

\* What the keyboard and xkb make of one event.
LEMMA EventIsHandled ==
  ASSUME KeysInv, HandleKey, NEW key \in Key, NEW down \in BOOLEAN,
         Head(handed) = IF down THEN Pressing(key) ELSE Releasing(key)
  PROVE  /\ (held \in Seq(Key))' /\ locked' \in BOOLEAN /\ unlocks' \in BOOLEAN
         /\ ToSet(held)' = IF down THEN ToSet(held) \cup {key} ELSE ToSet(held) \ {key}
         /\ XkbFollows' /\ LightsFollow'
         /\ ~suspended => \A k \in Keyboards : KeyboardHeard(k)'
         /\ IF down /\ key \in Letters THEN repeating' = key
            ELSE IF ~down /\ repeating = key THEN repeating' = "none"
            ELSE repeating' = repeating
<1> DEFINE event == Head(handed)
           x == IF down THEN Down(Xkb, key) ELSE Up(Xkb, key)
<1>1. event.key = key /\ (event.kind = "press" <=> down) /\ (event.kind = "release" <=> ~down)
  BY DEF Pressing, Releasing
<1>2. /\ xkbDown' = x.down /\ locked' = x.locked /\ unlocks' = x.unlocks
      /\ held' = IF ~down THEN Without(key)
                 ELSE IF Contains(held, key) THEN held ELSE Append(held, key)
      /\ RepeaterOnKey(event) /\ PushLeds(x)
      /\ UNCHANGED <<plugged, told, suspended, keyboards>>
  BY <1>1 DEF HandleKey, Becomes
<1>3. Xkb \in XkbRec /\ Xkb.down = xkbDown /\ Xkb.locked = locked
  BY XkbIsTyped
<1>4. xkbDown = ToSet(held) /\ (CapsLock \in xkbDown => locked) /\ held \in Seq(Key)
  BY DEF KeysInv, XkbFollows, KeysTypes
<1>5. /\ held' \in Seq(Key)
      /\ ToSet(held') = IF down THEN ToSet(held) \cup {key} ELSE ToSet(held) \ {key}
  <2>1. CASE down
    BY <1>2, <1>4, <2>1, HeldIsAdded
  <2>2. CASE ~down
    BY <1>2, <1>4, <2>2, KeyIsLetGo
  <2>3. QED
    BY <2>1, <2>2
<1>6. /\ x \in XkbRec
      /\ x.down = IF down THEN xkbDown \cup {key} ELSE xkbDown \ {key}
      /\ CapsLock \in x.down => x.locked
  <2>1. CASE down
    BY <1>3, <1>4, <2>1, KeyGoesDown
  <2>2. CASE ~down
    BY <1>3, <1>4, <2>2, KeyGoesUp
  <2>3. QED
    BY <2>1, <2>2
<1>7. /\ IF down /\ key \in Letters THEN repeating' = key
         ELSE IF ~down /\ repeating = key THEN repeating' = "none"
         ELSE repeating' = repeating
  <2> HIDE DEF event
  <2>1. QED
    BY <1>1, <1>2 DEF RepeaterOnKey, ShouldRepeat, Arm, Disarm, repeatVars
<1> HIDE DEF x
<1>8. LightsFollow' /\ (~suspended => \A k \in Keyboards : KeyboardHeard(k)')
  BY <1>2, <1>6, PushedLightsFollow
<1>9. locked' \in BOOLEAN /\ unlocks' \in BOOLEAN
  BY <1>2, <1>6 DEF XkbRec
<1>10. XkbFollows'
  BY <1>2, <1>4, <1>5, <1>6 DEF XkbFollows
<1>11. (held \in Seq(Key))'
  BY <1>5 DEF Key
<1>12. QED
  BY <1>5, <1>7, <1>8, <1>9, <1>10, <1>11

LEMMA HandleKeepsKeys ==
  ASSUME KeysInv, HandleKey PROVE KeysInv'
<1> DEFINE t == Tail(handed)
           E == KeyEvents
<1>1. /\ handed # <<>> /\ handed' = t /\ repeated' = "none"
      /\ UNCHANGED <<pressed, plugged, felt, told, suspended, keyboards>>
  BY DEF HandleKey
<1>2. handed \in Seq(E)
  BY DEF KeysInv, KeysTypes
<1>3. /\ t \in Seq(E) /\ Head(handed) \in E
      /\ \A i \in 1..Len(t) : \E j \in 1..Len(handed) : t[i] = handed[j]
      /\ \E j \in 1..Len(handed) : Head(handed) = handed[j]
      /\ Len(t) \in Nat
  <2> HIDE DEF E
  <2>1. QED
    BY <1>1, <1>2, WordIsTaken
<1>4. ASSUME NEW A
      PROVE  /\ Silent(handed, Len(handed), A) <=> Silent(t, Len(t), A) /\ Head(handed) \notin A
             /\ \A e : LastWord(handed, Len(handed), A, e) <=>
                         IF Silent(t, Len(t), A) THEN Head(handed) \in A /\ Head(handed) = e
                         ELSE LastWord(t, Len(t), A, e)
  <2> HIDE DEF E
  <2>1. QED
    BY <1>1, <1>2, WordIsTaken
<1> HIDE DEF t
<1>5. PICK key \in Key : Head(handed) \in {Pressing(key), Releasing(key)}
  BY <1>3 DEF KeyEvents
<1>6. PICK down \in BOOLEAN : Head(handed) = IF down THEN Pressing(key) ELSE Releasing(key)
  BY <1>5
<1>7. /\ (held \in Seq(Key))' /\ locked' \in BOOLEAN /\ unlocks' \in BOOLEAN
      /\ ToSet(held)' = IF down THEN ToSet(held) \cup {key} ELSE ToSet(held) \ {key}
      /\ XkbFollows' /\ LightsFollow'
      /\ ~suspended => \A k \in Keyboards : KeyboardHeard(k)'
      /\ IF down /\ key \in Letters THEN repeating' = key
         ELSE IF ~down /\ repeating = key THEN repeating' = "none"
         ELSE repeating' = repeating
  BY <1>6, EventIsHandled
<1>8. suspended => ~down
  BY <1>3, <1>6 DEF KeysInv, Heard, Paused
<1>9. KeysTypes'
  <2>1. (handed \in Seq(KeyEvents))'
    BY <1>1, <1>3 DEF KeyEvents, Pressing, Releasing, Key
  <2>2. (told \in Seq(KeyEvents \cup DeviceEvents))'
    BY <1>1 DEF KeysInv, KeysTypes
  <2>3. QED
    BY <1>1, <1>7, <2>1, <2>2 DEF KeysInv, KeysTypes
<1>10. RepeatsHeld'
  BY <1>1, <1>7, <1>8 DEF KeysInv, RepeatsHeld
<1>11. Heard'
  <2>1. CASE suspended
    BY <1>1, <1>3, <2>1 DEF KeysInv, Heard, Paused
  <2>2. CASE ~suspended
    <3>1. ASSUME NEW m \in Key PROVE KeyHeard(m)'
      <4> DEFINE A == AboutKey(m)
      <4>1. KeyHeard(m)
        BY <2>2 DEF KeysInv, Heard
      <4>2. /\ Silent(handed, Len(handed), A) <=> Silent(t, Len(t), A) /\ Head(handed) \notin A
            /\ \A e : LastWord(handed, Len(handed), A, e) <=>
                        IF Silent(t, Len(t), A) THEN Head(handed) \in A /\ Head(handed) = e
                        ELSE LastWord(t, Len(t), A, e)
        BY <1>4
      <4>3. \A e : LastWord(t, Len(t), A, e) => ~Silent(t, Len(t), A)
        BY <1>3, WordIsOne
      <4>4. /\ m = key => Head(handed) \in A
            /\ m # key => Head(handed) \notin A
        BY <1>6, EventsDiffer DEF AboutKey
      <4>5. m # key => (m \in ToSet(held)' <=> m \in ToSet(held))
        BY <1>7
      <4>6. m = key => (m \in ToSet(held)' <=> down)
        BY <1>7
      <4> HIDE DEF A
      <4>7. ASSUME Silent(told, Len(told), A)
            PROVE  /\ LastWord(t, Len(t), A, Pressing(m)) => m \in felt
                   /\ LastWord(t, Len(t), A, Releasing(m)) => m \notin felt
                   /\ Silent(t, Len(t), A) => (m \in ToSet(held)' <=> m \in felt)
        <5>1. /\ LastWord(handed, Len(handed), A, Pressing(m)) => m \in felt
              /\ LastWord(handed, Len(handed), A, Releasing(m)) => m \notin felt
              /\ Silent(handed, Len(handed), A) => (m \in ToSet(held) <=> m \in felt)
          BY <4>1, <4>7 DEF KeyHeard, A
        <5>2. CASE m = key
          BY <1>6, <4>2, <4>3, <4>4, <4>6, <5>1, <5>2
        <5>3. CASE m # key
          BY <4>2, <4>3, <4>4, <4>5, <5>1, <5>3
        <5>4. QED
          BY <5>2, <5>3
      <4>8. QED
        BY <1>1, <4>1, <4>7 DEF KeyHeard, A
    <3>2. QED
      BY <1>1, <1>7, <2>2, <3>1 DEF Heard
  <2>3. QED
    BY <2>1, <2>2
<1>12. QED
  BY <1>7, <1>9, <1>10, <1>11 DEF KeysInv

LEMMA ReloadKeepsKeys ==
  ASSUME KeysInv, Reload PROVE KeysInv'
<1> DEFINE x == SetLeds(Replayed, locked)
<1>1. /\ xkbDown' = x.down /\ locked' = x.locked /\ unlocks' = x.unlocks /\ repeated' = "none"
      /\ UNCHANGED <<pressed, plugged, felt, told, suspended, keyboards, leds, lit, handed,
                     held, repeating>>
  BY DEF Reload, Becomes, deviceVars, repeatVars
<1>2. x \in XkbRec /\ x.down = ToSet(held) /\ x.locked = locked
  <2>1. held \in Seq(Key) /\ locked \in BOOLEAN
    BY DEF KeysInv, KeysTypes
  <2>2. /\ Replayed \in XkbRec /\ Replayed.down = ToSet(held)
        /\ Replayed.locked <=> CapsLock \in ToSet(held)
    BY <2>1, ReplayHolds
  <2>3. CapsLock \in Replayed.down => Replayed.locked = locked
    BY <2>1, <2>2 DEF KeysInv, XkbFollows, XkbRec
  <2>4. QED
    BY <2>1, <2>2, <2>3, LockIsTapped
<1> HIDE DEF x
<1>3. UNCHANGED <<xkbDown, locked>> /\ unlocks' \in BOOLEAN
  BY <1>1, <1>2 DEF KeysInv, XkbFollows, XkbRec
<1>4. KeysTypes' /\ XkbFollows' /\ LightsFollow' /\ RepeatsHeld'
  BY <1>1, <1>3 DEF KeysInv, KeysTypes, XkbFollows, LightsFollow, RepeatsHeld
<1>5. Heard'
  <2>1. CASE suspended
    BY <1>1, <2>1 DEF KeysInv, Heard, Paused
  <2>2. CASE ~suspended
    <3>1. \A key \in Key : KeyHeard(key)'
      BY <1>1, <2>2, KeyIsHeardStill DEF KeysInv, Heard
    <3>2. \A k \in Keyboards : KeyboardHeard(k)'
      BY <1>1, <1>3, <2>2, KeyboardIsHeardStill DEF KeysInv, Heard
    <3>3. QED
      BY <1>1, <2>2, <3>1, <3>2 DEF Heard
  <2>3. QED
    BY <2>1, <2>2
<1>6. QED
  BY <1>4, <1>5 DEF KeysInv

\* The words of a finite set are a finite set.
LEMMA WordsAreFinite ==
  ASSUME NEW S, IsFiniteSet(S)
  PROVE  /\ IsFiniteSet({Added(x) : x \in S}) /\ IsFiniteSet({Removed(x) : x \in S})
         /\ IsFiniteSet({Releasing(x) : x \in S})
<1>1. ASSUME NEW f, f = [x \in S |-> f[x]] PROVE IsFiniteSet({f[x] : x \in S})
  <2> DEFINE T == {f[x] : x \in S}
  <2>1. f \in Surjection(S, T)
    BY <1>1 DEF Surjection
  <2> HIDE DEF T
  <2>2. IsFiniteSet(T)
    BY <2>1, FS_Surjection
  <2>3. QED
    BY <2>2 DEF T
<1> DEFINE a == [x \in S |-> Added(x)]
           r == [x \in S |-> Removed(x)]
           l == [x \in S |-> Releasing(x)]
<1>2. IsFiniteSet({a[x] : x \in S})
  BY <1>1
<1>3. IsFiniteSet({r[x] : x \in S})
  BY <1>1
<1>4. IsFiniteSet({l[x] : x \in S})
  BY <1>1
<1>5. /\ {a[x] : x \in S} = {Added(x) : x \in S} /\ {r[x] : x \in S} = {Removed(x) : x \in S}
      /\ {l[x] : x \in S} = {Releasing(x) : x \in S}
  OBVIOUS
<1>6. QED
  BY <1>2, <1>3, <1>4, <1>5

LEMMA SuspendKeepsKeys ==
  ASSUME KeysInv, Suspend PROVE KeysInv'
<1>1. /\ suspended' = TRUE /\ keyboards' = {} /\ felt' = {} /\ repeated' = "none"
      /\ repeating' = "none" /\ handed = <<>>
      /\ UNCHANGED <<pressed, plugged, leds, lit, handed, held, xkbDown, locked, unlocks>>
  BY DEF Suspend, xkbVars, Cancel, Disarm
<1>2. PICK releases \in SUBSET ToSet(held) :
        told' = SetToSeq({Releasing(key) : key \in releases})
                  \o SetToSeq({Removed(k) : k \in keyboards})
  BY DEF Suspend
<1> DEFINE R == {Releasing(key) : key \in releases}
           D == {Removed(k) : k \in keyboards}
           E == KeyEvents \cup DeviceEvents
           r == SetToSeq(R)
           d == SetToSeq(D)
<1>3. releases \subseteq Key
  BY ElementOfSeq DEF KeysInv, KeysTypes, ToSet
<1>4. IsFiniteSet(R)
  <2>1. held \in Seq(Key) /\ Len(held) \in Nat /\ held \in Surjection(1..Len(held), ToSet(held))
    BY DEF KeysInv, KeysTypes, ToSet, Surjection
  <2>2. IsFiniteSet(1..Len(held))
    BY <2>1, FS_Interval
  <2>3. IsFiniteSet(ToSet(held))
    BY <2>1, <2>2, FS_Surjection
  <2>4. IsFiniteSet(releases)
    BY <2>3, FS_Subset
  <2>5. QED
    BY <2>4, WordsAreFinite
<1>5. IsFiniteSet(D)
  <2>1. IsFiniteSet(keyboards)
    BY KeysAssumption, FS_Subset DEF KeysInv, KeysTypes
  <2>2. QED
    BY <2>1, WordsAreFinite
<1>6. R \subseteq E /\ D \subseteq E
  BY <1>3 DEF KeysInv, KeysTypes, KeyEvents, DeviceEvents
<1>7. \A e \in R \cup D : \A y : e # Pressing(y) /\ e # Added(y)
  BY EventsDiffer
<1> HIDE DEF R, D, E
<1>8. r \in Seq(R) /\ d \in Seq(D)
  BY <1>4, <1>5, SetIsTold
<1>9. r \in Seq(R \cup D) /\ d \in Seq(R \cup D)
  BY <1>8
<1> HIDE DEF r, d
<1>10. told' = r \o d
  BY <1>2 DEF r, d, R, D
<1>11. told' \in Seq(R \cup D)
  BY <1>9, <1>10
<1>12. \A i \in 1..Len(told') : told'[i] \in R \cup D
  BY <1>11
<1>13. told' \in Seq(E)
  BY <1>6, <1>11
<1>14. KeysTypes'
  <2>1. (told \in Seq(KeyEvents \cup DeviceEvents))'
    BY <1>13 DEF E, KeyEvents, DeviceEvents, Pressing, Releasing, Added, Removed, Key
  <2>2. QED
    BY <1>1, <2>1 DEF KeysInv, KeysTypes
<1>15. XkbFollows' /\ LightsFollow' /\ RepeatsHeld'
  BY <1>1 DEF KeysInv, XkbFollows, LightsFollow, RepeatsHeld
<1>16. \A i \in 1..Len(told') : \A y : told'[i] # Pressing(y) /\ told'[i] # Added(y)
  BY <1>7, <1>12
<1>17. Len(handed') = 0
  BY <1>1
<1>18. Paused'
  BY <1>1, <1>16, <1>17 DEF Paused
<1>19. QED
  BY <1>1, <1>14, <1>15, <1>18 DEF KeysInv, Heard

LEMMA ResumeKeepsKeys ==
  ASSUME KeysInv, Resume PROVE KeysInv'
<1> DEFINE D == {Added(k) : k \in plugged}
           E == KeyEvents \cup DeviceEvents
           x == SetLeds(LetGo, locked)
           d == SetToSeq(D)
<1>1. /\ suspended /\ suspended' = FALSE /\ held' = <<>> /\ repeated' = "none"
      /\ told' = told \o d
      /\ xkbDown' = x.down /\ locked' = x.locked /\ unlocks' = x.unlocks
      /\ UNCHANGED <<pressed, plugged, felt, keyboards, leds, handed, repeating>>
  BY DEF Resume, Becomes, repeatVars
<1>2. PICK dark \in SUBSET lit : lit' = lit \ dark
  BY DEF Resume
<1>3. x \in XkbRec /\ x.down = {} /\ x.locked = locked
  <2>1. held \in Seq(Key) /\ locked \in BOOLEAN /\ xkbDown = ToSet(held)
    BY DEF KeysInv, KeysTypes, XkbFollows
  <2>2. LetGo \in XkbRec /\ LetGo.down = {}
    BY <2>1, XkbIsTyped, ReleaseLetsGo
  <2>3. QED
    BY <2>1, <2>2, LockIsTapped
<1>4. IsFiniteSet(D)
  <2>1. IsFiniteSet(plugged)
    BY KeysAssumption, FS_Subset DEF KeysInv, KeysTypes
  <2>2. QED
    BY <2>1, WordsAreFinite
<1>5. D \subseteq E /\ \A k \in plugged : Added(k) \in D
  BY DEF KeysInv, KeysTypes, DeviceEvents
<1>6. \A e \in D : \E k \in plugged : e = Added(k)
  OBVIOUS
<1> HIDE DEF D, E, x
<1>7. d \in Seq(D) /\ \A e \in D : \E i \in 1..Len(d) : d[i] = e
  BY <1>4, SetIsTold
<1>8. told \in Seq(E)
  BY DEF E, KeysInv, KeysTypes
<1>9. d \in Seq(E)
  BY <1>5, <1>7
<1> HIDE DEF d
<1> DEFINE n == Len(told)
           m == Len(d)
<1>10. /\ told' \in Seq(E) /\ Len(told') = n + m /\ n \in Nat /\ m \in Nat
       /\ \A i \in 1..n : told'[i] = told[i]
       /\ \A i \in 1..m : told'[n + i] = d[i]
       /\ \A i \in 1..Len(told') : i <= n \/ told'[i] = d[i - n]
  BY <1>1, <1>8, <1>9
<1>11. \A i \in 1..m : d[i] \in D
  BY <1>7, ElementOfSeq
<1>12. ASSUME NEW i \in 1..Len(told')
       PROVE  (i \in 1..n /\ told'[i] = told[i]) \/ (i \notin 1..n /\ told'[i] \in D)
  <2>1. CASE i \in 1..n
    BY <1>10, <2>1
  <2>2. CASE i \notin 1..n
    <3>1. i - n \in 1..m /\ ~(i <= n)
      BY <1>10, <2>2
    <3>2. told'[i] = d[i - n]
      BY <1>10, <3>1
    <3>3. QED
      BY <1>11, <2>2, <3>1, <3>2
  <2>3. QED
    BY <2>1, <2>2
<1>13. Paused
  BY <1>1 DEF KeysInv, Heard
<1>14. KeysTypes' /\ XkbFollows' /\ RepeatsHeld' /\ LightsFollow'
  <2>1. (told \in Seq(KeyEvents \cup DeviceEvents))'
    BY <1>10 DEF E, KeyEvents, DeviceEvents, Pressing, Releasing, Added, Removed, Key
  <2>2. ToSet(held') = {} /\ held' \in Seq(Key)
    BY <1>1 DEF ToSet
  <2>3. (held \in Seq(Key))' /\ (handed \in Seq(KeyEvents))'
    BY <1>1, <2>2 DEF Key, KeysInv, KeysTypes
  <2>4. locked' \in BOOLEAN /\ unlocks' \in BOOLEAN
    BY <1>1, <1>3 DEF XkbRec
  <2>5. KeysTypes'
    BY <1>1, <2>1, <2>3, <2>4 DEF KeysInv, KeysTypes
  <2>6. XkbFollows'
    BY <1>1, <1>3, <2>2 DEF XkbFollows
  <2>7. RepeatsHeld'
    BY <1>1 DEF KeysInv, RepeatsHeld
  <2>8. LightsFollow'
    BY <1>1, <1>2, <1>3 DEF KeysInv, LightsFollow
  <2>9. QED
    BY <2>5, <2>6, <2>7, <2>8
<1>15. ASSUME NEW key \in Key PROVE KeyHeard(key)'
  <2> DEFINE A == AboutKey(key)
  <2>1. \A i \in 1..Len(told') : told'[i] # Pressing(key)
    BY <1>6, <1>12, <1>13, EventsDiffer DEF Paused
  <2>2. ~LastWord(told', Len(told'), A, Pressing(key))
    BY <2>1 DEF LastWord
  <2>3. ~LastWord(handed', Len(handed'), A, Pressing(key))
    BY <1>1, <1>13 DEF LastWord, Paused
  <2>4. ToSet(held') = {} /\ felt' = {}
    BY <1>1, <1>13 DEF ToSet, Paused
  <2>5. QED
    BY <2>2, <2>3, <2>4 DEF KeyHeard
<1>16. ASSUME NEW k \in Keyboards PROVE KeyboardHeard(k)'
  <2> DEFINE A == AboutKeyboard(k)
  <2>1. ASSUME k \in plugged
        PROVE  \E j \in 1..Len(told') : j \notin 1..n /\ told'[j] = Added(k)
    <3>1. PICK i \in 1..m : d[i] = Added(k)
      BY <1>5, <1>7, <2>1
    <3>2. n + i \in 1..Len(told') /\ n + i \notin 1..n
      BY <1>10, <3>1
    <3>3. told'[n + i] = Added(k)
      BY <1>10, <3>1
    <3>4. QED
      BY <3>2, <3>3
  <2>2. LastWord(told', Len(told'), A, Added(k)) => k \in plugged
    <3>1. SUFFICES ASSUME NEW i \in 1..Len(told'), told'[i] = Added(k) PROVE k \in plugged
      BY DEF LastWord
    <3>2. told'[i] \in D
      BY <1>12, <1>13, <3>1 DEF Paused
    <3>3. QED
      BY <1>6, <3>1, <3>2, EventsDiffer
  <2>3. LastWord(told', Len(told'), A, Removed(k)) => k \notin plugged
    <3>1. SUFFICES ASSUME NEW i \in 1..Len(told'), told'[i] = Removed(k), k \in plugged,
                          \A j \in 1..Len(told') : i < j => told'[j] \notin A
                   PROVE  FALSE
      BY DEF LastWord
    <3>2. i \in 1..n
      BY <1>6, <1>12, <3>1, EventsDiffer
    <3>3. PICK j \in 1..Len(told') : j \notin 1..n /\ told'[j] = Added(k)
      BY <2>1, <3>1
    <3>4. i < j
      BY <1>10, <3>2, <3>3
    <3>5. QED
      BY <3>1, <3>3, <3>4 DEF AboutKeyboard
  <2>4. Silent(told', Len(told'), A) => k \notin plugged
    BY <2>1 DEF Silent, AboutKeyboard
  <2>5. keyboards' = {} /\ plugged' = plugged
    BY <1>1, <1>13 DEF Paused
  <2>6. QED
    BY <2>2, <2>3, <2>4, <2>5 DEF KeyboardHeard
<1>17. QED
  BY <1>1, <1>14, <1>15, <1>16 DEF KeysInv, Heard

LEMMA KeysStep ==
  ASSUME KeysInv, [KeysNext]_keysVars PROVE KeysInv'
<1>1. CASE TimerExpires
  BY <1>1, OnlyTimersChange DEF TimerExpires
<1>2. CASE RepeaterDispatch
  <2>1. /\ UNCHANGED <<deviceVars, handed, xkbVars, repeating>> /\ repeated' = repeating
    BY <1>2 DEF RepeaterDispatch
  <2>2. QED
    BY <2>1, OnlyTimersChange
<1>3. CASE \E key \in Key : PressKey(key) \/ ReleaseKey(key)
  BY <1>3, PressKeepsKeys
<1>4. CASE \E k \in Keyboards : Plug(k)
  BY <1>4, PlugKeepsKeys
<1>5. CASE SeatDispatch
  BY <1>5, DispatchKeepsKeys
<1>6. CASE HandleKey
  BY <1>6, HandleKeepsKeys
<1>7. CASE Reload
  BY <1>7, ReloadKeepsKeys
<1>8. CASE Suspend
  BY <1>8, SuspendKeepsKeys
<1>9. CASE Resume
  BY <1>9, ResumeKeepsKeys
<1>10. CASE UNCHANGED keysVars
  <2>1. /\ UNCHANGED <<deviceVars, handed, xkbVars, repeating>> /\ repeated' = repeated
    BY <1>10 DEF keysVars, repeatVars
  <2>2. repeated \in {"none", repeating}
    BY DEF KeysInv, RepeatsHeld
  <2>3. QED
    BY <2>1, <2>2, OnlyTimersChange DEF repeatVars
<1>11. QED
  BY <1>1, <1>2, <1>3, <1>4, <1>5, <1>6, <1>7, <1>8, <1>9, <1>10 DEF KeysNext

LEMMA KeysAreTrue == KeysInv => KeysFollowFingers
<1> SUFFICES ASSUME KeysInv PROVE KeysFollowFingers
  OBVIOUS
<1>1. Len(told) \in Nat /\ Len(handed) \in Nat /\ held \in Seq(Key)
  BY DEF KeysInv, KeysTypes
<1>2. ASSUME repeated # "none", repeated \notin pressed
      PROVE  Contains(told \o handed, Releasing(repeated))
  <2> DEFINE key == repeated
             A == AboutKey(key)
  <2>1. key \in ToSet(held) /\ ~suspended
    BY <1>2 DEF KeysInv, RepeatsHeld
  <2>2. key \in Key
    BY <1>1, <2>1, ElementOfSeq DEF ToSet
  <2>3. KeyHeard(key)
    BY <2>1, <2>2 DEF KeysInv, Heard
  <2>4. key \notin felt
    BY <1>2 DEF KeysInv, KeysTypes
  <2> HIDE DEF key
  <2>5. \/ LastWord(told, Len(told), A, Releasing(key))
        \/ LastWord(handed, Len(handed), A, Releasing(key))
    <3>1. CASE Silent(told, Len(told), A)
      <4>1. \/ Silent(handed, Len(handed), A) \/ LastWord(handed, Len(handed), A, Pressing(key))
            \/ LastWord(handed, Len(handed), A, Releasing(key))
        BY <1>1, WordIsOne DEF AboutKey
      <4>2. QED
        BY <2>1, <2>3, <2>4, <3>1, <4>1 DEF KeyHeard
    <3>2. CASE ~Silent(told, Len(told), A)
      <4>1. \/ LastWord(told, Len(told), A, Pressing(key))
            \/ LastWord(told, Len(told), A, Releasing(key))
        BY <1>1, <3>2, WordIsOne DEF AboutKey
      <4>2. QED
        BY <2>3, <2>4, <4>1 DEF KeyHeard
    <3>3. QED
      BY <3>1, <3>2
  <2> DEFINE E == KeyEvents \cup DeviceEvents
             all == told \o handed
  <2>6. told \in Seq(E) /\ handed \in Seq(E)
    BY DEF KeysInv, KeysTypes
  <2> HIDE DEF E
  <2>7. /\ \A i \in 1..Len(told) : i \in 1..Len(all) /\ all[i] = told[i]
        /\ \A i \in 1..Len(handed) : Len(told) + i \in 1..Len(all)
                                     /\ all[Len(told) + i] = handed[i]
    BY <2>6
  <2>8. \E i \in 1..Len(all) : all[i] = Releasing(key)
    <3> HIDE DEF all
    <3>1. QED
      BY <2>5, <2>7 DEF LastWord
  <2>9. QED
    BY <2>8 DEF Contains, key
<1>3. ASSUME told = <<>>, handed = <<>>, ~suspended
      PROVE  /\ xkbDown = felt /\ ToSet(held) = felt
             /\ keyboards = plugged
             /\ lit = IF locked THEN plugged ELSE {}
  <2>1. \A A : Silent(told, Len(told), A) /\ Silent(handed, Len(handed), A)
    <3>1. Len(told) = 0 /\ Len(handed) = 0
      BY <1>3
    <3>2. QED
      BY <3>1 DEF Silent
  <2>2. \A key \in Key : key \in ToSet(held) <=> key \in felt
    BY <1>3, <2>1 DEF KeysInv, Heard, KeyHeard
  <2>3. ToSet(held) \subseteq Key /\ felt \subseteq Key
    BY <1>1, ElementOfSeq DEF ToSet, KeysInv, KeysTypes
  <2>4. \A k \in Keyboards : /\ k \in keyboards <=> k \in plugged
                             /\ k \in plugged => (k \in lit <=> locked)
    BY <1>3, <2>1 DEF KeysInv, Heard, KeyboardHeard
  <2>5. /\ keyboards \subseteq Keyboards /\ plugged \subseteq Keyboards /\ lit \subseteq plugged
        /\ xkbDown = ToSet(held)
    BY DEF KeysInv, KeysTypes, LightsFollow, XkbFollows
  <2>6. QED
    BY <2>2, <2>3, <2>4, <2>5
<1>4. QED
  BY <1>2, <1>3 DEF KeysFollowFingers

-----------------------------------------------------------------------------
(* The canvas.                                                             *)

LEMMA IntervalsAre ==
  ASSUME NEW lo \in Int, NEW hi \in Int
  PROVE  \A x : x \in lo..hi <=> x \in Int /\ lo <= x /\ x <= hi
OBVIOUS

LEMMA BytesAre == \A x : x \in Byte <=> x \in Int /\ 0 <= x /\ x <= 255
<1> DEFINE lo == 0
           hi == 255
<1>1. lo \in Int /\ hi \in Int
  OBVIOUS
<1> HIDE DEF lo, hi
<1>2. \A x : x \in lo..hi <=> x \in Int /\ lo <= x /\ x <= hi
  BY <1>1, IntervalsAre
<1>3. QED
  BY <1>2, Zenon DEF Byte, lo, hi

\* A byte of a byte is a byte no larger than either is full for, and more of
\* one is no less.
LEMMA ScaleIsAByte ==
  ASSUME NEW c \in Byte, NEW n \in Byte
  PROVE  /\ Scale(c, n) \in 0..n
         /\ n = 255 => Scale(c, n) = c
         /\ n = 0 => Scale(c, n) = 0
         /\ \A d \in Byte : c <= d => Scale(c, n) <= Scale(d, n)
<1>0. \A k, l, m \in Nat : k <= l => k * m <= l * m
  OBVIOUS
<1>6. c \in Nat /\ c <= 255 /\ n \in Nat /\ n <= 255
  BY BytesAre
<1>1. ASSUME NEW k \in Byte
      PROVE  /\ k * n \in Nat /\ Scale(k, n) \in Nat
             /\ Scale(k, n) * 255 <= k * n + 127 /\ k * n + 127 < Scale(k, n) * 255 + 255
  <2>1. k * n \in Nat
    <3>1. k \in Nat
      BY BytesAre
    <3>2. QED
      BY <1>6, <3>1
  <2> DEFINE p == k * n
  <2> HIDE DEF p
  <2>2. (p + 127) \div 255 \in Nat /\ ((p + 127) \div 255) * 255 <= p + 127
        /\ p + 127 < ((p + 127) \div 255 + 1) * 255
    <3>1. p + 127 \in Nat /\ 255 \in Nat \ {0}
      BY <2>1 DEF p
    <3>2. QED
      BY <3>1, DivisionBounds
  <2>3. QED
    BY <2>1, <2>2 DEF p, Scale
<1>2. Scale(c, n) <= n
  <2>1. c * n <= 255 * n
    BY <1>0, <1>6
  <2>2. QED
    BY <1>1, <1>6, <2>1
<1>3. n = 255 => Scale(c, n) = c
  <2> DEFINE k == Scale(c, n)
             p == c * n
  <2>1. k \in Nat /\ k * 255 <= p + 127 /\ p + 127 < k * 255 + 255
    BY <1>1
  <2>2. n = 255 => p = c * 255
    BY <1>6
  <2> HIDE DEF k, p
  <2>3. n = 255 => k = c
    BY <1>6, <2>1, <2>2
  <2>4. QED
    BY <2>3 DEF k
<1>4. ASSUME NEW d \in Byte, c <= d PROVE Scale(c, n) <= Scale(d, n)
  <2>0. d \in Nat
    BY BytesAre
  <2>1. c * n <= d * n
    BY <1>0, <1>4, <1>6, <2>0
  <2> DEFINE k == Scale(c, n)
             l == Scale(d, n)
             p == c * n
             q == d * n
  <2>2. /\ k \in Nat /\ k * 255 <= p + 127 /\ l \in Nat /\ q + 127 < l * 255 + 255
        /\ p \in Nat /\ q \in Nat
    BY <1>1
  <2>3. p <= q
    BY <2>1
  <2> HIDE DEF k, l, p, q
  <2>4. k <= l
    BY <2>2, <2>3
  <2>5. QED
    BY <2>4 DEF k, l
<1>7. Scale(c, n) \in 0..n
  BY <1>1, <1>2, <1>6
<1>8. n = 0 => Scale(c, n) = 0
  BY <1>1, <1>2
<1>5. QED
  BY <1>3, <1>4, <1>7, <1>8

\* Where one of 256 bytes is near an alpha, the nearest is.
LEMMA NearestIsNear ==
  ASSUME NEW alpha \in Nat, NEW q \in Byte,
         alpha - q * 257 <= 128 /\ q * 257 - alpha <= 128
  PROVE  /\ Nearest8(alpha) \in Byte
         /\ alpha - Nearest8(alpha) * 257 <= 128 /\ Nearest8(alpha) * 257 - alpha <= 128
<1> DEFINE Near(n) == alpha - n * 257 <= 128 /\ n * 257 - alpha <= 128
           Good(n) == n \in Byte /\ Near(n)
           t == Nearest8(alpha)
<1>1. t = CHOOSE n : Good(n)
  BY Zenon DEF Nearest8, Byte
<1>2. Good(q)
  OBVIOUS
<1>3. Good(t)
  <2> HIDE DEF Good, t
  <2>1. QED
    BY <1>1, <1>2
<1>4. QED
  BY <1>3

\* A layer's alpha as a byte is the nearest of 256.
LEMMA AlphaIsNearest ==
  ASSUME NEW alpha \in Nat, alpha <= 65535
  PROVE  PlaneAlpha8(alpha) \in Byte /\ Nearest8(alpha) = PlaneAlpha8(alpha)
<1> DEFINE p == alpha * 255 + 32767
           q == p \div 65535
<1>1. p \in Nat /\ 65535 \in Nat \ {0}
  OBVIOUS
<1>2. q \in Nat /\ q * 65535 <= p /\ p < (q + 1) * 65535
  <2> HIDE DEF p
  <2>1. QED
    BY <1>1, DivisionBounds
<1> HIDE DEF q
<1> DEFINE Near(n) == alpha - n * 257 <= 128 /\ n * 257 - alpha <= 128
           t == Nearest8(alpha)
<1>3. q \in Byte /\ Near(q)
  <2>1. q \in Int /\ 0 <= q /\ q <= 255 /\ Near(q)
    BY <1>2
  <2>2. QED
    BY <2>1, BytesAre
<1>5. t \in Byte /\ Near(t)
  <2>1. q \in Byte /\ alpha - q * 257 <= 128 /\ q * 257 - alpha <= 128
    BY <1>3
  <2>2. QED
    BY <2>1, NearestIsNear
<1>6. t = q
  <2>1. t \in Int /\ alpha - t * 257 <= 128 /\ t * 257 - alpha <= 128
    BY <1>5, BytesAre
  <2>2. q \in Int /\ alpha - q * 257 <= 128 /\ q * 257 - alpha <= 128
    BY <1>3, BytesAre
  <2>3. alpha \in Int
    OBVIOUS
  <2> HIDE DEF t, p
  <2>4. \A k, l \in Int : k < l => k * 257 + 257 <= l * 257
    OBVIOUS
  <2> DEFINE tt == t * 257
             qq == q * 257
  <2>5. t < q => tt + 257 <= qq
    BY <2>1, <2>2, <2>4
  <2>6. q < t => qq + 257 <= tt
    BY <2>1, <2>2, <2>4
  <2>7. /\ tt \in Int /\ qq \in Int
        /\ alpha - tt <= 128 /\ tt - alpha <= 128 /\ alpha - qq <= 128 /\ qq - alpha <= 128
    BY <2>1, <2>2
  <2> HIDE DEF tt, qq
  <2>8. QED
    BY <2>1, <2>2, <2>3, <2>5, <2>6, <2>7
<1>7. PlaneAlpha8(alpha) = q
  BY DEF q, PlaneAlpha8
<1>8. QED
  BY <1>3, <1>6, <1>7

\* What is over a pixel is a pixel, without anything to cut off.
LEMMA BlendIsOver ==
  ASSUME NEW s \in CanvasPixel, Premultiplied(s), NEW d \in CanvasPixel
  PROVE  BlendPixelOver(s, d) = Over(s, d) /\ Over(s, d) \in CanvasPixel
<1>1. /\ s.a \in Byte /\ s.r \in Byte /\ s.b \in Byte /\ s.r <= s.a /\ s.b <= s.a
      /\ d.a \in Byte /\ d.r \in Byte /\ d.b \in Byte
  BY DEF CanvasPixel, Premultiplied
<1>10. s = [a |-> s.a, r |-> s.r, b |-> s.b] /\ d = [a |-> d.a, r |-> d.r, b |-> d.b]
  BY DEF CanvasPixel
<1> DEFINE rest == 255 - s.a
<1>2. rest \in Byte
  BY <1>1, BytesAre
<1>0. rest = 255 - s.a
  OBVIOUS
<1> HIDE DEF rest
<1>3. Scale(d.a, rest) \in 0..rest /\ Scale(d.r, rest) \in 0..rest /\ Scale(d.b, rest) \in 0..rest
  BY <1>1, <1>2, ScaleIsAByte
<1>4. /\ s.a + Scale(d.a, rest) \in Byte /\ s.r + Scale(d.r, rest) \in Byte
      /\ s.b + Scale(d.b, rest) \in Byte
  <2> DEFINE da == Scale(d.a, rest)
             dr == Scale(d.r, rest)
             db == Scale(d.b, rest)
  <2>1. da \in 0..rest /\ dr \in 0..rest /\ db \in 0..rest
    BY <1>3
  <2> HIDE DEF da, dr, db
  <2>0. ASSUME NEW u \in Byte, u <= s.a, NEW v \in 0..rest PROVE u + v \in Byte
    <3>1. v \in Int /\ 0 <= v /\ v <= 255 - s.a /\ s.a \in Int
      BY <1>0, <1>1, BytesAre
    <3>2. QED
      BY <2>0, <3>1, BytesAre
  <2>2. s.a + da \in Byte /\ s.r + dr \in Byte /\ s.b + db \in Byte
    <3>1. s.a <= s.a
      BY <1>1, BytesAre
    <3>2. QED
      BY <1>1, <2>0, <2>1, <3>1, Zenon
  <2>3. QED
    BY <2>2 DEF da, dr, db
<1>5. Over(s, d) \in CanvasPixel
  BY <1>4 DEF Over, CanvasPixel, rest
<1>6. CASE s.a = 0
  <2>1. rest = 255 /\ s.r = 0 /\ s.b = 0
    BY <1>1, <1>6, BytesAre DEF rest
  <2>2. Scale(d.a, rest) = d.a /\ Scale(d.r, rest) = d.r /\ Scale(d.b, rest) = d.b
    <3>1. ASSUME NEW c \in Byte PROVE Scale(c, rest) = c
      BY <1>2, <2>1, ScaleIsAByte
    <3>2. QED
      BY <1>1, <3>1
  <2>3. Over(s, d) = [a |-> 0 + d.a, r |-> 0 + d.r, b |-> 0 + d.b]
    BY <1>6, <2>1, <2>2 DEF Over, rest
  <2>4. 0 + d.a = d.a /\ 0 + d.r = d.r /\ 0 + d.b = d.b
    <3>1. ASSUME NEW c \in Byte PROVE 0 + c = c
      BY BytesAre
    <3>2. QED
      BY <1>1, <3>1
  <2>5. QED
    BY <1>5, <1>6, <1>10, <2>3, <2>4 DEF BlendPixelOver
<1>7. CASE s.a = 255
  <2>1. rest = 0
    BY <1>7 DEF rest
  <2>2. Scale(d.a, rest) = 0 /\ Scale(d.r, rest) = 0 /\ Scale(d.b, rest) = 0
    BY <1>1, <1>2, <2>1, ScaleIsAByte
  <2>3. Over(s, d) = [a |-> s.a + 0, r |-> s.r + 0, b |-> s.b + 0]
    BY <2>2 DEF Over, rest
  <2>4. s.a + 0 = s.a /\ s.r + 0 = s.r /\ s.b + 0 = s.b
    BY <1>1, BytesAre
  <2>5. QED
    BY <1>5, <1>7, <1>10, <2>3, <2>4 DEF BlendPixelOver
<1>8. CASE s.a # 0 /\ s.a # 255
  <2>1. BlendPixelOver(s, d) = [a |-> Saturated(s.a + Scale(d.a, rest)),
                               r |-> Saturated(s.r + Scale(d.r, rest)),
                               b |-> Saturated(s.b + Scale(d.b, rest))]
    BY <1>8 DEF BlendPixelOver, rest
  <2>2. \A k \in Byte : Saturated(k) = k
    BY BytesAre DEF Saturated
  <2>3. QED
    BY <1>4, <1>5, <2>1, <2>2 DEF Over, rest
<1>9. QED
  BY <1>6, <1>7, <1>8


Screen == 0..CanvasWidth - 1
Image == [Screen -> CanvasPixel]

WellMade(l) ==
  /\ l \in CanvasLayer /\ l.alpha <= 65535
  /\ l.fourcc = "ARGB8888" => \A j \in 1..Len(l.pixels) : Premultiplied(l.pixels[j])
  /\ \/ l.at >= 0 /\ l.at + l.size <= CanvasWidth
     \/ l.at >= CanvasWidth \/ l.at + l.size <= 0

LEMMA LayerIsTyped ==
  ASSUME NEW l \in CanvasLayer
  PROVE  /\ l.zpos \in Nat /\ l.at \in Int /\ l.size \in Nat /\ l.from \in Int /\ l.take \in Nat
         /\ l.alpha \in Nat /\ l.pixels \in Seq(CanvasPixel)
         /\ Len(l.pixels) \in Nat /\ DOMAIN l.pixels = 1..Len(l.pixels)
<1>1. l.pixels \in Seq(CanvasPixel)
  BY DEF CanvasLayer
<1>2. Len(l.pixels) \in Nat /\ DOMAIN l.pixels = 1..Len(l.pixels)
  BY <1>1
<1>3. l.zpos \in Nat /\ l.at \in Int /\ l.size \in Nat /\ l.from \in Int /\ l.take \in Nat
      /\ l.alpha \in Nat
  BY DEF CanvasLayer
<1>4. QED
  BY <1>1, <1>2, <1>3

\* Each place of the stack has a layer of the picture's.
LEMMA TargetsAreLayers ==
  ASSUME NEW picture \in Pictures
  PROVE  /\ Len(picture) \in Nat
         /\ \A n \in 1..Len(picture) : WellMade(Targets(picture)[n])
<1> DEFINE S == 1..Len(picture)
           Lower(i, j) == \/ picture[i].zpos < picture[j].zpos
                          \/ picture[i].zpos = picture[j].zpos /\ i < j
           R == {p \in S \X S : Lower(p[1], p[2])}
<1>1. picture \in Seq(CanvasLayer) /\ Len(picture) \in Nat /\ DOMAIN picture = S
  BY CanvasAssumption
<1>2. \A i \in S : picture[i] \in CanvasLayer /\ WellMade(picture[i])
  <2>1. SUFFICES ASSUME NEW i \in S PROVE picture[i] \in CanvasLayer /\ WellMade(picture[i])
    OBVIOUS
  <2>2. picture[i] \in CanvasLayer
    BY <1>1, ElementOfSeq
  <2>4. DOMAIN picture[i].pixels = 1..Len(picture[i].pixels)
    BY <2>2, LayerIsTyped, Zenon
  <2>5. QED
    BY <1>1, <2>2, <2>4, CanvasAssumption DEF WellMade
<1>3. \A i \in S : picture[i].zpos \in Nat /\ i \in Nat
  BY <1>1, <1>2, LayerIsTyped
<1>4. IsFiniteSet(S) /\ Cardinality(S) = Len(picture)
  BY <1>1, FS_Interval
<1>5. \A i, j \in S : <<i, j>> \in R <=> Lower(i, j)
  OBVIOUS
<1> HIDE DEF S, R
<1>6. StrictOrder(S, R)
  <2>1. \A i \in S : ~Lower(i, i)
    BY <1>3
  <2>2. \A i, j \in S : i = j \/ Lower(i, j) \/ Lower(j, i)
    BY <1>3
  <2>3. \A i, j, k \in S : Lower(i, j) /\ Lower(j, k) => Lower(i, k)
    BY <1>3
  <2> HIDE DEF Lower
  <2>4. QED
    BY <1>5, <2>1, <2>2, <2>3 DEF StrictOrder
<1>7. ASSUME NEW j \in S PROVE Before(S, R, j) = Beneath(picture, j)
  <2>1. Beneath(picture, j) = {i \in S : Lower(i, j)}
    BY DEF Beneath, S
  <2> HIDE DEF Lower
  <2>2. QED
    BY <1>5, <2>1 DEF Before
<1>8. ASSUME NEW n \in 1..Len(picture) PROVE WellMade(Targets(picture)[n])
  <2>1. \E j \in S : Cardinality(Before(S, R, j)) = n - 1
    BY <1>4, <1>6, RanksAreFilled
  <2>2. \E j \in 1..Len(picture) : Cardinality(Beneath(picture, j)) = n - 1
    BY <1>7, <2>1 DEF S
  <2>3. TargetSlot(picture, n) \in S
    BY <2>2 DEF TargetSlot, S
  <2>4. QED
    BY <1>2, <2>3 DEF Targets
<1>9. QED
  BY <1>1, <1>8

\* What is left of a source rectangle, and of one on the canvas.
LEMMA SourceIsClipped ==
  ASSUME NEW l, WellMade(l)
  PROVE  /\ Low(l) \in Nat /\ High(l) \in Int /\ High(l) <= Len(l.pixels)
         /\ Clip(l.from, Taken(l), Len(l.pixels))
              = IF Low(l) < High(l) THEN [start |-> Low(l), span |-> High(l) - Low(l)]
                ELSE NoSpan
<1> DEFINE take == Taken(l)
           from == l.from
           len == Len(l.pixels)
           off == IF from < 0 THEN -from ELSE 0
           start == from + off
           left == take - off
<1>1. from \in Int /\ len \in Nat /\ take \in Nat
  <2>1. Len(l.pixels) \in Nat /\ l.from \in Int /\ l.take \in Nat
    BY LayerIsTyped DEF WellMade
  <2>2. QED
    BY <2>1 DEF Taken
<1>2. Low(l) = (IF from < 0 THEN 0 ELSE from)
      /\ High(l) = IF from + take > len THEN len ELSE from + take
  BY DEF Low, High
<1>3. Clip(from, take, len) =
        IF start >= len \/ left <= 0 THEN NoSpan
        ELSE [start |-> start, span |-> IF left < len - start THEN left ELSE len - start]
  BY DEF Clip
<1> HIDE DEF take, from, len
<1>4. start = Low(l) /\ left \in Int /\ start \in Nat
  BY <1>1, <1>2
<1>5. start >= len \/ left <= 0 <=> ~(Low(l) < High(l))
  BY <1>1, <1>2
<1>6. (IF left < len - start THEN left ELSE len - start) = High(l) - Low(l)
  BY <1>1, <1>2
<1>7. High(l) \in Int /\ High(l) <= len
  BY <1>1, <1>2
<1>8. QED
  <2> HIDE DEF start, left
  <2>1. QED
    BY <1>3, <1>4, <1>5, <1>6, <1>7 DEF take, from, len

LEMMA TargetIsClipped ==
  ASSUME NEW l, WellMade(l)
  PROVE  LET dst == Clip(l.at, l.size, CanvasWidth) IN
         \/ dst = NoSpan /\ \A x \in Screen : ~Covers(l, x)
         \/ dst = [start |-> l.at, span |-> l.size] /\ dst # NoSpan /\ l.size \in Nat \ {0}
<1> DEFINE at == l.at
           size == l.size
<1>1. at \in Int /\ size \in Nat /\ CanvasWidth \in Nat
      /\ ((at >= 0 /\ at + size <= CanvasWidth) \/ at >= CanvasWidth \/ at + size <= 0)
  BY CanvasAssumption, LayerIsTyped DEF WellMade
<1>2. \A x : Covers(l, x) <=> x \in at..at + size - 1
  BY DEF Covers
<1>3. l.at = at /\ l.size = size
  OBVIOUS
<1> HIDE DEF at, size
<1>4. CASE at >= 0 /\ at + size <= CanvasWidth /\ size > 0
  <2>1. Clip(at, size, CanvasWidth) = [start |-> at, span |-> size]
    BY <1>1, <1>4 DEF Clip
  <2>2. [start |-> at, span |-> size] # NoSpan
    BY <1>1, <1>4 DEF NoSpan
  <2>3. QED
    BY <1>1, <1>3, <1>4, <2>1, <2>2
<1>5. CASE ~(at >= 0 /\ at + size <= CanvasWidth /\ size > 0)
  <2>1. Clip(at, size, CanvasWidth) = NoSpan
    BY <1>1, <1>5 DEF Clip
  <2>2. \A x \in Screen : ~(x \in at..at + size - 1)
    BY <1>1, <1>5 DEF Screen
  <2>3. QED
    BY <1>2, <1>3, <2>1, <2>2
<1>6. QED
  BY <1>4, <1>5

\* A place on the screen maps to a place in the buffer.
LEMMA MappedInside ==
  ASSUME NEW size \in Nat \ {0}, NEW place \in 0..size - 1, NEW span \in Nat \ {0}
  PROVE  /\ MapSrcIndex(place, size, span) = (place * span) \div size
         /\ (place * span) \div size \in 0..span - 1
<1> DEFINE p == place * span
           q == p \div size
<1>1. p \in Nat /\ p <= (size - 1) * span /\ (size - 1) * span = span * size - span
  <2>1. \A k, l, m \in Nat : k <= l => k * m <= l * m
    OBVIOUS
  <2>2. place \in Nat /\ size - 1 \in Nat /\ place <= size - 1 /\ span \in Nat
    OBVIOUS
  <2>3. place * span \in Nat
    BY <2>2
  <2>4. (size - 1) * span = span * size - span
    OBVIOUS
  <2>5. QED
    BY <2>1, <2>2, <2>3, <2>4
<1>2. place = 0 => p = 0
  OBVIOUS
<1> HIDE DEF p
<1>3. q \in Nat /\ q * size <= p /\ p < (q + 1) * size
  BY <1>1, DivisionBounds
<1> HIDE DEF q
<1>4. q < span
  <2>1. \A k, l, m \in Nat : k <= l => k * m <= l * m
    OBVIOUS
  <2>2. span <= q => span * size <= q * size
    BY <1>3, <2>1
  <2> DEFINE m == span * size
             n == q * size
  <2>3. m \in Int /\ n \in Int /\ p < m
    <3>1. m \in Int /\ n \in Int
      BY <1>3
    <3>2. (size - 1) * span = m - span
      BY <1>1
    <3> HIDE DEF m, n
    <3>3. p <= m - span
      BY <1>1, <3>2
    <3>4. QED
      BY <1>1, <3>1, <3>3
  <2>4. n <= p /\ (span <= q => m <= n)
    BY <1>3, <2>2
  <2> HIDE DEF m, n
  <2>5. QED
    BY <1>1, <1>3, <2>3, <2>4
<1>5. size <= 1 => q = 0
  <2>1. size <= 1 => size = 1 /\ place = 0
    OBVIOUS
  <2>2. q * 1 = q
    BY <1>3
  <2>3. QED
    BY <1>2, <1>3, <2>1, <2>2
<1>6. MapSrcIndex(place, size, span) = IF size <= 1 THEN 0 ELSE q
  BY DEF MapSrcIndex, q, p
<1>7. QED
  BY <1>3, <1>4, <1>5, <1>6 DEF q, p

\* What the blend reads of a layer is what a plane would show of it.
LEMMA PixelIsSample ==
  ASSUME NEW l, WellMade(l), NEW x \in Screen, IsSeenAt(l, x)
  PROVE  LET k == MapSrcIndex(x - l.at, l.size, High(l) - Low(l)) IN
         /\ PixelOf(l, Low(l) + k) = Sample(l, x)
         /\ Sample(l, x) \in CanvasPixel /\ Premultiplied(Sample(l, x))
<1> DEFINE k == ((x - l.at) * (High(l) - Low(l))) \div l.size
           p == l.pixels[Low(l) + k + 1]
           n == PlaneAlpha8(l.alpha)
           a == IF l.fourcc = "XRGB8888" THEN 255 ELSE p.a
<1>1. /\ l.pixels \in Seq(CanvasPixel) /\ Len(l.pixels) \in Nat /\ l.size \in Nat /\ l.at \in Int
      /\ l.alpha \in Nat /\ l.alpha <= 65535
  BY LayerIsTyped DEF WellMade
<1>2. Low(l) \in Nat /\ High(l) \in Int /\ High(l) <= Len(l.pixels) /\ Low(l) < High(l)
  BY SourceIsClipped DEF IsSeenAt
<1>3. MapSrcIndex(x - l.at, l.size, High(l) - Low(l)) = k /\ k \in 0..High(l) - Low(l) - 1
  <2>1. x \in l.at..l.at + l.size - 1 /\ x \in Int
    BY CanvasAssumption DEF IsSeenAt, Covers, Screen
  <2>4. l.size \in Nat /\ l.at \in Int /\ x \in Int /\ l.at <= x /\ x <= l.at + l.size - 1
    BY <1>1, <2>1
  <2>5. High(l) - Low(l) \in Nat \ {0}
    BY <1>2
  <2>2. l.size \in Nat \ {0} /\ x - l.at \in 0..l.size - 1 /\ High(l) - Low(l) \in Nat \ {0}
    BY <2>4, <2>5
  <2>3. QED
    BY <2>2, MappedInside
<1> HIDE DEF k
<1>4. Low(l) + k + 1 \in 1..Len(l.pixels)
  BY <1>1, <1>2, <1>3
<1>5. p \in CanvasPixel /\ (l.fourcc = "ARGB8888" => Premultiplied(p))
  BY <1>1, <1>4, ElementOfSeq DEF WellMade
<1> HIDE DEF p
<1>6. p.a \in Byte /\ p.r \in Byte /\ p.b \in Byte /\ p = [a |-> p.a, r |-> p.r, b |-> p.b]
  BY <1>5 DEF CanvasPixel
<1>7. a \in Byte /\ p.r <= a /\ p.b <= a
  <2>1. 255 \in Byte /\ p.r <= 255 /\ p.b <= 255
    BY <1>6, BytesAre
  <2>2. QED
    BY <1>5, <1>6, <2>1 DEF IsSeenAt, Blends, Premultiplied
<1>8. n \in Byte /\ Nearest8(l.alpha) = n
  BY <1>1, AlphaIsNearest
<1>9. Sample(l, x) = [a |-> Scale(a, n), r |-> Scale(p.r, n), b |-> Scale(p.b, n)]
  BY <1>8 DEF Sample, p, k
<1> DEFINE solid == [a |-> a, r |-> p.r, b |-> p.b]
<1>10. PixelOf(l, Low(l) + k) = IF n < 255 THEN ModulatePixel(solid, n) ELSE solid
  <2>1. (IF l.fourcc = "XRGB8888" THEN [p EXCEPT !.a = 255] ELSE p) = solid
    BY <1>6
  <2>2. QED
    BY <2>1 DEF PixelOf, p
<1>11. ModulatePixel(solid, n) = Sample(l, x)
  BY <1>9 DEF ModulatePixel
<1> HIDE DEF a, n
<1>12. n < 255 \/ solid = Sample(l, x)
  <2>1. n < 255 \/ n = 255
    BY <1>8, BytesAre
  <2>2. n = 255 => Scale(a, n) = a /\ Scale(p.r, n) = p.r /\ Scale(p.b, n) = p.b
    BY <1>6, <1>7, <1>8, ScaleIsAByte
  <2>3. QED
    BY <1>9, <2>1, <2>2
<1>13. /\ Scale(a, n) \in 0..n /\ Scale(p.r, n) \in 0..n /\ Scale(p.b, n) \in 0..n
       /\ Scale(p.r, n) <= Scale(a, n) /\ Scale(p.b, n) <= Scale(a, n)
  BY <1>6, <1>7, <1>8, ScaleIsAByte
<1>14. Scale(a, n) \in Byte /\ Scale(p.r, n) \in Byte /\ Scale(p.b, n) \in Byte
  BY <1>8, <1>13, BytesAre
<1>15. Sample(l, x) \in CanvasPixel /\ Premultiplied(Sample(l, x))
  BY <1>9, <1>13, <1>14 DEF CanvasPixel, Premultiplied
<1>16. QED
  BY <1>3, <1>10, <1>11, <1>12, <1>15

\* A blend puts a layer over what is there, where it is seen.
LEMMA BlendPutsOver ==
  ASSUME NEW l, WellMade(l), Blends(l), NEW image \in Image
  PROVE  /\ BlendInto(image, l) \in Image
         /\ \A x \in Screen : BlendInto(image, l)[x] =
              IF IsSeenAt(l, x) THEN Over(Sample(l, x), image[x]) ELSE image[x]
<1> DEFINE src == Clip(l.from, Taken(l), Len(l.pixels))
           dst == Clip(l.at, l.size, CanvasWidth)
<1>0. image = [x \in Screen |-> image[x]] /\ DOMAIN image = Screen
      /\ \A x \in Screen : image[x] \in CanvasPixel
  BY DEF Image
<1>1. /\ src = IF Low(l) < High(l) THEN [start |-> Low(l), span |-> High(l) - Low(l)] ELSE NoSpan
      /\ Low(l) \in Nat /\ High(l) \in Int
  BY SourceIsClipped
<1>2. \/ dst = NoSpan /\ \A x \in Screen : ~Covers(l, x)
      \/ dst = [start |-> l.at, span |-> l.size] /\ dst # NoSpan /\ l.size \in Nat \ {0}
  BY TargetIsClipped
<1>3. BlendInto(image, l) =
        IF src = NoSpan \/ dst = NoSpan THEN image
        ELSE [x \in Screen |->
               IF x \notin dst.start..(dst.start + dst.span - 1) THEN image[x]
               ELSE BlendPixelOver(
                      PixelOf(l, src.start + MapSrcIndex(x - dst.start, dst.span, src.span)),
                      image[x])]
  BY <1>0 DEF BlendInto
<1> HIDE DEF src, dst
<1>4. CASE ~(Low(l) < High(l)) \/ dst = NoSpan
  <2>1. BlendInto(image, l) = image
    BY <1>1, <1>3, <1>4
  <2>2. \A x \in Screen : ~IsSeenAt(l, x)
    BY <1>2, <1>4 DEF IsSeenAt, NoSpan
  <2>3. QED
    BY <2>1, <2>2
<1>5. CASE Low(l) < High(l) /\ dst # NoSpan
  <2>1. src.start = Low(l) /\ src.span = High(l) - Low(l) /\ src # NoSpan
    BY <1>1, <1>5 DEF NoSpan
  <2>2. dst.start = l.at /\ dst.span = l.size
    BY <1>2, <1>5
  <2> DEFINE covered(x) ==
               BlendPixelOver(PixelOf(l, Low(l) + MapSrcIndex(x - l.at, l.size, High(l) - Low(l))),
                              image[x])
  <2>3. BlendInto(image, l) = [x \in Screen |-> IF ~Covers(l, x) THEN image[x] ELSE covered(x)]
    BY <1>3, <1>5, <2>1, <2>2 DEF Covers
  <2>4. ASSUME NEW x \in Screen
        PROVE  /\ Covers(l, x) <=> IsSeenAt(l, x)
               /\ Covers(l, x) =>
                    covered(x) = Over(Sample(l, x), image[x]) /\ covered(x) \in CanvasPixel
    <3>1. Covers(l, x) <=> IsSeenAt(l, x)
      BY <1>5 DEF IsSeenAt
    <3>2. ASSUME IsSeenAt(l, x)
          PROVE  covered(x) = Over(Sample(l, x), image[x]) /\ covered(x) \in CanvasPixel
      <4>1. covered(x) = BlendPixelOver(Sample(l, x), image[x])
            /\ Sample(l, x) \in CanvasPixel /\ Premultiplied(Sample(l, x))
        BY <3>2, PixelIsSample
      <4> HIDE DEF covered
      <4>2. QED
        BY <1>0, <4>1, BlendIsOver
    <3> HIDE DEF covered
    <3>3. QED
      BY <3>1, <3>2
  <2> HIDE DEF covered
  <2>5. \A x \in Screen : BlendInto(image, l)[x] =
          IF IsSeenAt(l, x) THEN Over(Sample(l, x), image[x]) ELSE image[x]
    BY <2>3, <2>4
  <2>6. BlendInto(image, l) \in Image
    BY <1>0, <2>3, <2>4 DEF Image
  <2>7. QED
    BY <2>5, <2>6
<1>6. QED
  BY <1>4, <1>5

\* The layers seen at a pixel make one.
LEMMA PictureIsSeen ==
  ASSUME NEW picture \in Pictures, NEW x \in Screen
  PROVE  \E f \in [0..Len(picture) -> CanvasPixel] :
           /\ f[0] = Clear /\ Seen(picture, x) = f[Len(picture)]
           /\ \A k \in 1..Len(picture) :
                LET t == Targets(picture)[k] IN
                f[k] = IF IsSeenAt(t, x) THEN Over(Sample(t, x), f[k - 1]) ELSE f[k - 1]
<1> DEFINE n == Len(picture)
           t == Targets(picture)
           Next(k, p) == IF IsSeenAt(t[k], x) THEN Over(Sample(t[k], x), p) ELSE p
           Is(f) == f = [k \in 0..n |-> IF k = 0 THEN Clear ELSE Next(k, f[k - 1])]
           step == [k \in 1..n |-> [p \in CanvasPixel |-> Next(k, p)]]
           f == CHOOSE f : Is(f)
<1>1. n \in Nat /\ \A k \in 1..n : WellMade(t[k])
  BY TargetsAreLayers
<1>2. Seen(picture, x) = f[n]
  BY DEF Seen
<1> HIDE DEF n, t
<1>3. \A k \in 1..n : \A p \in CanvasPixel : Next(k, p) \in CanvasPixel
  <2>1. SUFFICES ASSUME NEW k \in 1..n, NEW p \in CanvasPixel, IsSeenAt(t[k], x)
                 PROVE  Over(Sample(t[k], x), p) \in CanvasPixel
    OBVIOUS
  <2>2. Sample(t[k], x) \in CanvasPixel /\ Premultiplied(Sample(t[k], x))
    BY <1>1, <2>1, PixelIsSample
  <2>3. QED
    BY <2>2, BlendIsOver
<1> HIDE DEF Next
<1>4. Steps(n, CanvasPixel, Clear, step)
  <2>1. Clear \in CanvasPixel
    BY BytesAre DEF Clear, CanvasPixel
  <2>2. step \in [1..n -> [CanvasPixel -> CanvasPixel]]
    BY <1>3
  <2> HIDE DEF step
  <2>3. QED
    BY <1>1, <2>1, <2>2 DEF Steps
<1>5. PICK g : Iterates(n, CanvasPixel, Clear, step, g)
  <2> HIDE DEF step
  <2>1. QED
    BY <1>4, IteratesExist
<1>6. Is(g) /\ g \in [0..n -> CanvasPixel]
  <2>1. g \in [0..n -> CanvasPixel] /\ g[0] = Clear
    BY <1>5 DEF Iterates
  <2>2. \A k \in 1..n : g[k - 1] \in CanvasPixel /\ g[k] = step[k][g[k - 1]]
    <3> HIDE DEF step
    <3>1. QED
      BY <1>1, <1>5, IteratesStep
  <2>3. \A k \in 1..n : g[k] = Next(k, g[k - 1])
    BY <2>2
  <2>4. \A k \in 0..n : k = 0 \/ k \in 1..n
    BY <1>1
  <2> HIDE DEF step
  <2>5. \A k \in 0..n : g[k] = IF k = 0 THEN Clear ELSE Next(k, g[k - 1])
    BY <2>1, <2>3, <2>4
  <2>6. QED
    BY <2>1, <2>5
<1>7. Is(f)
  BY <1>6
<1>8. f \in [0..n -> CanvasPixel]
  <2> HIDE DEF f, step
  <2> DEFINE T == {k \in 0..n : f[k] \in CanvasPixel}
  <2>1. 0 \in T
    BY <1>1, <1>7, BytesAre DEF Clear, CanvasPixel
  <2>2. ASSUME NEW k \in 1..n, k - 1 \in T PROVE k \in T
    <3>1. k \in 0..n /\ k # 0 /\ f[k - 1] \in CanvasPixel
      BY <1>1, <2>2
    <3> HIDE DEF T
    <3>2. f[k] = Next(k, f[k - 1])
      BY <1>7, <3>1
    <3>3. QED
      BY <1>3, <3>1, <3>2 DEF T
  <2> HIDE DEF T
  <2>3. 0..n \subseteq T
    BY <1>1, <2>1, <2>2, Reaches
  <2>4. \A k \in 0..n : f[k] \in CanvasPixel
    BY <2>3 DEF T
  <2>5. f = [k \in 0..n |-> f[k]]
    BY <1>7
  <2>6. QED
    BY <2>4, <2>5
<1>9. f[0] = Clear /\ \A k \in 1..n : f[k] = Next(k, f[k - 1])
  <2> HIDE DEF f, step
  <2>1. 0 \in 0..n /\ \A k \in 1..n : k \in 0..n /\ k # 0
    BY <1>1
  <2>2. QED
    BY <1>7, <2>1
<1>10. QED
  <2> HIDE DEF f, step
  <2>1. QED
    BY <1>2, <1>8, <1>9 DEF n, t, Next


\* The layers blended one after the other make that pixel everywhere.
LEMMA BlendedIsSeen ==
  ASSUME NEW picture \in Pictures
  PROVE  /\ Blended(BlankCanvas, picture) \in Image
         /\ \A x \in Screen : Blended(BlankCanvas, picture)[x] = Seen(picture, x)
<1> DEFINE n == Len(picture)
           t == Targets(picture)
           Next(k, v) == IF Blends(t[k]) THEN BlendInto(v, t[k]) ELSE v
           Is(f) == f = [k \in 0..n |-> IF k = 0 THEN BlankCanvas ELSE Next(k, f[k - 1])]
           step == [k \in 1..n |-> [v \in Image |-> Next(k, v)]]
           f == CHOOSE f : Is(f)
<1>1. n \in Nat /\ \A k \in 1..n : WellMade(t[k])
  BY TargetsAreLayers
<1>2. Blended(BlankCanvas, picture) = f[n]
  BY DEF Blended
<1> HIDE DEF n, t
<1>3. \A k \in 1..n : \A v \in Image : Next(k, v) \in Image
  BY <1>1, BlendPutsOver
<1>4. BlankCanvas \in Image /\ \A x \in Screen : BlankCanvas[x] = Clear
  <2>1. Clear \in CanvasPixel
    BY BytesAre DEF Clear, CanvasPixel
  <2>2. BlankCanvas = [x \in Screen |-> Clear]
    BY DEF BlankCanvas, Screen
  <2>3. QED
    BY <2>1, <2>2 DEF Image
<1>5. Is(f)
  <2>1. Steps(n, Image, BlankCanvas, step)
    <3> HIDE DEF Next
    <3>1. step \in [1..n -> [Image -> Image]]
      BY <1>3
    <3> HIDE DEF step
    <3>2. QED
      BY <1>1, <1>4, <3>1 DEF Steps
  <2>2. PICK g : Iterates(n, Image, BlankCanvas, step, g)
    <3> HIDE DEF step
    <3>1. QED
      BY <2>1, IteratesExist
  <2>3. g \in [0..n -> Image] /\ g[0] = BlankCanvas
    BY <2>2 DEF Iterates
  <2>4. \A k \in 1..n : g[k - 1] \in Image /\ g[k] = step[k][g[k - 1]]
    <3> HIDE DEF step
    <3>1. \A k \in 1..n : g[k] = step[k][g[k - 1]]
      BY <2>2 DEF Iterates
    <3>2. \A k \in 1..n : k - 1 \in 0..n
      BY <1>1
    <3>3. QED
      BY <2>3, <3>1, <3>2
  <2> HIDE DEF Next
  <2>5. \A k \in 1..n : g[k] = Next(k, g[k - 1])
    BY <2>4
  <2>6. \A k \in 0..n : k = 0 \/ k \in 1..n
    BY <1>1
  <2> HIDE DEF step
  <2>7. \A k \in 0..n : g[k] = IF k = 0 THEN BlankCanvas ELSE Next(k, g[k - 1])
    BY <2>3, <2>5, <2>6
  <2>8. Is(g)
    BY <2>3, <2>7
  <2>9. QED
    BY <2>8
<1> HIDE DEF f, step, Next
<1>6. /\ f[0] = BlankCanvas
      /\ \A k \in 1..n : k \in 0..n /\ k - 1 \in 0..n /\ f[k] = Next(k, f[k - 1])
  <2>1. 0 \in 0..n /\ \A k \in 1..n : k \in 0..n /\ k - 1 \in 0..n /\ k # 0
    BY <1>1
  <2>2. QED
    BY <1>5, <2>1
<1>7. \A k \in 0..n : f[k] \in Image
  <2> DEFINE T == {k \in 0..n : f[k] \in Image}
  <2>1. 0 \in T
    BY <1>1, <1>4, <1>6
  <2>2. ASSUME NEW k \in 1..n, k - 1 \in T PROVE k \in T
    BY <1>3, <1>6, <2>2
  <2> HIDE DEF T
  <2>3. 0..n \subseteq T
    BY <1>1, <2>1, <2>2, Reaches
  <2>4. QED
    BY <2>3 DEF T
<1>8. ASSUME NEW x \in Screen PROVE f[n][x] = Seen(picture, x)
  <2>1. PICK s \in [0..n -> CanvasPixel] :
          /\ s[0] = Clear /\ Seen(picture, x) = s[n]
          /\ \A k \in 1..n :
               s[k] = IF IsSeenAt(t[k], x) THEN Over(Sample(t[k], x), s[k - 1]) ELSE s[k - 1]
    BY PictureIsSeen DEF n, t
  <2> DEFINE T == {k \in 0..n : f[k][x] = s[k]}
  <2>2. 0 \in T
    BY <1>1, <1>4, <1>6, <2>1
  <2>3. ASSUME NEW k \in 1..n, k - 1 \in T PROVE k \in T
    <3>1. f[k - 1][x] = s[k - 1] /\ f[k - 1] \in Image /\ f[k] = Next(k, f[k - 1]) /\ k \in 0..n
      BY <1>6, <1>7, <2>3
    <3>2. Next(k, f[k - 1])[x] =
            IF IsSeenAt(t[k], x) THEN Over(Sample(t[k], x), f[k - 1][x]) ELSE f[k - 1][x]
      <4>1. CASE Blends(t[k])
        BY <1>1, <3>1, <4>1, BlendPutsOver DEF Next
      <4>2. CASE ~Blends(t[k])
        BY <4>2 DEF Next, IsSeenAt
      <4>3. QED
        BY <4>1, <4>2
    <3>3. QED
      BY <2>1, <3>1, <3>2
  <2> HIDE DEF T
  <2>4. 0..n \subseteq T /\ n \in 0..n
    BY <1>1, <2>2, <2>3, Reaches
  <2>5. QED
    BY <2>1, <2>4 DEF T
<1>9. n \in 0..n
  BY <1>1
<1>10. QED
  BY <1>2, <1>7, <1>8, <1>9

Fourccs == {"ARGB8888", "XRGB8888", "XBGR8888", "ABGR8888", "RGB565", "BGR565"}

LEMMA WritesFourccs == \A f : CanWrite(f) <=> f \in Fourccs
<1>1. ToSet(CanvasFormats) = {CanvasFormats[i] : i \in 1..6}
  BY DEF ToSet, CanvasFormats
<1>2. {CanvasFormats[i] : i \in 1..6} = Fourccs
  <2>1. /\ CanvasFormats[1] = "ARGB8888" /\ CanvasFormats[2] = "XRGB8888"
        /\ CanvasFormats[3] = "XBGR8888" /\ CanvasFormats[4] = "ABGR8888"
        /\ CanvasFormats[5] = "RGB565" /\ CanvasFormats[6] = "BGR565"
    BY DEF CanvasFormats
  <2>2. 1..6 = {1, 2, 3, 4, 5, 6}
    OBVIOUS
  <2>3. QED
    BY <2>1, <2>2 DEF Fourccs
<1>3. QED
  BY <1>1, <1>2 DEF CanWrite

\* A pixel is scanned out as what its format can tell of it.
LEMMA FormatTells ==
  ASSUME NEW p \in CanvasPixel, NEW fourcc \in Fourccs
  PROVE  Scanned(Converted(p, fourcc), fourcc) = Told(p, fourcc)
<1>1. p = [a |-> p.a, r |-> p.r, b |-> p.b]
  BY DEF CanvasPixel
<1>2. CASE fourcc = "ARGB8888"
  BY <1>1, <1>2 DEF Scanned, Converted, Told
<1>3. CASE fourcc = "XRGB8888"
  BY <1>1, <1>3 DEF Scanned, Converted, Told
<1>4. CASE fourcc = "XBGR8888"
  BY <1>1, <1>4 DEF Scanned, Converted, Told
<1>5. CASE fourcc = "ABGR8888"
  BY <1>1, <1>5 DEF Scanned, Converted, Told
<1>6. CASE fourcc = "RGB565"
  BY <1>6 DEF Scanned, Converted, Told
<1>7. CASE fourcc = "BGR565"
  BY <1>7 DEF Scanned, Converted, Told
<1>8. QED
  BY <1>2, <1>3, <1>4, <1>5, <1>6, <1>7 DEF Fourccs

\* A buffer holds a picture.
Painted(c, buffer, picture) ==
  \A x \in Screen : Scanned(c.buffers[buffer][x], c.fourcc) = Told(Seen(picture, x), c.fourcc)

\* A canvas with its two buffers.
WholeCanvas(c) ==
  c = [fourcc |-> c.fourcc, buffers |-> [i \in 1..2 |-> c.buffers[i]], back |-> c.back]
StandingCanvas(c) == c.fourcc \in Fourccs /\ c.back \in 1..2 /\ WholeCanvas(c)

CanvasTypes ==
  /\ \/ canvas = NoCanvas
     \/ StandingCanvas(canvas)
     \/ scenePaused /\ canvas.fourcc \in Fourccs
  /\ DOMAIN shadow = Screen
  /\ building \in Pictures \cup {NoPicture}
  /\ unshown \in 0..2 /\ scenePaused \in BOOLEAN

\* A build stands on a canvas whose back buffer has what it blended, and the
\* front one is on the screen until it is built over.
CanvasInv ==
  /\ CanvasTypes
  /\ building # NoPicture /\ ~scenePaused =>
       /\ StandingCanvas(canvas) /\ unshown >= 1
       /\ BlendsAny(building) => Painted(canvas, canvas.back, building)
  /\ canvasScreen # 0 =>
       /\ StandingCanvas(canvas) /\ ~scenePaused
       /\ unshown = 0 => canvasScreen = canvas.back
       /\ unshown = 1 => canvasScreen = 3 - canvas.back
       /\ unshown <= 1 => Painted(canvas, canvasScreen, shown)

\* A flush paints the back buffer and leaves the other one.
LEMMA FlushPaints ==
  ASSUME NEW c, StandingCanvas(c), NEW image \in Image
  PROVE  /\ StandingCanvas(Flushed(c, image))
         /\ Flushed(c, image).fourcc = c.fourcc /\ Flushed(c, image).back = c.back
         /\ Flushed(c, image).buffers[3 - c.back] = c.buffers[3 - c.back]
         /\ \A x \in Screen : Flushed(c, image).buffers[c.back][x] = Converted(image[x], c.fourcc)
<1> DEFINE painted == [x \in Screen |-> Converted(image[x], c.fourcc)]
<1>1. c.back \in 1..2 /\ 3 - c.back \in 1..2 /\ 3 - c.back # c.back
  BY DEF StandingCanvas
<1>2. DOMAIN image = Screen
  BY DEF Image
<1>3. Flushed(c, image) =
        [fourcc |-> c.fourcc,
         buffers |-> [i \in 1..2 |-> IF i = c.back THEN painted ELSE c.buffers[i]],
         back |-> c.back]
  <2>1. c = [fourcc |-> c.fourcc, buffers |-> c.buffers, back |-> c.back]
        /\ c.buffers = [i \in 1..2 |-> c.buffers[i]]
    BY DEF StandingCanvas, WholeCanvas
  <2>2. Flushed(c, image) = [c EXCEPT !.buffers = [c.buffers EXCEPT ![c.back] = painted]]
    BY <1>2 DEF Flushed
  <2> HIDE DEF painted
  <2>3. [c.buffers EXCEPT ![c.back] = painted]
          = [i \in 1..2 |-> IF i = c.back THEN painted ELSE c.buffers[i]]
    BY <1>1, <2>1
  <2>4. QED
    BY <2>1, <2>2, <2>3
<1> HIDE DEF painted
<1>4. /\ Flushed(c, image).buffers[c.back] = painted
      /\ Flushed(c, image).buffers[3 - c.back] = c.buffers[3 - c.back]
  BY <1>1, <1>3
<1>5. StandingCanvas(Flushed(c, image))
  BY <1>3 DEF StandingCanvas, WholeCanvas
<1>6. QED
  BY <1>3, <1>4, <1>5 DEF painted

LEMMA CreatedStands ==
  ASSUME NEW fourcc \in Fourccs
  PROVE  StandingCanvas(CreateIn(fourcc))
<1> DEFINE zeroed == [x \in DOMAIN BlankCanvas |-> Converted(Clear, fourcc)]
<1>1. CreateIn(fourcc) = [fourcc |-> fourcc, buffers |-> <<zeroed, zeroed>>, back |-> 1]
  BY DEF CreateIn
<1> HIDE DEF zeroed
<1>2. <<zeroed, zeroed>> = [i \in 1..2 |-> <<zeroed, zeroed>>[i]]
  OBVIOUS
<1>3. QED
  BY <1>1, <1>2 DEF StandingCanvas, WholeCanvas

LEMMA CanvasStart == CanvasInit => CanvasInv
<1>1. SUFFICES ASSUME CanvasInit PROVE CanvasInv
  OBVIOUS
<1>2. DOMAIN BlankCanvas = Screen
  BY DEF BlankCanvas, Screen
<1>3. CanvasTypes
  <2>1. unshown \in 0..2
    BY <1>1 DEF CanvasInit
  <2>2. QED
    BY <1>1, <1>2, <2>1 DEF CanvasInit, CanvasTypes
<1>4. building = NoPicture /\ canvasScreen = 0
  BY <1>1 DEF CanvasInit
<1>5. QED
  BY <1>3, <1>4 DEF CanvasInv

\* A build paints its picture behind and leaves what is shown.
LEMMA ComposePaints ==
  ASSUME CanvasInv, NEW picture \in Pictures, Compose(picture)
  PROVE  CanvasInv'
<1> DEFINE turned == BeginFrame(canvas)
           painted == Blended(Cleared(shadow), picture)
<1>1. /\ Armable(canvas) /\ building = NoPicture /\ ~scenePaused
      /\ shadow' = painted
      /\ canvas' = IF BlendsAny(picture) THEN Flushed(turned, painted) ELSE turned
      /\ building' = picture /\ unshown' = IF unshown = 2 THEN 2 ELSE unshown + 1
      /\ canvasScreen' = canvasScreen /\ shown' = shown /\ scenePaused' = scenePaused
  BY DEF Compose
<1>2. StandingCanvas(canvas) /\ DOMAIN shadow = Screen /\ unshown \in 0..2
  BY <1>1 DEF CanvasInv, CanvasTypes, Armable, NoCanvas
<1>3. painted \in Image /\ \A x \in Screen : painted[x] = Seen(picture, x)
  <2>1. Cleared(shadow) = BlankCanvas
    BY <1>2 DEF Cleared, BlankCanvas, Screen
  <2>2. QED
    BY <2>1, BlendedIsSeen
<1>4. /\ turned = [fourcc |-> canvas.fourcc, buffers |-> canvas.buffers, back |-> 3 - canvas.back]
      /\ StandingCanvas(turned)
  BY <1>2 DEF BeginFrame, StandingCanvas, WholeCanvas
<1> HIDE DEF turned, painted
<1>5. /\ StandingCanvas(canvas') /\ canvas'.fourcc = canvas.fourcc /\ canvas'.back = 3 - canvas.back
      /\ canvas'.buffers[canvas.back] = canvas.buffers[canvas.back]
      /\ BlendsAny(picture) =>
           \A x \in Screen : canvas'.buffers[canvas'.back][x] = Converted(painted[x], canvas.fourcc)
  <2>1. canvas.back \in 1..2 /\ turned.back = 3 - canvas.back /\ 3 - turned.back = canvas.back
        /\ turned.fourcc = canvas.fourcc /\ turned.buffers = canvas.buffers
    BY <1>2, <1>4 DEF StandingCanvas
  <2>2. CASE BlendsAny(picture)
    BY <1>1, <1>3, <1>4, <2>1, <2>2, FlushPaints
  <2>3. CASE ~BlendsAny(picture)
    BY <1>1, <1>4, <2>1, <2>3
  <2>4. QED
    BY <2>2, <2>3
<1>6. BlendsAny(picture) =>
        \A x \in Screen : Scanned(canvas'.buffers[canvas'.back][x], canvas'.fourcc)
                            = Told(Seen(picture, x), canvas'.fourcc)
  <2>1. canvas.fourcc \in Fourccs /\ \A x \in Screen : painted[x] \in CanvasPixel
    BY <1>2, <1>3 DEF StandingCanvas, Image
  <2>2. QED
    BY <1>3, <1>5, <2>1, FormatTells
<1>7. canvasScreen # 0 /\ unshown' <= 1 =>
        /\ canvasScreen = canvas.back /\ unshown = 0
        /\ \A x \in Screen : Scanned(canvas'.buffers[canvasScreen'][x], canvas'.fourcc)
                               = Told(Seen(shown', x), canvas'.fourcc)
  <2>1. unshown' <= 1 => unshown = 0
    BY <1>1, <1>2
  <2>2. canvasScreen # 0 /\ unshown = 0 =>
          /\ canvasScreen = canvas.back
          /\ \A x \in Screen : Scanned(canvas.buffers[canvasScreen][x], canvas.fourcc)
                                 = Told(Seen(shown, x), canvas.fourcc)
    BY DEF CanvasInv, Painted
  <2>3. QED
    BY <1>1, <1>5, <2>1, <2>2
<1>8. /\ DOMAIN shadow' = Screen /\ unshown' \in 1..2 /\ (unshown' = 1 => unshown = 0)
      /\ 3 - (3 - canvas.back) = canvas.back
  BY <1>1, <1>2, <1>3 DEF Image, StandingCanvas
<1>9. CanvasTypes'
  <2>1. StandingCanvas(canvas)' /\ (DOMAIN shadow = Screen)'
    BY <1>5, <1>8 DEF StandingCanvas, WholeCanvas, Screen
  <2>2. QED
    BY <1>1, <1>8, <2>1 DEF CanvasInv, CanvasTypes
<1>10. QED
  BY <1>1, <1>5, <1>6, <1>7, <1>8, <1>9 DEF CanvasInv, Painted, StandingCanvas, WholeCanvas, Screen

\* A canvas made for either format is whole, and nothing is on the screen.
LEMMA CanvasIsMade ==
  ASSUME CanvasInv, NEW fourcc \in Fourccs, building = NoPicture, canvasScreen = 0,
         canvas' = CreateIn(fourcc), shadow' = BlankCanvas, scenePaused' = FALSE,
         UNCHANGED <<building, canvasScreen, shown, unshown>>
  PROVE  CanvasInv'
<1>1. StandingCanvas(canvas') /\ DOMAIN shadow' = Screen
  BY CreatedStands DEF BlankCanvas, Screen
<1>2. CanvasTypes'
  <2>1. StandingCanvas(canvas)' /\ (DOMAIN shadow = Screen)'
    BY <1>1 DEF StandingCanvas, WholeCanvas, Screen
  <2>2. QED
    BY <2>1 DEF CanvasInv, CanvasTypes
<1>3. QED
  BY <1>2 DEF CanvasInv

LEMMA CanvasStep == CanvasInv /\ [CanvasNext]_canvasVars => CanvasInv'
<1> SUFFICES ASSUME CanvasInv, [CanvasNext]_canvasVars PROVE CanvasInv'
  OBVIOUS
<1>0. CanvasTypes
  BY DEF CanvasInv
<1>1. ASSUME NEW scansOut \in PlaneFormats, EnableComposition(scansOut) PROVE CanvasInv'
  <2>1. ~StandingCanvas(NoCanvas)
    BY DEF StandingCanvas, NoCanvas, Fourccs
  <2>2. building = NoPicture /\ canvasScreen = 0
    BY <1>1, <2>1 DEF EnableComposition, CanvasInv
  <2>3. CanvasFormatForPlane(scansOut) \in Fourccs
    BY <1>1, WritesFourccs DEF EnableComposition
  <2>4. scenePaused' = FALSE
    BY <1>0, <1>1 DEF EnableComposition, CanvasTypes
  <2>5. QED
    BY <1>1, <2>2, <2>3, <2>4, CanvasIsMade DEF EnableComposition
<1>2. ASSUME NEW picture \in Pictures, Compose(picture) PROVE CanvasInv'
  BY <1>2, ComposePaints
<1>3. CASE Lands
  <2>1. /\ building # NoPicture /\ ~scenePaused /\ building' = NoPicture /\ unshown' = 0
        /\ canvasScreen' = (IF BlendsAny(building) THEN canvas.back ELSE 0)
        /\ shown' = (IF BlendsAny(building) THEN building ELSE NoPicture)
        /\ canvas' = canvas /\ shadow' = shadow /\ scenePaused' = scenePaused
    BY <1>3 DEF Lands
  <2>2. StandingCanvas(canvas) /\ (BlendsAny(building) => Painted(canvas, canvas.back, building))
    BY <2>1 DEF CanvasInv
  <2>3. CanvasTypes'
    <3>1. 0 \in 0..2
      OBVIOUS
    <3>2. QED
      BY <1>0, <2>1, <3>1 DEF CanvasTypes, StandingCanvas, WholeCanvas, Screen
  <2>4. canvasScreen' # 0 => Painted(canvas, canvas.back, shown')
    BY <2>1, <2>2
  <2>5. QED
    BY <2>1, <2>2, <2>3, <2>4 DEF CanvasInv, StandingCanvas, WholeCanvas, Painted, Screen
<1>4. CASE GoesUnshown
  <2>1. building' = NoPicture
        /\ UNCHANGED <<canvas, shadow, canvasScreen, shown, unshown, scenePaused>>
    BY <1>4 DEF GoesUnshown
  <2>2. CanvasTypes'
    BY <1>0, <2>1 DEF CanvasTypes, StandingCanvas, WholeCanvas, Screen
  <2>3. QED
    BY <2>1, <2>2 DEF CanvasInv, StandingCanvas, WholeCanvas, Painted, Screen
<1>5. CASE Uncomposed
  <2>1. building = NoPicture /\ canvasScreen' = 0 /\ unshown' = 0
        /\ UNCHANGED <<canvas, shadow, building, scenePaused>>
    BY <1>5 DEF Uncomposed
  <2>2. CanvasTypes'
    <3>1. 0 \in 0..2
      OBVIOUS
    <3>2. QED
      BY <1>0, <2>1, <3>1 DEF CanvasTypes, StandingCanvas, WholeCanvas, Screen
  <2>3. QED
    BY <2>1, <2>2 DEF CanvasInv
<1>6. CASE PauseCanvas
  <2>1. /\ ~scenePaused /\ scenePaused' = TRUE /\ canvasScreen' = 0 /\ unshown' = 0
        /\ canvas' = (IF canvas = NoCanvas THEN NoCanvas ELSE WithoutBuffers(canvas))
        /\ UNCHANGED <<shadow, building>>
    BY <1>6 DEF PauseCanvas
  <2>2. canvas' = NoCanvas \/ canvas'.fourcc \in Fourccs
    <3>1. CASE canvas = NoCanvas
      BY <2>1, <3>1
    <3>2. CASE canvas # NoCanvas
      <4>1. StandingCanvas(canvas)
        BY <1>0, <2>1, <3>2 DEF CanvasTypes
      <4>2. canvas' = [fourcc |-> canvas.fourcc, buffers |-> <<>>, back |-> canvas.back]
        BY <2>1, <3>2, <4>1 DEF WithoutBuffers, StandingCanvas, WholeCanvas
      <4>3. QED
        BY <4>1, <4>2 DEF StandingCanvas
    <3>3. QED
      BY <3>1, <3>2
  <2>3. CanvasTypes'
    <3>1. 0 \in 0..2
      OBVIOUS
    <3>2. QED
      BY <1>0, <2>1, <2>2, <3>1 DEF CanvasTypes, Screen
  <2>4. QED
    BY <2>1, <2>3 DEF CanvasInv
<1>7. CASE ResumeCanvas
  <2>1. /\ scenePaused /\ building = NoPicture /\ scenePaused' = FALSE /\ canvasScreen = 0
        /\ UNCHANGED <<building, canvasScreen, shown, unshown>>
    BY <1>7 DEF ResumeCanvas, CanvasInv
  <2>2. CASE canvas # NoCanvas /\ canvas' = CreateIn(canvas.fourcc) /\ shadow' = BlankCanvas
    <3>1. canvas.fourcc \in Fourccs
      BY <1>0, <2>2 DEF CanvasTypes, StandingCanvas
    <3>2. QED
      BY <2>1, <2>2, <3>1, CanvasIsMade
  <2>3. CASE canvas' = NoCanvas /\ UNCHANGED shadow
    <3>1. CanvasTypes'
      BY <1>0, <2>1, <2>3 DEF CanvasTypes, Screen
    <3>2. QED
      BY <2>1, <3>1 DEF CanvasInv
  <2>4. QED
    BY <1>7, <2>2, <2>3 DEF ResumeCanvas
<1>8. CASE UNCHANGED canvasVars
  <2>1. UNCHANGED <<canvas, shadow, building, canvasScreen, shown, unshown, scenePaused>>
    BY <1>8 DEF canvasVars
  <2>2. CanvasTypes'
    BY <1>0, <2>1 DEF CanvasTypes, StandingCanvas, WholeCanvas, Screen
  <2>3. QED
    BY <2>1, <2>2 DEF CanvasInv, StandingCanvas, WholeCanvas, Painted, Screen
<1>9. QED
  BY <1>1, <1>2, <1>3, <1>4, <1>5, <1>6, <1>7, <1>8 DEF CanvasNext

LEMMA CanvasIsTrue == CanvasInv => CanvasShowsItsLayers
<1>1. DOMAIN BlankCanvas = Screen
  BY DEF BlankCanvas, Screen
<1>2. QED
  BY <1>1 DEF CanvasInv, Painted, CanvasShowsItsLayers

-----------------------------------------------------------------------------
(* Buffers: the kernel's tables.                                           *)

\* Everything a handle may name, what names of it a table may have, and what
\* the kernel keeps.
GemObjects ==
  {Made(o) : o \in Owners} \cup {Produced(d) : d \in DmaBufs} \cup {Linked(i) : i \in 1..Chain}
Numbered(X) == UNION {[D -> X] : D \in {D \in SUBSET (Nat \ {0}) : IsFiniteSet(D)}}
FbEntries == [file : Files, objects : SUBSET GemObjects]
KernelTables == [gem : [Files -> Numbered(GemObjects)], fbs : Numbered(FbEntries)]

LEMMA NumberedIs ==
  ASSUME NEW X, NEW t
  PROVE  t \in Numbered(X) <=>
           /\ t = [n \in DOMAIN t |-> t[n]]
           /\ DOMAIN t \in SUBSET (Nat \ {0}) /\ IsFiniteSet(DOMAIN t)
           /\ \A n \in DOMAIN t : t[n] \in X
BY DEF Numbered

\* The number the kernel gives is one that names nothing.
LEMMA FreeNumberIsFree ==
  ASSUME NEW X, NEW t \in Numbered(X)
  PROVE  FreeNumber(t) \in Nat \ {0} /\ FreeNumber(t) \notin DOMAIN t
<1> DEFINE c == Cardinality(DOMAIN t)
           T == 1..(c + 1) \ DOMAIN t
<1>1. IsFiniteSet(DOMAIN t) /\ c \in Nat
  BY NumberedIs, FS_CardinalityType
<1>2. IsFiniteSet(1..(c + 1)) /\ Cardinality(1..(c + 1)) = c + 1
  <2> HIDE DEF c
  <2>1. QED
    BY <1>1, FS_Interval
<1>3. T # {}
  <2>1. SUFFICES ASSUME T = {} PROVE FALSE
    OBVIOUS
  <2>2. 1..(c + 1) \subseteq DOMAIN t
    BY <2>1
  <2>3. c + 1 <= c
    BY <1>1, <1>2, <2>2, FS_Subset
  <2> HIDE DEF c
  <2>4. QED
    BY <1>1, <2>3
<1>4. T \in SUBSET Nat
  OBVIOUS
<1>5. FreeNumber(t) \in T
  <2>1. FreeNumber(t) = CHOOSE n \in T : \A m \in T : n <= m
    BY DEF FreeNumber, Lowest
  <2> HIDE DEF T
  <2>2. QED
    BY <1>3, <1>4, <2>1, LeastIsIn
<1>6. QED
  BY <1>1, <1>5

LEMMA AddsANumber ==
  ASSUME NEW X, NEW t \in Numbered(X), NEW x \in X,
         NEW u, u = Adds(t, x), NEW f, f = FreeNumber(t)
  PROVE  /\ u \in Numbered(X) /\ DOMAIN u = DOMAIN t \cup {f}
         /\ u[f] = x /\ \A n \in DOMAIN t : u[n] = t[n]
         /\ f \in Nat \ {0} /\ f \notin DOMAIN t
<1> DEFINE D == DOMAIN t \cup {f}
<1>1. f \in Nat \ {0} /\ f \notin DOMAIN t
  BY FreeNumberIsFree
<1>2. DOMAIN t \in SUBSET (Nat \ {0}) /\ IsFiniteSet(DOMAIN t) /\ \A n \in DOMAIN t : t[n] \in X
  BY NumberedIs
<1>3. u = [n \in D |-> IF n \in DOMAIN t THEN t[n] ELSE x]
  BY DEF Adds
<1>4. IsFiniteSet(D)
  BY <1>2, FS_AddElement
<1>5. DOMAIN u = D /\ u[f] = x /\ \A n \in DOMAIN t : u[n] = t[n]
  BY <1>1, <1>3
<1>6. \A n \in D : u[n] \in X
  BY <1>2, <1>5
<1>7. u = [n \in D |-> u[n]] /\ D \in SUBSET (Nat \ {0})
  BY <1>1, <1>2, <1>3
<1>8. u \in Numbered(X)
  BY <1>4, <1>5, <1>6, <1>7, NumberedIs
<1>9. QED
  BY <1>1, <1>5, <1>8

LEMMA RemovesNumbers ==
  ASSUME NEW X, NEW t \in Numbered(X), NEW S
  PROVE  Removes(t, S) \in Numbered(X)
<1> DEFINE D == DOMAIN t \ S
           u == Removes(t, S)
<1>1. DOMAIN t \in SUBSET (Nat \ {0}) /\ IsFiniteSet(DOMAIN t) /\ \A n \in DOMAIN t : t[n] \in X
  BY NumberedIs
<1>2. u = [n \in D |-> t[n]]
  BY DEF Removes, Restrict
<1>3. IsFiniteSet(D)
  BY <1>1, FS_Subset
<1> HIDE DEF u
<1>4. u \in Numbered(X)
  BY <1>1, <1>2, <1>3, NumberedIs
<1>5. QED
  BY <1>4 DEF u

-----------------------------------------------------------------------------
(* What a call does to the tables on behalf of a buffer.                   *)

\* From k to l: what names none of the objects stays, and there is nothing new
\* but these handles and framebuffers of the file the device is open on.
LeavesOthers(k, l, objects) ==
  /\ \A f \in Files : \A h \in DOMAIN k.gem[f] :
       k.gem[f][h] \notin objects => h \in DOMAIN l.gem[f] /\ l.gem[f][h] = k.gem[f][h]
  /\ \A id \in DOMAIN k.fbs :
       k.fbs[id].objects \cap objects = {} => id \in DOMAIN l.fbs /\ l.fbs[id] = k.fbs[id]
NewOnly(k, l, handles, ids) ==
  /\ \A f \in Files : \A h \in DOMAIN l.gem[f] :
       \/ h \in DOMAIN k.gem[f] /\ l.gem[f][h] = k.gem[f][h]
       \/ f = file /\ h \in handles
  /\ \A id \in DOMAIN l.fbs :
       \/ id \in DOMAIN k.fbs /\ l.fbs[id] = k.fbs[id]
       \/ id \in ids /\ l.fbs[id].file = file
Calls(k, l, objects, handles, ids) ==
  k \in KernelTables /\ l \in KernelTables
  /\ LeavesOthers(k, l, objects) /\ NewOnly(k, l, handles, ids)

LEMMA TablesParts ==
  ASSUME NEW k \in KernelTables
  PROVE  /\ k = [gem |-> k.gem, fbs |-> k.fbs]
         /\ DOMAIN k.gem = Files /\ \A f \in Files : k.gem[f] \in Numbered(GemObjects)
         /\ k.fbs \in Numbered(FbEntries)
         /\ \A f \in Files : \A h \in DOMAIN k.gem[f] : h # 0 /\ k.gem[f][h] \in GemObjects
         /\ \A id \in DOMAIN k.fbs : /\ id # 0
                                     /\ k.fbs[id].file \in Files
                                     /\ k.fbs[id].objects \subseteq GemObjects
<1>1. /\ k = [gem |-> k.gem, fbs |-> k.fbs]
      /\ k.gem \in [Files -> Numbered(GemObjects)] /\ k.fbs \in Numbered(FbEntries)
  BY DEF KernelTables
<1>2. \A f \in Files : k.gem[f] \in Numbered(GemObjects)
  BY <1>1
<1>3. \A f \in Files : \A h \in DOMAIN k.gem[f] : h # 0 /\ k.gem[f][h] \in GemObjects
  BY <1>2, NumberedIs
<1>4. \A id \in DOMAIN k.fbs : id # 0 /\ k.fbs[id] \in FbEntries
  BY <1>1, NumberedIs
<1>5. \A e \in FbEntries : e.file \in Files /\ e.objects \subseteq GemObjects
  BY DEF FbEntries
<1>6. QED
  BY <1>1, <1>2, <1>3, <1>4, <1>5

\* Calls follow one another.
LEMMA CallsFollow ==
  ASSUME NEW k, NEW l, NEW m, NEW objects, NEW handles, NEW ids, NEW others, NEW fbs,
         Calls(k, l, objects, handles, ids), Calls(l, m, objects, others, fbs)
  PROVE  Calls(k, m, objects, handles \cup others, ids \cup fbs)
<1>1. LeavesOthers(k, m, objects)
  <2>1. ASSUME NEW f \in Files, NEW h \in DOMAIN k.gem[f], k.gem[f][h] \notin objects
        PROVE  h \in DOMAIN m.gem[f] /\ m.gem[f][h] = k.gem[f][h]
    <3>1. h \in DOMAIN l.gem[f] /\ l.gem[f][h] = k.gem[f][h]
      BY <2>1 DEF Calls, LeavesOthers
    <3>2. QED
      BY <2>1, <3>1 DEF Calls, LeavesOthers
  <2>2. ASSUME NEW id \in DOMAIN k.fbs, k.fbs[id].objects \cap objects = {}
        PROVE  id \in DOMAIN m.fbs /\ m.fbs[id] = k.fbs[id]
    <3>1. id \in DOMAIN l.fbs /\ l.fbs[id] = k.fbs[id]
      BY <2>2 DEF Calls, LeavesOthers
    <3>2. QED
      BY <2>2, <3>1 DEF Calls, LeavesOthers
  <2>3. QED
    BY <2>1, <2>2 DEF LeavesOthers
<1>2. NewOnly(k, m, handles \cup others, ids \cup fbs)
  <2>1. ASSUME NEW f \in Files, NEW h \in DOMAIN m.gem[f]
        PROVE  \/ h \in DOMAIN k.gem[f] /\ m.gem[f][h] = k.gem[f][h]
               \/ f = file /\ h \in handles \cup others
    <3>1. CASE f = file /\ h \in others
      BY <3>1
    <3>2. CASE h \in DOMAIN l.gem[f] /\ m.gem[f][h] = l.gem[f][h]
      BY <3>2 DEF Calls, NewOnly
    <3>3. QED
      BY <3>1, <3>2 DEF Calls, NewOnly
  <2>2. ASSUME NEW id \in DOMAIN m.fbs
        PROVE  \/ id \in DOMAIN k.fbs /\ m.fbs[id] = k.fbs[id]
               \/ id \in ids \cup fbs /\ m.fbs[id].file = file
    <3>1. CASE id \in fbs /\ m.fbs[id].file = file
      BY <3>1
    <3>2. CASE id \in DOMAIN l.fbs /\ m.fbs[id] = l.fbs[id]
      BY <3>2 DEF Calls, NewOnly
    <3>3. QED
      BY <3>1, <3>2 DEF Calls, NewOnly
  <2>3. QED
    BY <2>1, <2>2 DEF NewOnly
<1>3. QED
  BY <1>1, <1>2 DEF Calls

\* Nothing is said of what the tables do not have.
LEMMA CallsNothing ==
  ASSUME NEW k \in KernelTables, NEW objects
  PROVE  Calls(k, k, objects, {}, {})
BY DEF Calls, LeavesOthers, NewOnly

LEMMA CreatesAHandle ==
  ASSUME NEW k \in KernelTables, file \in Files, NEW object \in GemObjects,
         NEW l, l = Creates(k, file, object), NEW h, h = FreeHandle(k, file)
  PROVE  /\ l \in KernelTables /\ h \in Nat \ {0} /\ h \notin DOMAIN k.gem[file]
         /\ l.fbs = k.fbs /\ \A f \in Files \ {file} : l.gem[f] = k.gem[f]
         /\ DOMAIN l.gem[file] = DOMAIN k.gem[file] \cup {h}
         /\ l.gem[file][h] = object
         /\ \A n \in DOMAIN k.gem[file] : l.gem[file][n] = k.gem[file][n]
<1> DEFINE t == k.gem[file]
           u == Adds(t, object)
<1>1. /\ k = [gem |-> k.gem, fbs |-> k.fbs] /\ DOMAIN k.gem = Files
      /\ t \in Numbered(GemObjects)
  BY TablesParts
<1>2. /\ u \in Numbered(GemObjects) /\ DOMAIN u = DOMAIN t \cup {h}
      /\ u[h] = object /\ \A n \in DOMAIN t : u[n] = t[n]
      /\ h \in Nat \ {0} /\ h \notin DOMAIN t
  <2>1. h = FreeNumber(t) /\ u = Adds(t, object)
    BY DEF FreeHandle
  <2> HIDE DEF t, u
  <2>2. QED
    BY <1>1, <2>1, AddsANumber
<1>3. /\ l.fbs = k.fbs /\ l.gem = [k.gem EXCEPT ![file] = u]
      /\ l = [gem |-> l.gem, fbs |-> l.fbs]
  BY <1>1 DEF Creates
<1> HIDE DEF t, u
<1>4. l.gem[file] = u /\ \A f \in Files \ {file} : l.gem[f] = k.gem[f]
  BY <1>1, <1>3
<1>5. l \in KernelTables
  BY <1>1, <1>2, <1>3 DEF KernelTables
<1>6. QED
  BY <1>2, <1>3, <1>4, <1>5 DEF t

LEMMA CallsCreate ==
  ASSUME NEW k \in KernelTables, file \in Files, NEW object \in GemObjects, NEW objects
  PROVE  Calls(k, Creates(k, file, object), objects, {FreeHandle(k, file)}, {})
<1> DEFINE l == Creates(k, file, object)
           h == FreeHandle(k, file)
<1> HIDE DEF l, h
<1>1. /\ l \in KernelTables
      /\ l.fbs = k.fbs /\ \A f \in Files \ {file} : l.gem[f] = k.gem[f]
      /\ DOMAIN l.gem[file] = DOMAIN k.gem[file] \cup {h}
      /\ \A n \in DOMAIN k.gem[file] : l.gem[file][n] = k.gem[file][n]
  BY CreatesAHandle DEF l, h
<1>2. LeavesOthers(k, l, objects) /\ NewOnly(k, l, {h}, {})
  BY <1>1 DEF LeavesOthers, NewOnly
<1>3. QED
  BY <1>1, <1>2 DEF Calls, l, h

LEMMA ClosesNumbers ==
  ASSUME NEW k \in KernelTables, NEW f \in Files, NEW handles, NEW l, l = Closes(k, f, handles)
  PROVE  /\ l \in KernelTables
         /\ l.fbs = k.fbs /\ \A g \in Files \ {f} : l.gem[g] = k.gem[g]
         /\ DOMAIN l.gem[f] = DOMAIN k.gem[f] \ handles
         /\ \A n \in DOMAIN l.gem[f] : l.gem[f][n] = k.gem[f][n]
<1> DEFINE t == k.gem[f]
           u == Removes(t, handles)
<1>1. /\ k = [gem |-> k.gem, fbs |-> k.fbs] /\ DOMAIN k.gem = Files
      /\ t \in Numbered(GemObjects)
  BY TablesParts
<1>2. /\ u \in Numbered(GemObjects) /\ DOMAIN u = DOMAIN t \ handles
      /\ \A n \in DOMAIN u : u[n] = t[n]
  <2>1. u = Removes(t, handles)
    OBVIOUS
  <2> HIDE DEF t, u
  <2>2. u \in Numbered(GemObjects)
    BY <1>1, <2>1, RemovesNumbers
  <2>3. DOMAIN u = DOMAIN t \ handles /\ \A n \in DOMAIN u : u[n] = t[n]
    BY <2>1 DEF Removes, Restrict
  <2>4. QED
    BY <2>2, <2>3
<1>3. /\ l.fbs = k.fbs /\ l.gem = [k.gem EXCEPT ![f] = u]
      /\ l = [gem |-> l.gem, fbs |-> l.fbs]
  BY <1>1 DEF Closes
<1> HIDE DEF t, u
<1>4. l.gem[f] = u /\ \A g \in Files \ {f} : l.gem[g] = k.gem[g]
  BY <1>1, <1>3
<1>5. l \in KernelTables
  BY <1>1, <1>2, <1>3 DEF KernelTables
<1>6. QED
  BY <1>2, <1>3, <1>4, <1>5 DEF t

LEMMA CallsClose ==
  ASSUME NEW k \in KernelTables, NEW f \in Files, NEW handles, NEW objects,
         \A h \in handles \cap DOMAIN k.gem[f] : k.gem[f][h] \in objects
  PROVE  Calls(k, Closes(k, f, handles), objects, {}, {})
<1> DEFINE l == Closes(k, f, handles)
<1> HIDE DEF l
<1>1. /\ l \in KernelTables /\ l.fbs = k.fbs /\ \A g \in Files \ {f} : l.gem[g] = k.gem[g]
      /\ DOMAIN l.gem[f] = DOMAIN k.gem[f] \ handles
      /\ \A n \in DOMAIN l.gem[f] : l.gem[f][n] = k.gem[f][n]
  BY ClosesNumbers DEF l
<1>2. LeavesOthers(k, l, objects) /\ NewOnly(k, l, {}, {})
  BY <1>1 DEF LeavesOthers, NewOnly
<1>3. QED
  BY <1>1, <1>2 DEF Calls, l

LEMMA AddsAFramebuffer ==
  ASSUME NEW k \in KernelTables, NEW f \in Files, NEW handles,
         \A h \in handles : h \in DOMAIN k.gem[f],
         NEW l, l = AddsFb(k, f, handles), NEW id, id = FreeFb(k)
  PROVE  /\ l \in KernelTables /\ l.gem = k.gem /\ id \in Nat \ {0} /\ id \notin DOMAIN k.fbs
         /\ DOMAIN l.fbs = DOMAIN k.fbs \cup {id}
         /\ l.fbs[id] = [file |-> f, objects |-> {k.gem[f][h] : h \in handles}]
         /\ \A n \in DOMAIN k.fbs : l.fbs[n] = k.fbs[n]
<1> DEFINE e == [file |-> f, objects |-> {k.gem[f][h] : h \in handles}]
           u == Adds(k.fbs, e)
<1>1. k = [gem |-> k.gem, fbs |-> k.fbs] /\ k.fbs \in Numbered(FbEntries)
  BY TablesParts
<1>2. e \in FbEntries
  <2>1. \A h \in handles : k.gem[f][h] \in GemObjects
    BY TablesParts
  <2>2. QED
    BY <2>1 DEF FbEntries
<1>3. /\ u \in Numbered(FbEntries) /\ DOMAIN u = DOMAIN k.fbs \cup {id}
      /\ u[id] = e /\ \A n \in DOMAIN k.fbs : u[n] = k.fbs[n]
      /\ id \in Nat \ {0} /\ id \notin DOMAIN k.fbs
  <2>1. id = FreeNumber(k.fbs) /\ u = Adds(k.fbs, e)
    BY DEF FreeFb
  <2> HIDE DEF e, u
  <2>2. QED
    BY <1>1, <1>2, <2>1, AddsANumber
<1>4. l.gem = k.gem /\ l.fbs = u /\ l = [gem |-> l.gem, fbs |-> l.fbs]
  BY <1>1 DEF AddsFb
<1> HIDE DEF e, u
<1>5. l \in KernelTables
  BY <1>1, <1>3, <1>4 DEF KernelTables
<1>6. QED
  BY <1>3, <1>4, <1>5 DEF e

LEMMA CallsAddFb ==
  ASSUME NEW k \in KernelTables, file \in Files, NEW handles,
         \A h \in handles : h \in DOMAIN k.gem[file], NEW objects
  PROVE  Calls(k, AddsFb(k, file, handles), objects, {}, {FreeFb(k)})
<1> DEFINE l == AddsFb(k, file, handles)
           id == FreeFb(k)
           e == [file |-> file, objects |-> {k.gem[file][h] : h \in handles}]
<1> HIDE DEF l, id, e
<1>1. /\ l \in KernelTables /\ l.gem = k.gem /\ DOMAIN l.fbs = DOMAIN k.fbs \cup {id}
      /\ l.fbs[id] = e /\ \A n \in DOMAIN k.fbs : l.fbs[n] = k.fbs[n]
  BY AddsAFramebuffer DEF l, id, e
<1>2. e.file = file
  BY DEF e
<1>3. LeavesOthers(k, l, objects) /\ NewOnly(k, l, {}, {id})
  BY <1>1, <1>2 DEF LeavesOthers, NewOnly
<1>4. QED
  BY <1>1, <1>3 DEF Calls, l, id

LEMMA RemovesFramebuffers ==
  ASSUME NEW k \in KernelTables, NEW f, NEW ids, NEW l, l = RemovesFbs(k, f, ids)
  PROVE  /\ l \in KernelTables /\ l.gem = k.gem
         /\ \A id \in DOMAIN l.fbs : id \in DOMAIN k.fbs /\ l.fbs[id] = k.fbs[id]
         /\ \A id \in DOMAIN k.fbs : id \in DOMAIN l.fbs <=> ~(id \in ids /\ k.fbs[id].file = f)
<1> DEFINE S == {id \in ids \cap DOMAIN k.fbs : k.fbs[id].file = f}
           u == Removes(k.fbs, S)
<1>1. k = [gem |-> k.gem, fbs |-> k.fbs] /\ k.fbs \in Numbered(FbEntries)
  BY TablesParts
<1>2. /\ u \in Numbered(FbEntries) /\ DOMAIN u = DOMAIN k.fbs \ S
      /\ \A n \in DOMAIN u : u[n] = k.fbs[n]
  <2>1. u = Removes(k.fbs, S)
    OBVIOUS
  <2> HIDE DEF S, u
  <2>2. u \in Numbered(FbEntries)
    BY <1>1, <2>1, RemovesNumbers
  <2>3. DOMAIN u = DOMAIN k.fbs \ S /\ \A n \in DOMAIN u : u[n] = k.fbs[n]
    BY <2>1 DEF Removes, Restrict
  <2>4. QED
    BY <2>2, <2>3
<1>3. l.gem = k.gem /\ l.fbs = u /\ l = [gem |-> l.gem, fbs |-> l.fbs]
  BY <1>1 DEF RemovesFbs
<1> HIDE DEF u
<1>4. l \in KernelTables
  BY <1>1, <1>2, <1>3 DEF KernelTables
<1>5. QED
  BY <1>2, <1>3, <1>4

LEMMA CallsRemoveFbs ==
  ASSUME NEW k \in KernelTables, NEW f, NEW ids, NEW objects,
         \A id \in ids \cap DOMAIN k.fbs :
           k.fbs[id].file = f => k.fbs[id].objects \cap objects # {}
  PROVE  Calls(k, RemovesFbs(k, f, ids), objects, {}, {})
<1> DEFINE l == RemovesFbs(k, f, ids)
<1> HIDE DEF l
<1>1. /\ l \in KernelTables /\ l.gem = k.gem
      /\ \A id \in DOMAIN l.fbs : id \in DOMAIN k.fbs /\ l.fbs[id] = k.fbs[id]
      /\ \A id \in DOMAIN k.fbs : id \in DOMAIN l.fbs <=> ~(id \in ids /\ k.fbs[id].file = f)
  BY RemovesFramebuffers DEF l
<1>2. LeavesOthers(k, l, objects) /\ NewOnly(k, l, {}, {})
  BY <1>1 DEF LeavesOthers, NewOnly
<1>3. QED
  BY <1>1, <1>2 DEF Calls, l

-----------------------------------------------------------------------------
(* Imports.                                                                *)

\* The prime steps of an import, one after the other: every plane is given a
\* handle, all that is new are handles given, and they name nothing else.
PrimedFrom(k, n, objects, p) ==
  LET named == {objects[i] : i \in 1..n} IN
  /\ p.k \in KernelTables /\ p.k.fbs = k.fbs
  /\ \A X : named \subseteq X => Calls(k, p.k, X, p.handles, {})
  /\ Name(p.k, file, p.handles, named)
  /\ \A x \in named : \E h \in p.handles : p.k.gem[file][h] = x
  /\ \A h \in DOMAIN k.gem[file] : h \in DOMAIN p.k.gem[file] /\ p.k.gem[file][h] = k.gem[file][h]
  /\ \A f \in Files \ {file} : p.k.gem[f] = k.gem[f]

LEMMA PrimesAPlane ==
  ASSUME NEW k \in KernelTables, file \in Files, NEW n \in Nat \ {0}, NEW objects,
         objects[n] \in GemObjects, NEW p, PrimedFrom(k, n - 1, objects, p),
         NEW l, l = Primes(p.k, file, objects[n]), NEW given, given = HandlesOf(l, file, objects[n])
  PROVE  PrimedFrom(k, n, objects, [k |-> l, handles |-> p.handles \cup given])
<1> DEFINE x == objects[n]
           had == HandlesOf(p.k, file, x)
           before == {objects[i] : i \in 1..n - 1}
           named == {objects[i] : i \in 1..n}
           H == p.handles \cup given
<1>1. /\ p.k \in KernelTables /\ p.k.fbs = k.fbs
      /\ \A X : before \subseteq X => Calls(k, p.k, X, p.handles, {})
      /\ Name(p.k, file, p.handles, before)
      /\ \A y \in before : \E h \in p.handles : p.k.gem[file][h] = y
      /\ \A h \in DOMAIN k.gem[file] :
           h \in DOMAIN p.k.gem[file] /\ p.k.gem[file][h] = k.gem[file][h]
      /\ \A f \in Files \ {file} : p.k.gem[f] = k.gem[f]
  BY DEF PrimedFrom
<1>2. named = before \cup {x}
  <2>1. 1..n = 1..(n - 1) \cup {n}
    OBVIOUS
  <2>2. QED
    BY <2>1
<1> HIDE DEF before, named
<1>3. /\ l \in KernelTables /\ l.fbs = p.k.fbs /\ given # {}
      /\ \A X : x \in X => Calls(p.k, l, X, given, {})
      /\ \A h \in DOMAIN p.k.gem[file] :
           h \in DOMAIN l.gem[file] /\ l.gem[file][h] = p.k.gem[file][h]
      /\ \A f \in Files \ {file} : l.gem[f] = p.k.gem[f]
  <2>1. CASE had # {}
    <3>1. l = p.k /\ given = had
      BY <2>1 DEF Primes
    <3>2. \A X : Calls(p.k, l, X, given, {})
      <4>1. \A X : Calls(p.k, p.k, X, {}, {})
        BY <1>1, CallsNothing
      <4>2. QED
        BY <3>1, <4>1 DEF Calls, NewOnly
    <3>3. QED
      BY <1>1, <2>1, <3>1, <3>2
  <2>2. CASE had = {}
    <3> DEFINE h == FreeHandle(p.k, file)
    <3>1. l = Creates(p.k, file, x)
      BY <2>2 DEF Primes
    <3> HIDE DEF h
    <3>2. /\ l.fbs = p.k.fbs /\ DOMAIN l.gem[file] = DOMAIN p.k.gem[file] \cup {h}
          /\ l.gem[file][h] = x /\ \A m \in DOMAIN p.k.gem[file] : l.gem[file][m] = p.k.gem[file][m]
          /\ \A f \in Files \ {file} : l.gem[f] = p.k.gem[f]
      BY <1>1, <3>1, CreatesAHandle DEF h
    <3>3. \A X : Calls(p.k, l, X, {h}, {})
      BY <1>1, <3>1, CallsCreate DEF h
    <3>4. h \in given
      BY <3>2 DEF HandlesOf
    <3>5. \A X : Calls(p.k, l, X, given, {})
      BY <3>3, <3>4 DEF Calls, NewOnly
    <3>6. l \in KernelTables
      BY <3>5 DEF Calls
    <3>7. QED
      BY <3>2, <3>4, <3>5, <3>6
  <2>3. QED
    BY <2>1, <2>2
<1>4. \A X : named \subseteq X => Calls(k, l, X, H, {})
  <2>1. SUFFICES ASSUME NEW X, named \subseteq X PROVE Calls(k, l, X, H, {})
    OBVIOUS
  <2>2. Calls(k, p.k, X, p.handles, {}) /\ Calls(p.k, l, X, given, {})
    BY <1>1, <1>2, <1>3, <2>1
  <2>3. Calls(k, l, X, p.handles \cup given, {} \cup {})
    BY <2>2, CallsFollow
  <2>4. QED
    BY <2>3
<1>5. \A h \in p.handles : h \in DOMAIN l.gem[file] /\ l.gem[file][h] = p.k.gem[file][h]
  BY <1>1, <1>3 DEF Name
<1>6. \A h \in given : h \in DOMAIN l.gem[file] /\ l.gem[file][h] = x
  BY DEF HandlesOf
<1>7. Name(l, file, H, named)
  <2>1. \A h \in p.handles : p.k.gem[file][h] \in before
    BY <1>1 DEF Name
  <2>2. QED
    BY <1>2, <1>5, <1>6, <2>1 DEF Name
<1>8. \A y \in named : \E h \in H : l.gem[file][h] = y
  <2>1. ASSUME NEW y \in named PROVE \E h \in H : l.gem[file][h] = y
    <3>1. CASE y = x
      BY <1>3, <1>6, <3>1
    <3>2. CASE y \in before
      <4>1. PICK h \in p.handles : p.k.gem[file][h] = y
        BY <1>1, <3>2
      <4>2. QED
        BY <1>5, <4>1
    <3>3. QED
      BY <1>2, <3>1, <3>2
  <2>2. QED
    BY <2>1
<1>9. /\ \A h \in DOMAIN k.gem[file] : h \in DOMAIN l.gem[file] /\ l.gem[file][h] = k.gem[file][h]
      /\ \A f \in Files \ {file} : l.gem[f] = k.gem[f]
  BY <1>1, <1>3
<1> DEFINE q == [k |-> l, handles |-> H]
<1>10. q.k = l /\ q.handles = H
  OBVIOUS
<1> HIDE DEF q, H
<1>11. PrimedFrom(k, n, objects, q)
  BY <1>1, <1>3, <1>4, <1>7, <1>8, <1>9, <1>10 DEF PrimedFrom, named
<1>12. QED
  BY <1>11 DEF q, H

LEMMA ImportedIsPrimed ==
  ASSUME NEW k \in KernelTables, file \in Files, NEW objects \in Seq(GemObjects)
  PROVE  \A n \in 0..Len(objects) : PrimedFrom(k, n, objects, Imported(k, objects)[n])
<1> DEFINE N == Len(objects)
           V == [k : KernelTables, handles : SUBSET Nat]
           base == [k |-> k, handles |-> {}]
           With(n, l, H) == [k |-> l, handles |-> H \cup HandlesOf(l, file, objects[n])]
           Next(n, v) == With(n, Primes(v.k, file, objects[n]), v.handles)
           Is(f) == f = [n \in 0..N |-> IF n = 0 THEN base ELSE Next(n, f[n - 1])]
           step == [n \in 1..N |-> [v \in V |-> Next(n, v)]]
           f == CHOOSE f : Is(f)
<1>1. N \in Nat /\ \A n \in 1..N : n \in Nat \ {0} /\ objects[n] \in GemObjects
  OBVIOUS
<1>2. Imported(k, objects) = f
  BY DEF Imported
<1> HIDE DEF N
<1>3. \A n \in 1..N : \A v \in V : Next(n, v) \in V
  <2>1. SUFFICES ASSUME NEW n \in 1..N, NEW v \in V PROVE Next(n, v) \in V
    OBVIOUS
  <2> DEFINE l == Primes(v.k, file, objects[n])
  <2>2. v.k \in KernelTables /\ v.handles \in SUBSET Nat /\ objects[n] \in GemObjects
    BY <1>1
  <2>3. l \in KernelTables
    <3>1. Creates(v.k, file, objects[n]) \in KernelTables
      BY <2>2, CreatesAHandle
    <3>2. QED
      BY <2>2, <3>1 DEF Primes
  <2>4. HandlesOf(l, file, objects[n]) \in SUBSET Nat
    <3> HIDE DEF l
    <3>1. DOMAIN l.gem[file] \in SUBSET Nat
      BY <2>3, TablesParts, NumberedIs
    <3>2. QED
      BY <3>1 DEF HandlesOf
  <2> HIDE DEF l
  <2>5. With(n, l, v.handles) \in V
    BY <2>2, <2>3, <2>4
  <2>6. QED
    BY <2>5 DEF l
<1>4. base \in V
  OBVIOUS
<1> HIDE DEF V, base, Next
<1>5. Is(f)
  <2>1. Steps(N, V, base, step)
    <3>1. step \in [1..N -> [V -> V]]
      BY <1>3
    <3> HIDE DEF step
    <3>2. QED
      BY <1>1, <1>4, <3>1 DEF Steps
  <2>2. PICK g : Iterates(N, V, base, step, g)
    <3> HIDE DEF step
    <3>1. QED
      BY <2>1, IteratesExist
  <2>3. g \in [0..N -> V] /\ g[0] = base
    BY <2>2 DEF Iterates
  <2>4. \A n \in 1..N : g[n - 1] \in V /\ g[n] = step[n][g[n - 1]]
    <3> HIDE DEF step
    <3>1. QED
      BY <1>1, <2>2, IteratesStep
  <2>5. \A n \in 1..N : g[n] = Next(n, g[n - 1])
    BY <2>4
  <2>6. \A n \in 0..N : n = 0 \/ n \in 1..N
    BY <1>1
  <2> HIDE DEF step
  <2>7. \A n \in 0..N : g[n] = IF n = 0 THEN base ELSE Next(n, g[n - 1])
    BY <2>3, <2>5, <2>6
  <2>8. Is(g)
    BY <2>3, <2>7
  <2>9. QED
    BY <2>8
<1> HIDE DEF f, step
<1>6. /\ f[0] = base
      /\ \A n \in 1..N : n \in 0..N /\ n - 1 \in 0..N /\ f[n] = Next(n, f[n - 1])
  <2>1. 0 \in 0..N /\ \A n \in 1..N : n \in 0..N /\ n - 1 \in 0..N /\ n # 0
    BY <1>1
  <2>2. QED
    BY <1>5, <2>1
<1> DEFINE T == {n \in 0..N : PrimedFrom(k, n, objects, f[n])}
<1>7. 0 \in T
  <2>1. {objects[i] : i \in 1..0} = {}
    OBVIOUS
  <2>2. f[0].k = k /\ f[0].handles = {}
    BY <1>6 DEF base
  <2>3. \A X : Calls(k, k, X, {}, {})
    BY CallsNothing
  <2>4. PrimedFrom(k, 0, objects, f[0])
    BY <2>1, <2>2, <2>3 DEF PrimedFrom, Name
  <2>5. QED
    BY <1>1, <2>4
<1>8. ASSUME NEW n \in 1..N, n - 1 \in T PROVE n \in T
  <2> DEFINE p == f[n - 1]
             l == Primes(p.k, file, objects[n])
             given == HandlesOf(l, file, objects[n])
  <2>1. PrimedFrom(k, n - 1, objects, p) /\ n \in 0..N /\ f[n] = Next(n, p)
    BY <1>6, <1>8
  <2>2. f[n] = [k |-> l, handles |-> p.handles \cup given]
    BY <2>1 DEF Next
  <2> HIDE DEF p
  <2>3. PrimedFrom(k, n, objects, [k |-> l, handles |-> p.handles \cup given])
    <3>1. objects[n] \in GemObjects /\ n \in Nat \ {0}
      BY <1>1
    <3> HIDE DEF l, given
    <3>2. QED
      BY <2>1, <3>1, PrimesAPlane DEF l, given
  <2>4. QED
    BY <2>1, <2>2, <2>3
<1> HIDE DEF T
<1>9. 0..N \subseteq T
  BY <1>1, <1>7, <1>8, Reaches
<1>10. QED
  BY <1>2, <1>9 DEF T, N

\* What was new and is closed again is not left.
LEMMA ClosesTheNew ==
  ASSUME file \in Files, NEW k, NEW l, NEW objects, NEW handles, NEW ids,
         Calls(k, l, objects, handles, ids), NEW S,
         \A h \in S \cap DOMAIN l.gem[file] : l.gem[file][h] \in objects,
         NEW m, m = Closes(l, file, S)
  PROVE  /\ Calls(k, m, objects, handles \ S, ids) /\ m.fbs = l.fbs
         /\ DOMAIN m.gem[file] = DOMAIN l.gem[file] \ S
<1>1. l \in KernelTables /\ m \in KernelTables
      /\ Calls(l, m, objects, {}, {})
      /\ DOMAIN m.gem[file] = DOMAIN l.gem[file] \ S /\ m.fbs = l.fbs
  <2>1. l \in KernelTables
    BY DEF Calls
  <2>2. Calls(l, m, objects, {}, {})
    BY <2>1, CallsClose
  <2>3. QED
    BY <2>1, <2>2, ClosesNumbers
<1>2. Calls(k, m, objects, handles \cup {}, ids \cup {})
  BY <1>1, CallsFollow
<1>3. Calls(k, m, objects, handles \ S, ids)
  BY <1>1, <1>2 DEF Calls, NewOnly
<1>4. QED
  BY <1>1, <1>3

\* From k to l nothing changes on another file, and no framebuffer goes.
OnlyThisFile(k, l) ==
  /\ \A f \in Files \ {file} : l.gem[f] = k.gem[f]
  /\ \A id \in DOMAIN k.fbs : id \in DOMAIN l.fbs /\ l.fbs[id] = k.fbs[id]

\* import_planes gives all planes a handle and the framebuffer, or nothing.
ImportGives(k, i, X, objects, whole) ==
  /\ i.k \in KernelTables /\ i.handles \in SUBSET Nat /\ i.fb \in Nat
  /\ OnlyThisFile(k, i.k)
  /\ ~whole => /\ Calls(k, i.k, objects, {}, {})
               /\ i.file = 0 /\ i.handles = {} /\ i.fb = 0
  /\ whole => /\ Calls(k, i.k, objects, i.handles, {i.fb})
              /\ i.file = file /\ i.handles # {} /\ i.fb # 0
              /\ Name(i.k, file, i.handles, X) /\ AddedFb(i.k, i.fb, file, X)
              /\ \A h \in DOMAIN k.gem[file] :
                   h \in DOMAIN i.k.gem[file] /\ i.k.gem[file][h] = k.gem[file][h]

LEMMA ImportsOrNot ==
  ASSUME NEW k \in KernelTables, file \in Files, NEW objects \in Seq(GemObjects),
         objects # <<>>, NEW taken \in 0..Len(objects) + 1,
         NEW X, X = {objects[n] : n \in 1..Len(objects)}, NEW Y, X \subseteq Y,
         NEW i, i = ImportPlanes(k, objects, taken)
  PROVE  ImportGives(k, i, X, Y, taken > Len(objects))
<1> DEFINE N == Len(objects)
           part(n) == {objects[j] : j \in 1..n}
           all == Imported(k, objects)[N]
           some == Imported(k, objects)[taken]
<1>1. N \in Nat \ {0} /\ taken \in Nat
  BY EmptySeq, LenProperties
<1>2. CASE taken <= N
  <2>1. PrimedFrom(k, taken, objects, some) /\ part(taken) \subseteq X
    <3>1. taken \in 0..N
      BY <1>1, <1>2
    <3> HIDE DEF N
    <3>2. PrimedFrom(k, taken, objects, some)
      BY <3>1, ImportedIsPrimed DEF N
    <3>3. 1..taken \subseteq 1..N
      BY <1>1, <3>1
    <3>4. QED
      BY <3>2, <3>3 DEF N
  <2>2. i = [k |-> Closes(some.k, file, some.handles), file |-> 0, handles |-> {}, fb |-> 0]
    BY <1>1, <1>2 DEF ImportPlanes
  <2> HIDE DEF some, N, part
  <2>3. Calls(k, some.k, Y, some.handles, {}) /\ Name(some.k, file, some.handles, Y)
        /\ some.k.fbs = k.fbs /\ \A f \in Files \ {file} : some.k.gem[f] = k.gem[f]
    BY <2>1 DEF PrimedFrom, Name, part
  <2>4. /\ Calls(k, i.k, Y, some.handles \ some.handles, {}) /\ i.k.fbs = some.k.fbs
        /\ \A f \in Files \ {file} : i.k.gem[f] = some.k.gem[f]
    <3>1. i.k = Closes(some.k, file, some.handles)
      BY <2>2
    <3>2. \A h \in some.handles \cap DOMAIN some.k.gem[file] : some.k.gem[file][h] \in Y
      BY <2>3 DEF Name
    <3>3. Calls(k, i.k, Y, some.handles \ some.handles, {})
      BY <2>3, <3>1, <3>2, ClosesTheNew
    <3>4. some.k \in KernelTables
      BY <2>3 DEF Calls
    <3>5. i.k.fbs = some.k.fbs /\ \A f \in Files \ {file} : i.k.gem[f] = some.k.gem[f]
      BY <3>1, <3>4, ClosesNumbers
    <3>6. QED
      BY <3>3, <3>5
  <2>5. some.handles \ some.handles = {}
    OBVIOUS
  <2>6. Calls(k, i.k, Y, {}, {})
    BY <2>4, <2>5
  <2>7. i.k \in KernelTables
    BY <2>6 DEF Calls
  <2>8. ~(taken > Len(objects))
    BY <1>1, <1>2 DEF N
  <2>9. OnlyThisFile(k, i.k)
    BY <2>3, <2>4 DEF OnlyThisFile
  <2>10. QED
    BY <2>2, <2>6, <2>7, <2>8, <2>9 DEF ImportGives
<1>3. CASE taken > N
  <2> DEFINE l == AddsFb(all.k, file, all.handles)
             id == FreeFb(all.k)
  <2>1. PrimedFrom(k, N, objects, all) /\ part(N) = X
    <3>1. N \in 0..N
      BY <1>1
    <3> HIDE DEF N
    <3>2. PrimedFrom(k, N, objects, all)
      BY <3>1, ImportedIsPrimed DEF N
    <3>3. QED
      BY <3>2 DEF N
  <2>2. i = [k |-> l, file |-> file, handles |-> all.handles, fb |-> id]
    BY <1>3 DEF ImportPlanes
  <2> HIDE DEF all, l, id, N, part
  <2>3. /\ Calls(k, all.k, Y, all.handles, {}) /\ Name(all.k, file, all.handles, X)
        /\ \A x \in X : \E h \in all.handles : all.k.gem[file][h] = x
        /\ all.k \in KernelTables
        /\ \A h \in DOMAIN k.gem[file] :
             h \in DOMAIN all.k.gem[file] /\ all.k.gem[file][h] = k.gem[file][h]
        /\ all.k.fbs = k.fbs /\ \A f \in Files \ {file} : all.k.gem[f] = k.gem[f]
    BY <2>1 DEF PrimedFrom, part
  <2>4. all.handles # {}
    <3>1. objects[1] \in X
      BY <1>1 DEF N
    <3>2. QED
      BY <2>3, <3>1
  <2>5. {all.k.gem[file][h] : h \in all.handles} = X
    <3>1. \A h \in all.handles : all.k.gem[file][h] \in X
      BY <2>3 DEF Name
    <3>2. \A x \in X : \E h \in all.handles : all.k.gem[file][h] = x
      BY <2>3
    <3> DEFINE H == all.handles
               at(h) == all.k.gem[file][h]
    <3>3. (\A h \in H : at(h) \in X) /\ (\A x \in X : \E h \in H : at(h) = x)
      BY <3>1, <3>2
    <3> HIDE DEF H, at
    <3>4. {at(h) : h \in H} = X
      BY <3>3
    <3>5. QED
      BY <3>4 DEF H, at
  <2>6. /\ Calls(all.k, l, Y, {}, {id}) /\ l.gem = all.k.gem /\ id \in Nat \ {0}
        /\ AddedFb(l, id, file, X)
        /\ \A n \in DOMAIN all.k.fbs : n \in DOMAIN l.fbs /\ l.fbs[n] = all.k.fbs[n]
    <3>1. \A h \in all.handles : h \in DOMAIN all.k.gem[file]
      BY <2>3 DEF Name
    <3>2. /\ Calls(all.k, l, Y, {}, {id}) /\ l.gem = all.k.gem /\ id \in Nat \ {0}
          /\ AddedFb(l, id, file, {all.k.gem[file][h] : h \in all.handles})
          /\ \A n \in DOMAIN all.k.fbs : n \in DOMAIN l.fbs /\ l.fbs[n] = all.k.fbs[n]
      <4>1. l = AddsFb(all.k, file, all.handles) /\ id = FreeFb(all.k)
        BY DEF l, id
      <4>2. Calls(all.k, l, Y, {}, {id})
        BY <2>3, <3>1, <4>1, CallsAddFb
      <4>3. l.gem = all.k.gem /\ id \in Nat \ {0} /\ DOMAIN l.fbs = DOMAIN all.k.fbs \cup {id}
            /\ l.fbs[id] = [file |-> file, objects |-> {all.k.gem[file][h] : h \in all.handles}]
            /\ \A n \in DOMAIN all.k.fbs : l.fbs[n] = all.k.fbs[n]
        BY <2>3, <3>1, <4>1, AddsAFramebuffer
      <4>4. QED
        BY <4>2, <4>3 DEF AddedFb
    <3>3. QED
      BY <2>5, <3>2
  <2>7. Calls(k, l, Y, all.handles, {id})
    <3>1. Calls(k, l, Y, all.handles \cup {}, {} \cup {id})
      BY <2>3, <2>6, CallsFollow
    <3>2. QED
      BY <3>1
  <2>8. Name(l, file, all.handles, X) /\ l \in KernelTables
    BY <2>3, <2>6, <2>7 DEF Name, Calls
  <2>9. all.handles \in SUBSET Nat
    <3>1. DOMAIN all.k.gem[file] \in SUBSET Nat
      BY <2>3, TablesParts, NumberedIs
    <3>2. QED
      BY <2>3, <3>1 DEF Name
  <2>10. taken > Len(objects)
    BY <1>3 DEF N
  <2>11. OnlyThisFile(k, l)
    BY <2>3, <2>6 DEF OnlyThisFile
  <2>12. QED
    BY <2>2, <2>3, <2>4, <2>6, <2>7, <2>8, <2>9, <2>10, <2>11 DEF ImportGives
<1>4. QED
  BY <1>1, <1>2, <1>3

-----------------------------------------------------------------------------
(* What a buffer has.                                                      *)

BufferRecords ==
  [kind : {"none", "dumb", "import", "gbm"}, file : Files \cup {0}, handles : SUBSET Nat,
   fb : Nat, planes : Layouts \cup {<<>>}, bo : Nat, boFile : Files \cup {0}]

\* What each kind of buffer has, and that what is torn down has nothing.
BufferFits(b) ==
  /\ b \in BufferRecords
  /\ b.file = 0 => b.handles = {} /\ b.fb = 0
  /\ b.kind = "none" => b = NoBuffer
  /\ b.kind = "dumb" => b.planes = <<>> /\ b.bo = 0 /\ (b.handles = {} => b.file = 0)
  /\ b.kind = "import" => b.planes \in Layouts /\ b.bo = 0
  /\ b.kind = "gbm" => b.planes = <<>> /\ b.bo # 0 /\ b.boFile \in Files /\ b.file = b.boFile
  /\ b.kind # "gbm" => b.boFile = 0

HasHandle(b, f, h) == (b.file = f /\ h \in b.handles) \/ (b.boFile = f /\ b.bo = h)

\* The objects an owner deals with, for these planes and those it has.
Concerns(o, planes) ==
  {Made(o)} \cup {Produced(d) : d \in ToSet(planes) \cup ToSet(buffers[o].planes)}

ProducedOf(planes) == {Produced(d) : d \in ToSet(planes)}

LEMMA LayoutsArePlanes ==
  ASSUME NEW planes \in Layouts
  PROVE  /\ planes \in Seq(DmaBufs) /\ planes # <<>>
         /\ Names(planes) \in Seq(GemObjects) /\ Names(planes) # <<>>
         /\ Len(Names(planes)) = Len(planes) /\ Len(planes) \in Nat \ {0}
         /\ ToSet(Names(planes)) = {Produced(d) : d \in ToSet(planes)}
         /\ ToSet(Names(planes)) = {Names(planes)[n] : n \in 1..Len(Names(planes))}
         /\ ToSet(planes) # {}
<1> DEFINE n == Len(planes)
           s == Names(planes)
<1>1. planes \in Seq(DmaBufs) /\ planes # <<>>
  BY GemAssumption
<1>2. n \in Nat \ {0} /\ DOMAIN planes = 1..n /\ \A i \in 1..n : planes[i] \in DmaBufs
  BY <1>1, EmptySeq, LenProperties, ElementOfSeq
<1> HIDE DEF n
<1>3. s = [i \in 1..n |-> Produced(planes[i])]
  BY <1>2 DEF Names
<1>4. \A i \in 1..n : Produced(planes[i]) \in GemObjects
  BY <1>2 DEF GemObjects
<1>5. s \in Seq(GemObjects) /\ Len(s) = n /\ DOMAIN s = 1..n
  BY <1>2, <1>3, <1>4
<1>6. s # <<>>
  BY <1>2, <1>5
<1>7. ToSet(s) = {Produced(d) : d \in ToSet(planes)} /\ ToSet(s) = {s[j] : j \in 1..Len(s)}
  BY <1>2, <1>3, <1>5 DEF ToSet
<1>8. ToSet(planes) # {}
  <2>1. 1 \in DOMAIN planes
    BY <1>2
  <2>2. planes[1] \in ToSet(planes)
    BY <2>1 DEF ToSet
  <2>3. QED
    BY <2>2
<1>9. QED
  BY <1>1, <1>2, <1>5, <1>6, <1>7, <1>8 DEF n

LEMMA FitsHasItsFields ==
  ASSUME NEW b, BufferFits(b)
  PROVE  /\ b.kind \in {"none", "dumb", "import", "gbm"}
         /\ b.file \in Files \cup {0} /\ b.handles \in SUBSET Nat /\ b.fb \in Nat
         /\ b.planes \in Layouts \cup {<<>>} /\ b.bo \in Nat /\ b.boFile \in Files \cup {0}
BY DEF BufferFits, BufferRecords

LEMMA FilesAreNumbers ==
  ASSUME NEW f \in Files
  PROVE  f \in Nat \ {0}
BY GemAssumption DEF Files

LEMMA NoBufferFits ==
  ASSUME NEW k, NEW o
  PROVE  BufferFits(NoBuffer) /\ BufferStands(k, o, NoBuffer)
<1>1. NoBuffer \in BufferRecords
  BY DEF NoBuffer, BufferRecords
<1>2. QED
  BY <1>1 DEF NoBuffer, BufferFits, BufferStands, Name

\* What an owner has is for objects, of which there are some.
LEMMA ObjectsAreConcerns ==
  ASSUME NEW o \in Owners, NEW b, BufferFits(b), NEW planes,
         ToSet(b.planes) \subseteq ToSet(planes) \cup ToSet(buffers[o].planes)
  PROVE  /\ ObjectsOf(o, b) \subseteq Concerns(o, planes) /\ ObjectsOf(o, b) # {}
         /\ Made(o) \in Concerns(o, planes)
<1>1. CASE b.kind = "import"
  <2>1. b.planes \in Layouts /\ ObjectsOf(o, b) = {Produced(d) : d \in ToSet(b.planes)}
        /\ ToSet(b.planes) # {}
    BY <1>1, LayoutsArePlanes DEF BufferFits, ObjectsOf
  <2>2. QED
    BY <2>1 DEF Concerns
<1>2. CASE b.kind # "import"
  BY <1>2 DEF ObjectsOf, Concerns
<1>3. QED
  BY <1>1, <1>2

\* Different owners, with different dma-bufs, deal with different objects.
LEMMA OthersAreDistinct ==
  ASSUME NEW o \in Owners, NEW p \in Owners, o # p, NEW planes, NEW b, BufferFits(b),
         ToSet(b.planes) \cap (ToSet(planes) \cup ToSet(buffers[o].planes)) = {}
  PROVE  ObjectsOf(p, b) \cap Concerns(o, planes) = {}
<1>1. /\ Made(p) # Made(o)
      /\ \A d : Made(p) # Produced(d) /\ Made(o) # Produced(d)
      /\ \A d, e : Produced(d) = Produced(e) => d = e
  BY DEF Made, Produced
<1>2. CASE b.kind = "import"
  <2>1. ObjectsOf(p, b) = {Produced(d) : d \in ToSet(b.planes)}
    BY <1>2, LayoutsArePlanes DEF BufferFits, ObjectsOf
  <2>2. QED
    BY <1>1, <2>1 DEF Concerns
<1>3. CASE b.kind # "import"
  BY <1>1, <1>3 DEF ObjectsOf, Concerns
<1>4. QED
  BY <1>2, <1>3

\* What stands, and is for none of the objects, stands after such calls.
LEMMA CallsKeepOthers ==
  ASSUME NEW k, NEW l, NEW objects, NEW handles, NEW ids, Calls(k, l, objects, handles, ids),
         NEW o \in Owners, NEW b, BufferFits(b), BufferStands(k, o, b),
         ObjectsOf(o, b) \cap objects = {}, Made(o) \notin objects
  PROVE  BufferStands(l, o, b)
<1>1. b.file \in Files \cup {0} /\ b.boFile \in Files \cup {0}
  BY FitsHasItsFields
<1>2. Name(l, b.file, b.handles, ObjectsOf(o, b))
  <2>1. CASE b.file = 0
    BY <2>1 DEF BufferFits, Name
  <2>2. CASE b.file \in Files
    <3>1. \A h \in b.handles : /\ h \in DOMAIN k.gem[b.file]
                               /\ k.gem[b.file][h] \in ObjectsOf(o, b)
      BY DEF BufferStands, Name
    <3>2. \A h \in b.handles : k.gem[b.file][h] \notin objects
      BY <3>1
    <3>3. \A h \in b.handles : /\ h \in DOMAIN l.gem[b.file]
                               /\ l.gem[b.file][h] = k.gem[b.file][h]
      BY <2>2, <3>1, <3>2 DEF Calls, LeavesOthers
    <3>4. QED
      BY <3>1, <3>3 DEF Name
  <2>3. QED
    BY <1>1, <2>1, <2>2
<1>3. ASSUME b.bo # 0 PROVE Name(l, b.boFile, {b.bo}, {Made(o)})
  <2>1. b.boFile \in Files
    BY <1>1, <1>3, FitsHasItsFields DEF BufferFits, NoBuffer
  <2>2. b.bo \in DOMAIN k.gem[b.boFile] /\ k.gem[b.boFile][b.bo] = Made(o)
    BY <1>3 DEF BufferStands, Name
  <2>3. b.bo \in DOMAIN l.gem[b.boFile] /\ l.gem[b.boFile][b.bo] = Made(o)
    BY <2>1, <2>2 DEF Calls, LeavesOthers
  <2>4. QED
    BY <2>3 DEF Name
<1>4. ASSUME b.fb # 0 PROVE AddedFb(l, b.fb, b.file, ObjectsOf(o, b))
  <2> DEFINE e == [file |-> b.file, objects |-> ObjectsOf(o, b)]
  <2>1. b.fb \in DOMAIN k.fbs /\ k.fbs[b.fb] = e /\ e.objects \cap objects = {}
    BY <1>4 DEF BufferStands, AddedFb
  <2> HIDE DEF e
  <2>2. b.fb \in DOMAIN l.fbs /\ l.fbs[b.fb] = e
    BY <2>1 DEF Calls, LeavesOthers
  <2>3. QED
    BY <2>2 DEF AddedFb, e
<1>5. QED
  BY <1>2, <1>3, <1>4 DEF BufferStands

LEMMA ReclaimsFiles ==
  ASSUME NEW k \in KernelTables, NEW open, NEW l, l = Reclaims(k, open)
  PROVE  /\ l \in KernelTables
         /\ \A f \in Files : IF f \in open THEN l.gem[f] = k.gem[f] ELSE DOMAIN l.gem[f] = {}
         /\ \A id \in DOMAIN l.fbs : id \in DOMAIN k.fbs /\ l.fbs[id] = k.fbs[id]
         /\ \A id \in DOMAIN k.fbs : id \in DOMAIN l.fbs <=> k.fbs[id].file \in open
<1> DEFINE S == {id \in DOMAIN k.fbs : k.fbs[id].file \notin open}
           u == Removes(k.fbs, S)
<1>1. \A f \in Files : k.gem[f] \in Numbered(GemObjects)
  BY TablesParts
<1>2. k.fbs \in Numbered(FbEntries)
  BY TablesParts
<1>3. /\ u \in Numbered(FbEntries) /\ DOMAIN u = DOMAIN k.fbs \ S
      /\ \A n \in DOMAIN u : u[n] = k.fbs[n]
  <2>1. u = Removes(k.fbs, S)
    OBVIOUS
  <2> HIDE DEF S, u
  <2>2. u \in Numbered(FbEntries)
    BY <1>2, <2>1, RemovesNumbers
  <2>3. DOMAIN u = DOMAIN k.fbs \ S /\ \A n \in DOMAIN u : u[n] = k.fbs[n]
    BY <2>1 DEF Removes, Restrict
  <2>4. QED
    BY <2>2, <2>3
<1> DEFINE e(f) == Removes(k.gem[f], DOMAIN k.gem[f])
<1>4. \A f \in Files : e(f) \in Numbered(GemObjects) /\ DOMAIN e(f) = {}
  <2>1. SUFFICES ASSUME NEW f \in Files PROVE e(f) \in Numbered(GemObjects) /\ DOMAIN e(f) = {}
    OBVIOUS
  <2>2. e(f) \in Numbered(GemObjects)
    BY <1>1, RemovesNumbers
  <2>3. DOMAIN e(f) = {}
    BY DEF Removes, Restrict
  <2>4. QED
    BY <2>2, <2>3
<1>5. /\ l = [gem |-> l.gem, fbs |-> l.fbs] /\ l.fbs = u
      /\ l.gem = [f \in Files |-> IF f \in open THEN k.gem[f] ELSE e(f)]
  BY DEF Reclaims
<1> HIDE DEF u, e
<1>6. l.gem \in [Files -> Numbered(GemObjects)]
  BY <1>1, <1>4, <1>5
<1>7. l \in KernelTables
  BY <1>3, <1>5, <1>6 DEF KernelTables
<1>8. \A f \in Files : IF f \in open THEN l.gem[f] = k.gem[f] ELSE DOMAIN l.gem[f] = {}
  BY <1>4, <1>5
<1>9. QED
  BY <1>3, <1>5, <1>7, <1>8

\* A buffer stands when only files it does not keep open go.
LEMMA ReclaimingKeeps ==
  ASSUME NEW k \in KernelTables, NEW open, NEW l, l = Reclaims(k, open), NEW o, NEW b,
         BufferFits(b), BufferStands(k, o, b), HeldOpen(b) \subseteq open
  PROVE  BufferStands(l, o, b)
<1>1. /\ \A f \in Files : IF f \in open THEN l.gem[f] = k.gem[f] ELSE DOMAIN l.gem[f] = {}
      /\ \A id \in DOMAIN l.fbs : id \in DOMAIN k.fbs /\ l.fbs[id] = k.fbs[id]
      /\ \A id \in DOMAIN k.fbs : id \in DOMAIN l.fbs <=> k.fbs[id].file \in open
  BY ReclaimsFiles
<1>2. /\ b.file \in Files \cup {0} /\ b.boFile \in Files \cup {0}
      /\ b.file # 0 => b.file \in open /\ b.file \in Files
      /\ b.boFile # 0 => b.boFile \in open /\ b.boFile \in Files
  BY FitsHasItsFields DEF HeldOpen
<1>3. Name(l, b.file, b.handles, ObjectsOf(o, b))
  BY <1>1, <1>2 DEF BufferFits, BufferStands, Name
<1>4. ASSUME b.bo # 0 PROVE Name(l, b.boFile, {b.bo}, {Made(o)})
  <2>1. b.boFile # 0
    BY <1>4, FitsHasItsFields, FilesAreNumbers DEF BufferFits, NoBuffer
  <2>2. QED
    BY <1>1, <1>2, <1>4, <2>1 DEF BufferStands, Name
<1>5. ASSUME b.fb # 0 PROVE AddedFb(l, b.fb, b.file, ObjectsOf(o, b))
  <2> DEFINE e == [file |-> b.file, objects |-> ObjectsOf(o, b)]
  <2>1. b.fb \in DOMAIN k.fbs /\ k.fbs[b.fb] = e /\ e.file \in open
    BY <1>2, <1>5 DEF BufferFits, BufferStands, AddedFb
  <2> HIDE DEF e
  <2>2. QED
    BY <1>1, <2>1 DEF AddedFb, e
<1>6. QED
  BY <1>3, <1>4, <1>5 DEF BufferStands

-----------------------------------------------------------------------------
(* The invariant of the buffers.                                           *)

HandlesKnown(k, bs) ==
  \A h \in DOMAIN k.gem[file] : \E o \in Owners : HasHandle(bs[o], file, h)
FbsKnown(k, bs) ==
  \A id \in DOMAIN k.fbs : k.fbs[id].file = file => \E o \in Owners : bs[o].fb = id

GemInv ==
  /\ file \in Files /\ live \in BOOLEAN /\ tables \in KernelTables
  /\ DOMAIN buffers = Owners /\ buffers = [o \in Owners |-> buffers[o]]
  /\ \A o \in Owners : BufferFits(buffers[o]) /\ BufferStands(tables, o, buffers[o])
  /\ \A o, p \in Owners : o # p => ToSet(buffers[o].planes) \cap ToSet(buffers[p].planes) = {}
  /\ live => HandlesKnown(tables, buffers) /\ FbsKnown(tables, buffers)
  /\ \A f \in Files : f > file => DOMAIN tables.gem[f] = {}
  /\ \A id \in DOMAIN tables.fbs : tables.fbs[id].file <= file

\* What an owner does with its buffer: calls for its own objects alone, a buffer
\* that stands after them, and what it had on the file or was given there is
\* that buffer's or gone.
Handled(owner, l, b, handles, ids, planes) ==
  /\ Calls(tables, l, Concerns(owner, planes), handles, ids)
  /\ BufferFits(b) /\ BufferStands(l, owner, b)
  /\ ToSet(b.planes) \subseteq ToSet(planes) \cup ToSet(buffers[owner].planes)
  /\ live =>
       /\ \A h \in DOMAIN l.gem[file] :
            h \in handles \/ HasHandle(buffers[owner], file, h) => HasHandle(b, file, h)
       /\ \A id \in DOMAIN l.fbs :
            l.fbs[id].file = file /\ (id \in ids \/ id = buffers[owner].fb) => id = b.fb

NoneOf(owner, planes) ==
  \A o \in Owners \ {owner} : ToSet(buffers[o].planes) \cap ToSet(planes) = {}

LEMMA HandledIsKept ==
  ASSUME GemInv, NEW owner \in Owners, NEW made, NEW handles, NEW ids, NEW planes,
         NoneOf(owner, planes), Handled(owner, made.k, made.b, handles, ids, planes),
         Keeps(owner, made), UNCHANGED <<file, live>>
  PROVE  GemInv'
<1> DEFINE l == made.k
           b == made.b
           open == {file} \cup UNION {HeldOpen(buffers'[o]) : o \in Owners}
<1>1. /\ file \in Files /\ live \in BOOLEAN /\ tables \in KernelTables
      /\ DOMAIN buffers = Owners
      /\ \A o \in Owners : BufferFits(buffers[o]) /\ BufferStands(tables, o, buffers[o])
      /\ \A o, p \in Owners : o # p => ToSet(buffers[o].planes) \cap ToSet(buffers[p].planes) = {}
  BY DEF GemInv
<1>2. /\ buffers' = [buffers EXCEPT ![owner] = b]
      /\ tables' = Reclaims(l, open) /\ file' = file /\ live' = live
  BY DEF Keeps
<1>3. /\ DOMAIN buffers' = Owners /\ buffers' = [o \in Owners |-> buffers'[o]]
      /\ buffers'[owner] = b /\ \A o \in Owners \ {owner} : buffers'[o] = buffers[o]
  BY <1>1, <1>2
<1>4. /\ Calls(tables, l, Concerns(owner, planes), handles, ids)
      /\ BufferFits(b) /\ BufferStands(l, owner, b) /\ l \in KernelTables
      /\ ToSet(b.planes) \subseteq ToSet(planes) \cup ToSet(buffers[owner].planes)
  BY DEF Handled, Calls
<1> HIDE DEF l, b, open
<1>5. \A o \in Owners : HeldOpen(buffers'[o]) \subseteq open
  BY DEF open
<1>6. \A o \in Owners \ {owner} :
        ToSet(buffers[o].planes) \cap (ToSet(planes) \cup ToSet(buffers[owner].planes)) = {}
  BY <1>1 DEF NoneOf
<1>7. ASSUME NEW o \in Owners PROVE BufferFits(buffers'[o]) /\ BufferStands(l, o, buffers'[o])
  <2>1. CASE o = owner
    BY <1>3, <1>4, <2>1
  <2>2. CASE o # owner
    <3>1. ObjectsOf(o, buffers[o]) \cap Concerns(owner, planes) = {}
      BY <1>1, <1>6, <2>2, OthersAreDistinct
    <3>2. Made(o) \notin Concerns(owner, planes)
      BY <2>2 DEF Concerns, Made, Produced
    <3>3. BufferStands(l, o, buffers[o])
      BY <1>1, <1>4, <3>1, <3>2, CallsKeepOthers
    <3>4. QED
      BY <1>1, <1>3, <2>2, <3>3
  <2>3. QED
    BY <2>1, <2>2
<1>8. ASSUME NEW o \in Owners PROVE BufferFits(buffers'[o]) /\ BufferStands(tables', o, buffers'[o])
  <2>1. /\ BufferFits(buffers'[o]) /\ BufferStands(l, o, buffers'[o])
        /\ HeldOpen(buffers'[o]) \subseteq open
    BY <1>5, <1>7
  <2>2. QED
    BY <1>2, <1>4, <2>1, ReclaimingKeeps
<1>9. \A o, p \in Owners : o # p => ToSet(buffers'[o].planes) \cap ToSet(buffers'[p].planes) = {}
  BY <1>1, <1>3, <1>4, <1>6
<1>10. /\ tables' \in KernelTables
       /\ \A f \in Files : DOMAIN tables'.gem[f] \subseteq DOMAIN l.gem[f]
       /\ \A id \in DOMAIN tables'.fbs : id \in DOMAIN l.fbs /\ tables'.fbs[id] = l.fbs[id]
  BY <1>2, <1>4, ReclaimsFiles
<1>11. \A f \in Files : f > file => DOMAIN tables'.gem[f] = {}
  <2>1. \A f \in Files : f > file => DOMAIN l.gem[f] = {}
    BY <1>1, <1>4, FilesAreNumbers DEF Calls, NewOnly, GemInv
  <2>2. QED
    BY <1>10, <2>1
<1>12. \A id \in DOMAIN tables'.fbs : tables'.fbs[id].file <= file
  <2>1. \A id \in DOMAIN l.fbs : l.fbs[id].file <= file
    BY <1>1, <1>4, FilesAreNumbers DEF Calls, NewOnly, GemInv
  <2>2. QED
    BY <1>10, <2>1
<1>13. ASSUME live PROVE HandlesKnown(l, buffers') /\ FbsKnown(l, buffers')
  <2>1. /\ HandlesKnown(tables, buffers) /\ FbsKnown(tables, buffers)
        /\ \A h \in DOMAIN l.gem[file] :
             h \in handles \/ HasHandle(buffers[owner], file, h) => HasHandle(b, file, h)
        /\ \A id \in DOMAIN l.fbs :
             l.fbs[id].file = file /\ (id \in ids \/ id = buffers[owner].fb) => id = b.fb
    BY <1>13 DEF GemInv, Handled, l, b
  <2>2. ASSUME NEW h \in DOMAIN l.gem[file]
        PROVE  \E o \in Owners : HasHandle(buffers'[o], file, h)
    <3>1. h \in DOMAIN tables.gem[file] \/ h \in handles
      BY <1>1, <1>4 DEF Calls, NewOnly
    <3>2. h \in handles \/ \E o \in Owners : HasHandle(buffers[o], file, h)
      BY <2>1, <3>1 DEF HandlesKnown
    <3>3. QED
      BY <1>3, <2>1, <3>2
  <2>3. ASSUME NEW id \in DOMAIN l.fbs, l.fbs[id].file = file
        PROVE  \E o \in Owners : buffers'[o].fb = id
    <3>1. id \in ids \/ (id \in DOMAIN tables.fbs /\ tables.fbs[id].file = file)
      BY <1>4, <2>3 DEF Calls, NewOnly
    <3>2. id \in ids \/ \E o \in Owners : buffers[o].fb = id
      BY <2>1, <3>1 DEF FbsKnown
    <3>3. QED
      BY <1>3, <2>1, <2>3, <3>2
  <2>4. QED
    BY <2>2, <2>3 DEF HandlesKnown, FbsKnown
<1>14. (live => HandlesKnown(tables, buffers) /\ FbsKnown(tables, buffers))'
  <2>1. SUFFICES ASSUME live' PROVE HandlesKnown(tables, buffers)' /\ FbsKnown(tables, buffers)'
    OBVIOUS
  <2>2. HandlesKnown(l, buffers') /\ FbsKnown(l, buffers')
    BY <1>2, <1>13, <2>1
  <2>3. \A h \in DOMAIN tables'.gem[file] : \E o \in Owners : HasHandle(buffers'[o], file, h)
    BY <1>1, <1>10, <2>2 DEF HandlesKnown
  <2>4. \A id \in DOMAIN tables'.fbs :
          tables'.fbs[id].file = file => \E o \in Owners : buffers'[o].fb = id
    BY <1>10, <2>2 DEF FbsKnown
  <2>5. QED
    BY <1>2, <2>3, <2>4 DEF HandlesKnown, FbsKnown, HasHandle
<1>15. QED
  <2>1. (\A o \in Owners : BufferFits(buffers[o]) /\ BufferStands(tables, o, buffers[o]))'
    BY <1>8 DEF BufferFits, BufferStands, BufferRecords, ObjectsOf, Name, AddedFb
  <2>2. /\ (file \in Files /\ live \in BOOLEAN /\ tables \in KernelTables)'
        /\ (DOMAIN buffers = Owners /\ buffers = [o \in Owners |-> buffers[o]])'
    BY <1>1, <1>2, <1>3, <1>10 DEF Files
  <2>3. (\A f \in Files : f > file => DOMAIN tables.gem[f] = {})'
    BY <1>2, <1>11 DEF Files
  <2>4. (\A id \in DOMAIN tables.fbs : tables.fbs[id].file <= file)'
    BY <1>2, <1>12
  <2>5. (\A o, p \in Owners : o # p => ToSet(buffers[o].planes) \cap ToSet(buffers[p].planes) = {})'
    BY <1>9
  <2>6. QED
    BY <1>14, <2>1, <2>2, <2>3, <2>4, <2>5 DEF GemInv

-----------------------------------------------------------------------------
(* What the calls leave of a buffer torn down, and make of a new one.      *)

LEMMA TornDown ==
  ASSUME NEW k \in KernelTables, NEW o \in Owners, NEW b, BufferFits(b), NEW objects,
         ObjectsOf(o, b) # {}, ObjectsOf(o, b) \subseteq objects,
         \A h \in b.handles \cap DOMAIN k.gem[b.file] : k.gem[b.file][h] \in objects,
         b.fb # 0 => AddedFb(k, b.fb, b.file, ObjectsOf(o, b)),
         NEW l, l = TearDown(k, b)
  PROVE  /\ Calls(k, l, objects, {}, {})
         /\ \A f \in Files : b.file = f => \A h \in DOMAIN l.gem[f] : h \notin b.handles
         /\ \A id \in DOMAIN l.fbs : id # b.fb
<1>1. b.file \in Files \cup {0} /\ 0 \notin Files
  BY FitsHasItsFields, FilesAreNumbers
<1>2. CASE b.file = 0
  <2>1. l = k /\ b.fb = 0
    BY <1>2 DEF TearDown, BufferFits
  <2>2. Calls(k, l, objects, {}, {})
    BY <2>1, CallsNothing
  <2>3. \A id \in DOMAIN l.fbs : id # 0
    BY <2>1, TablesParts
  <2>4. QED
    BY <1>1, <1>2, <2>1, <2>2, <2>3
<1>3. CASE b.file # 0
  <2> DEFINE m == RemovesFbs(k, b.file, {b.fb})
  <2>1. l = Closes(m, b.file, b.handles) /\ b.file \in Files
    BY <1>1, <1>3 DEF TearDown, TeardownFile
  <2>2. /\ m \in KernelTables /\ m.gem = k.gem
        /\ \A id \in DOMAIN m.fbs : id \in DOMAIN k.fbs /\ m.fbs[id] = k.fbs[id]
        /\ \A id \in DOMAIN k.fbs :
             id \in DOMAIN m.fbs <=> ~(id \in {b.fb} /\ k.fbs[id].file = b.file)
    BY RemovesFramebuffers
  <2>3. \A id \in {b.fb} \cap DOMAIN k.fbs :
          /\ k.fbs[id].file = b.file /\ k.fbs[id].objects \cap objects # {}
    <3>1. SUFFICES ASSUME b.fb \in DOMAIN k.fbs
                   PROVE  k.fbs[b.fb].file = b.file /\ k.fbs[b.fb].objects \cap objects # {}
      OBVIOUS
    <3>2. b.fb # 0
      BY <3>1, TablesParts
    <3>3. k.fbs[b.fb] = [file |-> b.file, objects |-> ObjectsOf(o, b)]
      BY <3>2 DEF AddedFb
    <3>4. QED
      BY <3>3
  <2>4. Calls(k, m, objects, {}, {})
    BY <2>3, CallsRemoveFbs
  <2> HIDE DEF m
  <2>5. Calls(m, l, objects, {}, {})
    BY <2>1, <2>2, CallsClose
  <2>6. Calls(k, l, objects, {}, {})
    <3>1. Calls(k, l, objects, {} \cup {}, {} \cup {})
      BY <2>4, <2>5, CallsFollow
    <3>2. QED
      BY <3>1
  <2>7. l.fbs = m.fbs /\ DOMAIN l.gem[b.file] = DOMAIN m.gem[b.file] \ b.handles
    BY <2>1, <2>2, ClosesNumbers
  <2>8. \A id \in DOMAIN l.fbs : id # b.fb
    BY <2>2, <2>3, <2>7
  <2>9. QED
    BY <2>6, <2>7, <2>8
<1>4. QED
  BY <1>2, <1>3

\* Nothing is left of a buffer dropped.
LEMMA DroppedIsGone ==
  ASSUME NEW k \in KernelTables, NEW o \in Owners, NEW b, BufferFits(b), b.kind # "none",
         BufferStands(k, o, b), NEW objects,
         ObjectsOf(o, b) # {}, ObjectsOf(o, b) \subseteq objects,
         NEW l, l = DropBuffer(k, b)
  PROVE  /\ Calls(k, l, objects, {}, {})
         /\ \A f \in Files : \A h \in DOMAIN l.gem[f] : ~HasHandle(b, f, h)
         /\ \A id \in DOMAIN l.fbs : id # b.fb
<1>1. /\ b.file \in Files \cup {0} /\ b.boFile \in Files \cup {0} /\ 0 \notin Files
      /\ b.kind \in {"dumb", "import", "gbm"}
  BY FitsHasItsFields, FilesAreNumbers
<1>2. /\ \A h \in b.handles : k.gem[b.file][h] \in objects
      /\ b.fb # 0 => AddedFb(k, b.fb, b.file, ObjectsOf(o, b))
  BY DEF BufferStands, Name
<1>3. CASE b.kind = "gbm"
  <2> DEFINE m == Closes(k, b.boFile, {b.bo})
  <2>1. l = TearDown(m, b) /\ b.boFile \in Files /\ b.file = b.boFile /\ b.bo # 0
    BY <1>3 DEF DropBuffer, DropGbm, BufferFits
  <2>2. k.gem[b.boFile][b.bo] \in objects
    BY <1>3, <2>1 DEF BufferStands, Name, ObjectsOf
  <2>3. /\ m \in KernelTables /\ m.fbs = k.fbs
        /\ DOMAIN m.gem[b.file] = DOMAIN k.gem[b.file] \ {b.bo}
        /\ \A h \in DOMAIN m.gem[b.file] : m.gem[b.file][h] = k.gem[b.file][h]
    BY <2>1, ClosesNumbers
  <2>4. Calls(k, m, objects, {}, {})
    BY <2>1, <2>2, CallsClose
  <2> HIDE DEF m
  <2>5. \A h \in b.handles \cap DOMAIN m.gem[b.file] : m.gem[b.file][h] \in objects
    BY <1>2, <2>3
  <2>6. b.fb # 0 => AddedFb(m, b.fb, b.file, ObjectsOf(o, b))
    BY <1>2, <2>3 DEF AddedFb
  <2>7. /\ Calls(m, l, objects, {}, {})
        /\ \A f \in Files : b.file = f => \A h \in DOMAIN l.gem[f] : h \notin b.handles
        /\ \A id \in DOMAIN l.fbs : id # b.fb
    BY <2>1, <2>3, <2>5, <2>6, TornDown
  <2>8. Calls(k, l, objects, {}, {})
    <3>1. Calls(k, l, objects, {} \cup {}, {} \cup {})
      BY <2>4, <2>7, CallsFollow
    <3>2. QED
      BY <3>1
  <2>9. b.bo \notin DOMAIN l.gem[b.file]
    BY <2>1, <2>3, <2>7 DEF Calls, NewOnly
  <2>10. QED
    BY <2>1, <2>7, <2>8, <2>9 DEF HasHandle
<1>4. CASE b.kind = "dumb" /\ b.handles = {}
  <2>1. l = k /\ b.file = 0 /\ b.boFile = 0 /\ b.fb = 0
    BY <1>4 DEF DropBuffer, DropDumb, BufferFits
  <2>2. Calls(k, l, objects, {}, {})
    BY <2>1, CallsNothing
  <2>3. \A id \in DOMAIN l.fbs : id # 0
    BY <2>1, TablesParts
  <2>4. QED
    BY <1>1, <2>1, <2>2, <2>3 DEF HasHandle
<1>5. CASE b.kind = "import" \/ (b.kind = "dumb" /\ b.handles # {})
  <2>1. l = TearDown(k, b) /\ b.boFile = 0
    BY <1>5 DEF DropBuffer, DropDumb, BufferFits
  <2>2. /\ Calls(k, l, objects, {}, {})
        /\ \A f \in Files : b.file = f => \A h \in DOMAIN l.gem[f] : h \notin b.handles
        /\ \A id \in DOMAIN l.fbs : id # b.fb
    BY <1>2, <2>1, TornDown
  <2>3. QED
    BY <1>1, <2>1, <2>2 DEF HasHandle
<1>6. QED
  BY <1>1, <1>3, <1>4, <1>5

\* What a call that makes a buffer for an owner makes of it: it stands, and all
\* that is new is its own, or there is none and nothing is new.
Given(b) == b.handles \cup ({b.bo} \ {0})
IsMade(k, m, o, objects) ==
  /\ Calls(k, m.k, objects, Given(m.b), {m.b.fb})
  /\ BufferFits(m.b) /\ BufferStands(m.k, o, m.b)
  /\ m.b.file \in {0, file}

LEMMA NothingBuilt ==
  ASSUME NEW k, NEW l, NEW o, NEW objects, Calls(k, l, objects, {}, {}),
         NEW m, m.k = l, m.b = NoBuffer
  PROVE  IsMade(k, m, o, objects)
<1>1. Given(NoBuffer) = {} /\ NoBuffer.fb = 0 /\ NoBuffer.file = 0
  BY DEF Given, NoBuffer
<1>2. Calls(k, l, objects, {}, {0})
  BY DEF Calls, NewOnly
<1>3. QED
  BY <1>1, <1>2, NoBufferFits DEF IsMade

LEMMA MadeDumb ==
  ASSUME NEW k \in KernelTables, file \in Files, NEW o \in Owners, NEW objects, Made(o) \in objects,
         NEW addFb \in BOOLEAN, NEW fails \in BOOLEAN,
         NEW m, m = CreateDumb(k, o, addFb, fails)
  PROVE  /\ IsMade(k, m, o, objects) /\ m.b.planes = <<>>
         /\ fails => m.b = NoBuffer
         /\ ~fails => m.b.kind = "dumb" /\ m.b.file = file
<1> DEFINE a == Creates(k, file, Made(o))
           h == FreeHandle(k, file)
           bare == [NoBuffer EXCEPT !.kind = "dumb", !.file = file, !.handles = {h}]
<1>1. Made(o) \in GemObjects /\ file # 0 /\ NoBuffer.planes = <<>>
  BY FilesAreNumbers DEF GemObjects, NoBuffer
<1>2. /\ a \in KernelTables /\ h \in Nat \ {0} /\ h \in DOMAIN a.gem[file]
      /\ a.gem[file][h] = Made(o) /\ Calls(k, a, objects, {h}, {})
  <2>1. Calls(k, a, objects, {h}, {})
    BY <1>1, CallsCreate
  <2>2. QED
    BY <1>1, <2>1, CreatesAHandle
<1> HIDE DEF a, h
<1>3. /\ bare \in BufferRecords
      /\ bare.kind = "dumb" /\ bare.file = file /\ bare.handles = {h} /\ bare.fb = 0
      /\ bare.planes = <<>> /\ bare.bo = 0 /\ bare.boFile = 0
  <2>1. NoBuffer \in BufferRecords
    BY NoBufferFits DEF BufferFits
  <2>2. bare \in BufferRecords
    BY <1>2, <2>1 DEF BufferRecords
  <2>3. QED
    BY <2>2 DEF NoBuffer
<1> HIDE DEF bare
<1>4. CASE fails
  <2>1. DropDumb(a, bare) = Closes(RemovesFbs(a, file, {0}), file, {h})
    BY <1>1, <1>3 DEF DropDumb, TearDown, TeardownFile
  <2>2. m.k = Closes(RemovesFbs(a, file, {0}), file, {h}) /\ m.b = NoBuffer
    BY <1>4, <2>1 DEF CreateDumb, a, h, bare
  <2> DEFINE r == RemovesFbs(a, file, {0})
  <2>3. r \in KernelTables /\ r.gem = a.gem
    BY <1>2, RemovesFramebuffers
  <2>4. Calls(a, r, objects, {}, {})
    <3>1. \A id \in {0} \cap DOMAIN a.fbs : FALSE
      BY <1>2, TablesParts
    <3>2. QED
      BY <1>2, <3>1, CallsRemoveFbs
  <2> HIDE DEF r
  <2>5. Calls(k, r, objects, {h}, {})
    <3>1. Calls(k, r, objects, {h} \cup {}, {} \cup {})
      BY <1>2, <2>4, CallsFollow
    <3>2. QED
      BY <3>1
  <2>6. Calls(k, m.k, objects, {h} \ {h}, {})
    <3>1. \A n \in {h} \cap DOMAIN r.gem[file] : r.gem[file][n] \in objects
      BY <1>2, <2>3
    <3>2. m.k = Closes(r, file, {h})
      BY <2>2 DEF r
    <3>3. QED
      BY <2>5, <3>1, <3>2, ClosesTheNew
  <2>7. Calls(k, m.k, objects, {}, {})
    <3>1. {h} \ {h} = {}
      OBVIOUS
    <3>2. QED
      BY <2>6, <3>1
  <2>8. QED
    BY <1>1, <1>4, <2>2, <2>7, NothingBuilt
<1>5. CASE ~fails /\ ~addFb
  <2>1. m.k = a /\ m.b = bare
    BY <1>5 DEF CreateDumb, a, h, bare
  <2>2. Given(bare) = {h} /\ bare.fb = 0
    BY <1>3 DEF Given
  <2>3. Calls(k, a, objects, {h}, {0})
    BY <1>2 DEF Calls, NewOnly
  <2>4. BufferFits(bare)
    BY <1>1, <1>3 DEF BufferFits
  <2>5. BufferStands(a, o, bare)
    BY <1>2, <1>3 DEF BufferStands, Name, ObjectsOf
  <2>6. QED
    BY <1>3, <1>5, <2>1, <2>2, <2>3, <2>4, <2>5 DEF IsMade
<1>6. CASE ~fails /\ addFb
  <2> DEFINE l == AddsFb(a, file, {h})
             id == FreeFb(a)
             b == [bare EXCEPT !.fb = id]
  <2>1. m.k = l /\ m.b = b
    BY <1>6 DEF CreateDumb, a, h, bare
  <2>2. /\ Calls(a, l, objects, {}, {id}) /\ l.gem = a.gem /\ id \in Nat \ {0}
        /\ id \in DOMAIN l.fbs
        /\ l.fbs[id] = [file |-> file, objects |-> {a.gem[file][n] : n \in {h}}]
    <3>1. \A n \in {h} : n \in DOMAIN a.gem[file]
      BY <1>2
    <3>2. Calls(a, l, objects, {}, {id})
      BY <1>2, <3>1, CallsAddFb
    <3>3. QED
      BY <1>2, <3>1, <3>2, AddsAFramebuffer
  <2> HIDE DEF l, id
  <2>3. Calls(k, l, objects, {h}, {id})
    <3>1. Calls(k, l, objects, {h} \cup {}, {} \cup {id})
      BY <1>2, <2>2, CallsFollow
    <3>2. QED
      BY <3>1
  <2>4. /\ b \in BufferRecords
        /\ b.kind = "dumb" /\ b.file = file /\ b.handles = {h} /\ b.fb = id
        /\ b.planes = <<>> /\ b.bo = 0 /\ b.boFile = 0
    <3>1. b \in BufferRecords
      BY <1>3, <2>2 DEF BufferRecords
    <3>2. bare = [kind |-> bare.kind, file |-> bare.file, handles |-> bare.handles, fb |-> bare.fb,
                  planes |-> bare.planes, bo |-> bare.bo, boFile |-> bare.boFile]
      BY <1>3 DEF BufferRecords
    <3>3. QED
      BY <1>3, <3>1, <3>2
  <2> HIDE DEF b
  <2>5. BufferFits(b) /\ Given(b) = {h}
    BY <1>1, <2>4 DEF BufferFits, Given
  <2>6. BufferStands(l, o, b)
    <3>1. {a.gem[file][n] : n \in {h}} = {Made(o)}
      BY <1>2
    <3>2. QED
      BY <1>2, <2>2, <2>4, <3>1 DEF BufferStands, Name, ObjectsOf, AddedFb
  <2>7. QED
    BY <1>6, <2>1, <2>3, <2>4, <2>5, <2>6 DEF IsMade
<1>7. QED
  BY <1>4, <1>5, <1>6

LEMMA WithImportHas ==
  ASSUME NEW b \in BufferRecords, NEW i,
         i.file \in Files \cup {0}, i.handles \in SUBSET Nat, i.fb \in Nat,
         NEW w, w = WithImport(b, i)
  PROVE  /\ w \in BufferRecords /\ w.kind = b.kind /\ w.planes = b.planes
         /\ w.file = i.file /\ w.handles = i.handles /\ w.fb = i.fb
         /\ w.bo = b.bo /\ w.boFile = b.boFile
<1>1. w \in BufferRecords
  BY DEF WithImport, BufferRecords
<1>2. b = [kind |-> b.kind, file |-> b.file, handles |-> b.handles, fb |-> b.fb,
           planes |-> b.planes, bo |-> b.bo, boFile |-> b.boFile]
  BY DEF BufferRecords
<1>3. QED
  BY <1>1, <1>2 DEF WithImport

\* An import for a buffer that has nothing else makes it, or leaves it bare.
LEMMA MadeOfImport ==
  ASSUME NEW k \in KernelTables, file \in Files, NEW o \in Owners, NEW planes \in Layouts,
         NEW objects, ProducedOf(planes) \subseteq objects,
         NEW taken \in Points(Len(planes)), NEW i, i = ImportPlanes(k, Names(planes), taken),
         NEW b \in BufferRecords, b.kind = "import", b.planes = planes, b.bo = 0, b.boFile = 0,
         NEW m, m.k = i.k, m.b = WithImport(b, i)
  PROVE  /\ IsMade(k, m, o, objects) /\ m.b.planes = planes
         /\ i.fb = 0 => Calls(k, m.k, objects, {}, {})
<1> DEFINE X == {Names(planes)[n] : n \in 1..Len(Names(planes))}
<1>1. /\ Names(planes) \in Seq(GemObjects) /\ Names(planes) # <<>>
      /\ Len(Names(planes)) = Len(planes) /\ Len(planes) \in Nat \ {0}
      /\ ToSet(Names(planes)) = X /\ X \subseteq objects
  <2>1. ToSet(Names(planes)) = {Produced(d) : d \in ToSet(planes)} /\ ToSet(Names(planes)) = X
    BY LayoutsArePlanes
  <2>3. ToSet(Names(planes)) = ProducedOf(planes)
    BY <2>1 DEF ProducedOf
  <2> HIDE DEF X
  <2>2. QED
    BY <2>1, <2>3, LayoutsArePlanes
<1>2. taken \in 0..Len(Names(planes)) + 1 /\ taken \in Nat
  BY <1>1 DEF Points
<1> HIDE DEF X
<1> DEFINE whole == taken > Len(planes)
<1>3. ImportGives(k, i, X, objects, whole)
  BY <1>1, <1>2, ImportsOrNot DEF X
<1> HIDE DEF whole
<1>4. i.file \in {0, file} /\ i.handles \in SUBSET Nat /\ i.fb \in Nat
  BY <1>3 DEF ImportGives
<1>5. /\ m.b \in BufferRecords /\ m.b.kind = "import" /\ m.b.planes = planes
      /\ m.b.file = i.file /\ m.b.handles = i.handles /\ m.b.fb = i.fb
      /\ m.b.bo = 0 /\ m.b.boFile = 0
  BY <1>4, WithImportHas
<1>6. Given(m.b) = i.handles /\ ObjectsOf(o, m.b) = X /\ file # 0
  BY <1>1, <1>5, FilesAreNumbers DEF Given, ObjectsOf
<1>7. CASE ~whole
  <2>1. Calls(k, i.k, objects, {}, {}) /\ i.file = 0 /\ i.handles = {} /\ i.fb = 0
    BY <1>3, <1>7 DEF ImportGives
  <2>2. Calls(k, i.k, objects, {}, {0})
    BY <2>1 DEF Calls, NewOnly
  <2>3. BufferFits(m.b) /\ BufferStands(i.k, o, m.b)
    BY <1>5, <2>1 DEF BufferFits, BufferStands, Name
  <2>4. QED
    BY <1>5, <1>6, <2>1, <2>2, <2>3 DEF IsMade
<1>8. CASE whole
  <2>1. /\ Calls(k, i.k, objects, i.handles, {i.fb})
        /\ i.file = file /\ i.handles # {} /\ i.fb # 0
        /\ Name(i.k, file, i.handles, X) /\ AddedFb(i.k, i.fb, file, X)
    BY <1>3, <1>8 DEF ImportGives
  <2>2. BufferFits(m.b)
    BY <1>5, <1>6, <2>1 DEF BufferFits
  <2>3. BufferStands(i.k, o, m.b)
    BY <1>5, <1>6, <2>1 DEF BufferStands
  <2>4. QED
    BY <1>5, <1>6, <2>1, <2>2, <2>3 DEF IsMade
<1>9. QED
  BY <1>7, <1>8

LEMMA MadeImport ==
  ASSUME NEW k \in KernelTables, file \in Files, NEW o \in Owners, NEW planes \in Layouts,
         NEW objects, ProducedOf(planes) \subseteq objects,
         NEW taken \in Points(Len(planes)), NEW m, m = CreateImport(k, planes, taken)
  PROVE  IsMade(k, m, o, objects) /\ ToSet(m.b.planes) \subseteq ToSet(planes)
<1> DEFINE i == ImportPlanes(k, Names(planes), taken)
           b == [NoBuffer EXCEPT !.kind = "import", !.planes = planes]
           w == WithImport(b, i)
           n == [k |-> i.k, b |-> w]
<1>1. /\ b \in BufferRecords /\ b.kind = "import" /\ b.planes = planes
      /\ b.bo = 0 /\ b.boFile = 0
  <2>1. NoBuffer \in BufferRecords
    BY NoBufferFits DEF BufferFits
  <2>2. b \in BufferRecords
    BY <2>1 DEF BufferRecords
  <2>3. QED
    BY <2>2 DEF NoBuffer
<1>2. m.k = i.k /\ m.b = IF i.fb = 0 THEN NoBuffer ELSE w
  BY DEF CreateImport
<1> HIDE DEF i, b
<1>3. /\ IsMade(k, n, o, objects) /\ n.b.planes = planes
      /\ i.fb = 0 => Calls(k, n.k, objects, {}, {})
  <2>1. n.k = i.k /\ n.b = w
    OBVIOUS
  <2> HIDE DEF w, n
  <2>2. QED
    <3>1. i = ImportPlanes(k, Names(planes), taken)
      BY DEF i
    <3>2. n.b = WithImport(b, i)
      BY <2>1 DEF w
    <3>3. QED
      BY <1>1, <2>1, <3>1, <3>2, MadeOfImport
<1>4. CASE i.fb = 0
  <2>1. ToSet(NoBuffer.planes) = {}
    BY DEF NoBuffer, ToSet
  <2>2. QED
    BY <1>2, <1>3, <1>4, <2>1, NothingBuilt
<1>5. CASE i.fb # 0
  <2>1. m.k = n.k /\ m.b = n.b
    BY <1>2, <1>5
  <2> HIDE DEF n
  <2>2. QED
    BY <1>3, <2>1 DEF IsMade
<1>6. QED
  BY <1>4, <1>5

LEMMA MadeGbm ==
  ASSUME NEW k \in KernelTables, file \in Files, NEW o \in Owners, NEW objects, Made(o) \in objects,
         NEW taken \in Points(1), NEW m, m = CreateGbm(k, o, taken)
  PROVE  /\ IsMade(k, m, o, objects) /\ m.b.planes = <<>>
         /\ m.b = NoBuffer \/ (m.b.kind = "gbm" /\ m.b.file = file)
         /\ OnlyThisFile(k, m.k)
<1> DEFINE a == Creates(k, file, Made(o))
           bo == FreeHandle(k, file)
           s == <<Made(o)>>
           i == ImportPlanes(a, s, taken)
           b == [NoBuffer EXCEPT !.kind = "gbm", !.bo = bo, !.boFile = file]
           w == WithImport(b, i)
<1>1. Made(o) \in GemObjects /\ file # 0 /\ NoBuffer.planes = <<>>
  BY FilesAreNumbers DEF GemObjects, NoBuffer
<1>2. /\ a \in KernelTables /\ bo \in Nat \ {0} /\ bo \in DOMAIN a.gem[file]
      /\ a.gem[file][bo] = Made(o) /\ Calls(k, a, objects, {bo}, {})
      /\ OnlyThisFile(k, a)
  <2>1. Calls(k, a, objects, {bo}, {})
    BY <1>1, CallsCreate
  <2>2. QED
    BY <1>1, <2>1, CreatesAHandle DEF OnlyThisFile
<1>3. m = IF i.fb = 0 THEN [k |-> Closes(i.k, file, {bo}), b |-> NoBuffer]
          ELSE [k |-> i.k, b |-> w]
  BY DEF CreateGbm
<1> HIDE DEF a, bo
<1>4. s \in Seq(GemObjects) /\ s # <<>> /\ Len(s) = 1 /\ {s[n] : n \in 1..Len(s)} = {Made(o)}
  <2>1. s \in Seq(GemObjects) /\ s # <<>> /\ Len(s) = 1 /\ s[1] = Made(o)
    BY <1>1
  <2>2. 1..1 = {1}
    OBVIOUS
  <2> HIDE DEF s
  <2>3. QED
    BY <2>1, <2>2
<1> HIDE DEF s
<1> DEFINE whole == taken > 1
<1>5. ImportGives(a, i, {Made(o)}, objects, whole)
  <2>1. taken \in 0..Len(s) + 1 /\ {Made(o)} \subseteq objects /\ whole = (taken > Len(s))
    BY <1>4 DEF Points
  <2> HIDE DEF i, whole
  <2>2. QED
    BY <1>2, <1>4, <2>1, ImportsOrNot DEF i
<1> HIDE DEF i, whole
<1>6. OnlyThisFile(k, i.k) /\ i.k \in KernelTables
  BY <1>2, <1>5 DEF ImportGives, OnlyThisFile
<1>7. CASE ~whole
  <2>0. Calls(a, i.k, objects, {}, {}) /\ i.fb = 0
    BY <1>5, <1>7 DEF ImportGives
  <2>1. m.k = Closes(i.k, file, {bo}) /\ m.b = NoBuffer
    BY <1>3, <2>0
  <2>2. Calls(k, i.k, objects, {bo}, {})
    <3>1. Calls(k, i.k, objects, {bo} \cup {}, {} \cup {})
      BY <1>2, <2>0, CallsFollow
    <3>2. QED
      BY <3>1
  <2>3. \A h \in {bo} \cap DOMAIN i.k.gem[file] : i.k.gem[file][h] \in objects
    BY <1>2, <2>0 DEF Calls, NewOnly
  <2>4. Calls(k, m.k, objects, {bo} \ {bo}, {})
    BY <2>1, <2>2, <2>3, ClosesTheNew
  <2>5. Calls(k, m.k, objects, {}, {})
    <3>1. {bo} \ {bo} = {}
      OBVIOUS
    <3>2. QED
      BY <2>4, <3>1
  <2>6. OnlyThisFile(k, m.k)
    BY <1>6, <2>1, ClosesNumbers DEF OnlyThisFile
  <2>7. QED
    BY <1>1, <2>1, <2>5, <2>6, NothingBuilt
<1>8. CASE whole
  <2>0. /\ Calls(a, i.k, objects, i.handles, {i.fb})
        /\ i.file = file /\ i.handles # {} /\ i.handles \in SUBSET Nat /\ i.fb \in Nat \ {0}
        /\ Name(i.k, file, i.handles, {Made(o)}) /\ AddedFb(i.k, i.fb, file, {Made(o)})
        /\ \A h \in DOMAIN a.gem[file] :
             h \in DOMAIN i.k.gem[file] /\ i.k.gem[file][h] = a.gem[file][h]
    BY <1>5, <1>8 DEF ImportGives
  <2>1. m.k = i.k /\ m.b = w
    BY <1>3, <2>0
  <2>2. /\ b \in BufferRecords /\ b.kind = "gbm" /\ b.planes = <<>>
        /\ b.bo = bo /\ b.boFile = file
    <3>1. NoBuffer \in BufferRecords
      BY NoBufferFits DEF BufferFits
    <3>2. b \in BufferRecords
      BY <1>2, <3>1 DEF BufferRecords
    <3>3. QED
      BY <3>2 DEF NoBuffer
  <2> HIDE DEF b
  <2>3. /\ w \in BufferRecords /\ w.kind = "gbm" /\ w.planes = <<>>
        /\ w.file = file /\ w.handles = i.handles /\ w.fb = i.fb
        /\ w.bo = bo /\ w.boFile = file
    BY <2>0, <2>2, WithImportHas
  <2> HIDE DEF w
  <2>4. BufferFits(w) /\ Given(w) = {bo} \cup i.handles /\ ObjectsOf(o, w) = {Made(o)}
    BY <1>1, <1>2, <2>0, <2>3 DEF BufferFits, Given, ObjectsOf
  <2>5. BufferStands(i.k, o, w)
    BY <1>2, <2>0, <2>3, <2>4 DEF BufferStands, Name
  <2>6. Calls(k, i.k, objects, {bo} \cup i.handles, {} \cup {i.fb})
    BY <1>2, <2>0, CallsFollow
  <2>7. {} \cup {i.fb} = {w.fb}
    BY <2>3
  <2>8. QED
    BY <1>6, <2>1, <2>3, <2>4, <2>5, <2>6, <2>7 DEF IsMade
<1>9. QED
  BY <1>7, <1>8

-----------------------------------------------------------------------------
(* Every step keeps the invariant of the buffers.                          *)

\* l has nothing of the owner's buffer on the file.
NothingOnFile(l, owner) ==
  /\ \A h \in DOMAIN l.gem[file] : ~HasHandle(buffers[owner], file, h)
  /\ \A id \in DOMAIN l.fbs : l.fbs[id].file = file => id # buffers[owner].fb

LEMMA ElsewhereIsNotOnFile ==
  ASSUME GemInv, NEW owner \in Owners, buffers[owner].file # file, buffers[owner].boFile # file
  PROVE  NothingOnFile(tables, owner)
<1> DEFINE b == buffers[owner]
<1>1. BufferStands(tables, owner, b) /\ tables \in KernelTables
  BY DEF GemInv
<1>2. ASSUME NEW id \in DOMAIN tables.fbs, tables.fbs[id].file = file, id = b.fb PROVE FALSE
  <2>1. b.fb # 0
    BY <1>1, <1>2, TablesParts
  <2>2. tables.fbs[id] = [file |-> b.file, objects |-> ObjectsOf(owner, b)]
    BY <1>1, <1>2, <2>1 DEF BufferStands, AddedFb
  <2>3. QED
    BY <1>2, <2>2
<1>3. QED
  BY <1>2 DEF NothingOnFile, HasHandle

LEMMA MadeIsHandled ==
  ASSUME GemInv, NEW owner \in Owners, NEW planes, NEW l,
         Calls(tables, l, Concerns(owner, planes), {}, {}), NothingOnFile(l, owner),
         NEW m, IsMade(l, m, owner, Concerns(owner, planes)),
         ToSet(m.b.planes) \subseteq ToSet(planes) \cup ToSet(buffers[owner].planes)
  PROVE  Handled(owner, m.k, m.b, Given(m.b), {m.b.fb}, planes)
<1>1. /\ Calls(l, m.k, Concerns(owner, planes), Given(m.b), {m.b.fb})
      /\ BufferFits(m.b) /\ BufferStands(m.k, owner, m.b)
      /\ m.b.file \in {0, file} /\ file \in Files
  BY DEF IsMade, GemInv
<1>2. Calls(tables, m.k, Concerns(owner, planes), Given(m.b), {m.b.fb})
  <2>1. Calls(tables, m.k, Concerns(owner, planes), {} \cup Given(m.b), {} \cup {m.b.fb})
    BY <1>1, CallsFollow
  <2>2. QED
    BY <2>1
<1>3. \A h \in Given(m.b) : HasHandle(m.b, file, h)
  <2>1. m.b.bo # 0 => m.b.boFile = file
    BY <1>1, FitsHasItsFields, FilesAreNumbers DEF BufferFits, NoBuffer
  <2>2. m.b.handles # {} => m.b.file = file
    BY <1>1 DEF BufferFits
  <2>3. QED
    BY <2>1, <2>2 DEF Given, HasHandle
<1>4. \A h \in DOMAIN m.k.gem[file] :
        h \in Given(m.b) \/ HasHandle(buffers[owner], file, h) => HasHandle(m.b, file, h)
  BY <1>1, <1>3 DEF Calls, NewOnly, NothingOnFile
<1>5. \A id \in DOMAIN m.k.fbs :
        m.k.fbs[id].file = file /\ (id \in {m.b.fb} \/ id = buffers[owner].fb) => id = m.b.fb
  BY <1>1 DEF Calls, NewOnly, NothingOnFile
<1>6. QED
  BY <1>1, <1>2, <1>4, <1>5 DEF Handled

LEMMA ForgottenHas ==
  ASSUME NEW b, BufferFits(b), b.kind \in {"dumb", "import"}, NEW k, NEW o, NEW w, w = Forgotten(b)
  PROVE  /\ BufferFits(w) /\ BufferStands(k, o, w)
         /\ w \in BufferRecords /\ w.kind = b.kind /\ w.planes = b.planes
         /\ w.file = 0 /\ w.handles = {} /\ w.fb = 0 /\ w.bo = 0 /\ w.boFile = 0
<1>1. b \in BufferRecords /\ b.bo = 0 /\ b.boFile = 0
  BY DEF BufferFits
<1>2. w \in BufferRecords
  BY <1>1 DEF Forgotten, BufferRecords
<1>3. b = [kind |-> b.kind, file |-> b.file, handles |-> b.handles, fb |-> b.fb,
           planes |-> b.planes, bo |-> b.bo, boFile |-> b.boFile]
  BY <1>1 DEF BufferRecords
<1>4. /\ w.kind = b.kind /\ w.planes = b.planes
      /\ w.file = 0 /\ w.handles = {} /\ w.fb = 0 /\ w.bo = 0 /\ w.boFile = 0
  BY <1>1, <1>2, <1>3 DEF Forgotten
<1>5. BufferFits(w) /\ BufferStands(k, o, w)
  BY <1>2, <1>4 DEF BufferFits, BufferStands, Name
<1>6. QED
  BY <1>2, <1>4, <1>5

LEMMA GemParts ==
  ASSUME GemInv, NEW owner \in Owners, NEW planes
  PROVE  /\ tables \in KernelTables /\ file \in Files /\ file # 0
         /\ BufferFits(buffers[owner]) /\ BufferStands(tables, owner, buffers[owner])
         /\ ObjectsOf(owner, buffers[owner]) # {}
         /\ ObjectsOf(owner, buffers[owner]) \subseteq Concerns(owner, planes)
         /\ Made(owner) \in Concerns(owner, planes)
         /\ ProducedOf(planes) \subseteq Concerns(owner, planes)
         /\ ProducedOf(buffers[owner].planes) \subseteq Concerns(owner, planes)
         /\ Calls(tables, tables, Concerns(owner, planes), {}, {})
<1>1. /\ tables \in KernelTables /\ file \in Files
      /\ BufferFits(buffers[owner]) /\ BufferStands(tables, owner, buffers[owner])
  BY DEF GemInv
<1>2. /\ ObjectsOf(owner, buffers[owner]) # {}
      /\ ObjectsOf(owner, buffers[owner]) \subseteq Concerns(owner, planes)
  BY <1>1, ObjectsAreConcerns
<1>3. file # 0
  BY <1>1, FilesAreNumbers
<1>4. Calls(tables, tables, Concerns(owner, planes), {}, {})
  BY <1>1, CallsNothing
<1>5. QED
  BY <1>1, <1>2, <1>3, <1>4 DEF Concerns, ProducedOf

LEMMA NoPlanes ==
  ASSUME NEW owner
  PROVE  ToSet(<<>>) = {} /\ NoneOf(owner, <<>>)
BY DEF ToSet, NoneOf

LEMMA AllocatesKeepsGem ==
  ASSUME GemInv, ~Shares, NEW owner \in Owners, Allocates(owner)
  PROVE  GemInv'
<1>1. /\ tables \in KernelTables /\ file \in Files /\ buffers[owner] = NoBuffer
      /\ UNCHANGED <<file, live>>
  BY GemParts DEF Allocates, BufferFits
<1>2. NothingOnFile(tables, owner)
  BY <1>1, GemParts, ElsewhereIsNotOnFile DEF NoBuffer
<1>3. ASSUME NEW addFb \in BOOLEAN, NEW fails \in BOOLEAN,
             Keeps(owner, CreateDumb(tables, owner, addFb, fails))
      PROVE  GemInv'
  <2> DEFINE m == CreateDumb(tables, owner, addFb, fails)
  <2>1. /\ Made(owner) \in Concerns(owner, <<>>)
        /\ Calls(tables, tables, Concerns(owner, <<>>), {}, {})
    BY GemParts
  <2>2. IsMade(tables, m, owner, Concerns(owner, <<>>)) /\ m.b.planes = <<>>
    BY <1>1, <2>1, MadeDumb
  <2> HIDE DEF m
  <2>3. Handled(owner, m.k, m.b, Given(m.b), {m.b.fb}, <<>>)
    BY <1>2, <2>1, <2>2, MadeIsHandled
  <2>4. QED
    BY <1>1, <1>3, <2>3, NoPlanes, HandledIsKept DEF m
<1>4. ASSUME NEW planes \in Layouts, NEW taken \in Points(Len(planes)), NotShared(owner, planes),
             Keeps(owner, CreateImport(tables, planes, taken))
      PROVE  GemInv'
  <2> DEFINE m == CreateImport(tables, planes, taken)
  <2>1. /\ ProducedOf(planes) \subseteq Concerns(owner, planes)
        /\ Calls(tables, tables, Concerns(owner, planes), {}, {})
    BY GemParts
  <2>2. /\ IsMade(tables, m, owner, Concerns(owner, planes))
        /\ ToSet(m.b.planes) \subseteq ToSet(planes)
    BY <1>1, <2>1, MadeImport
  <2> HIDE DEF m
  <2>3. Handled(owner, m.k, m.b, Given(m.b), {m.b.fb}, planes)
    BY <1>2, <2>1, <2>2, MadeIsHandled
  <2>4. NoneOf(owner, planes)
    BY <1>4 DEF NotShared, NoneOf
  <2>5. QED
    BY <1>1, <1>4, <2>3, <2>4, HandledIsKept DEF m
<1>5. ASSUME NEW taken \in Points(1), Keeps(owner, CreateGbm(tables, owner, taken))
      PROVE  GemInv'
  <2> DEFINE m == CreateGbm(tables, owner, taken)
  <2>1. /\ Made(owner) \in Concerns(owner, <<>>)
        /\ Calls(tables, tables, Concerns(owner, <<>>), {}, {})
    BY GemParts
  <2>2. IsMade(tables, m, owner, Concerns(owner, <<>>)) /\ m.b.planes = <<>>
    BY <1>1, <2>1, MadeGbm
  <2> HIDE DEF m
  <2>3. Handled(owner, m.k, m.b, Given(m.b), {m.b.fb}, <<>>)
    BY <1>2, <2>1, <2>2, MadeIsHandled
  <2>4. QED
    BY <1>1, <1>5, <2>3, NoPlanes, HandledIsKept DEF m
<1>6. QED
  BY <1>3, <1>4, <1>5 DEF Allocates

LEMMA ReplacesKeepsGem ==
  ASSUME GemInv, ~Shares, NEW owner \in Owners, Replaces(owner)
  PROVE  GemInv'
<1> DEFINE b == buffers[owner]
           l == TearDown(tables, b)
<1>1. b.kind = "import" /\ UNCHANGED <<file, live>> /\ tables \in KernelTables /\ file \in Files
  BY GemParts DEF Replaces
<1>2. PICK planes \in Layouts : \E taken \in Points(Len(planes)) :
        NotShared(owner, planes) /\ Keeps(owner, CreateImport(l, planes, taken))
  BY DEF Replaces
<1>3. PICK taken \in Points(Len(planes)) :
        NotShared(owner, planes) /\ Keeps(owner, CreateImport(l, planes, taken))
  BY <1>2
<1>4. /\ ProducedOf(planes) \subseteq Concerns(owner, planes)
      /\ BufferFits(b) /\ BufferStands(tables, owner, b)
      /\ ObjectsOf(owner, b) # {} /\ ObjectsOf(owner, b) \subseteq Concerns(owner, planes)
  BY GemParts
<1>5. l = DropBuffer(tables, b)
  BY <1>1 DEF DropBuffer
<1> HIDE DEF b, l
<1>6. /\ Calls(tables, l, Concerns(owner, planes), {}, {})
      /\ \A f \in Files : \A h \in DOMAIN l.gem[f] : ~HasHandle(b, f, h)
      /\ \A id \in DOMAIN l.fbs : id # b.fb
  BY <1>1, <1>4, <1>5, DroppedIsGone
<1>7. NothingOnFile(l, owner) /\ l \in KernelTables
  BY <1>1, <1>6 DEF NothingOnFile, b, Calls
<1> DEFINE m == CreateImport(l, planes, taken)
<1>8. /\ IsMade(l, m, owner, Concerns(owner, planes))
      /\ ToSet(m.b.planes) \subseteq ToSet(planes)
  BY <1>1, <1>4, <1>7, MadeImport
<1> HIDE DEF m
<1>9. Handled(owner, m.k, m.b, Given(m.b), {m.b.fb}, planes)
  BY <1>6, <1>7, <1>8, MadeIsHandled
<1>10. NoneOf(owner, planes)
  BY <1>3 DEF NotShared, NoneOf
<1>11. QED
  BY <1>1, <1>3, <1>9, <1>10, HandledIsKept DEF m

LEMMA DropsKeepsGem ==
  ASSUME GemInv, NEW owner \in Owners, Drops(owner)
  PROVE  GemInv'
<1> DEFINE b == buffers[owner]
           l == DropBuffer(tables, b)
           m == [k |-> l, b |-> NoBuffer]
<1>1. b.kind # "none" /\ Keeps(owner, m) /\ UNCHANGED <<file, live>>
  BY DEF Drops
<1>2. /\ tables \in KernelTables /\ file \in Files
      /\ BufferFits(b) /\ BufferStands(tables, owner, b)
      /\ ObjectsOf(owner, b) # {} /\ ObjectsOf(owner, b) \subseteq Concerns(owner, <<>>)
  BY GemParts
<1>3. m.k = l /\ m.b = NoBuffer
  OBVIOUS
<1>4. /\ Calls(tables, l, Concerns(owner, <<>>), {}, {})
      /\ \A f \in Files : \A h \in DOMAIN l.gem[f] : ~HasHandle(b, f, h)
      /\ \A id \in DOMAIN l.fbs : id # b.fb
  BY <1>1, <1>2, DroppedIsGone
<1> HIDE DEF l, m
<1>5. ToSet(NoBuffer.planes) = {}
  BY DEF NoBuffer, ToSet
<1>6. Handled(owner, l, NoBuffer, {}, {}, <<>>)
  BY <1>2, <1>4, <1>5, NoBufferFits DEF Handled
<1>7. QED
  BY <1>1, <1>3, <1>6, NoPlanes, HandledIsKept

LEMMA UnimportsKeepsGem ==
  ASSUME GemInv, NEW owner \in Owners, Unimports(owner)
  PROVE  GemInv'
<1> DEFINE b == buffers[owner]
           l == TearDown(tables, b)
           w == Forgotten(b)
           m == [k |-> l, b |-> w]
<1>1. b.kind = "import" /\ Keeps(owner, m) /\ UNCHANGED <<file, live>>
  BY DEF Unimports
<1>2. /\ tables \in KernelTables /\ file \in Files
      /\ BufferFits(b) /\ BufferStands(tables, owner, b)
      /\ ObjectsOf(owner, b) # {} /\ ObjectsOf(owner, b) \subseteq Concerns(owner, <<>>)
  BY GemParts
<1>3. m.k = l /\ m.b = w /\ l = DropBuffer(tables, b)
  BY <1>1 DEF DropBuffer
<1> HIDE DEF l, m
<1>4. /\ Calls(tables, l, Concerns(owner, <<>>), {}, {})
      /\ \A f \in Files : \A h \in DOMAIN l.gem[f] : ~HasHandle(b, f, h)
      /\ \A id \in DOMAIN l.fbs : id # b.fb
  BY <1>1, <1>2, <1>3, DroppedIsGone
<1>5. BufferFits(w) /\ BufferStands(l, owner, w) /\ w.planes = b.planes
  BY <1>1, <1>2, ForgottenHas
<1> HIDE DEF w
<1>6. Handled(owner, l, w, {}, {}, <<>>)
  BY <1>2, <1>4, <1>5 DEF Handled
<1>7. QED
  BY <1>1, <1>3, <1>6, NoPlanes, HandledIsKept

LEMMA ForgetsKeepsGem ==
  ASSUME GemInv, NEW owner \in Owners, ForgetsOnPause(owner)
  PROVE  GemInv'
<1> DEFINE b == buffers[owner]
           w == Forgotten(b)
           m == [k |-> tables, b |-> w]
<1>1. b.kind = "dumb" /\ ~live /\ Keeps(owner, m) /\ UNCHANGED <<file, live>>
  BY DEF ForgetsOnPause
<1>2. /\ BufferFits(b) /\ Calls(tables, tables, Concerns(owner, <<>>), {}, {})
  BY GemParts
<1>3. m.k = tables /\ m.b = w
  OBVIOUS
<1> HIDE DEF m
<1>4. BufferFits(w) /\ BufferStands(tables, owner, w) /\ w.planes = b.planes
  BY <1>1, <1>2, ForgottenHas
<1> HIDE DEF w
<1>5. Handled(owner, tables, w, {}, {}, <<>>)
  BY <1>1, <1>2, <1>4 DEF Handled
<1>6. QED
  BY <1>1, <1>3, <1>5, NoPlanes, HandledIsKept

\* Until a GBM buffer made anew stands, nothing of the old one is touched.
LEMMA ResumedGbmKeepsGem ==
  ASSUME GemInv, NEW owner \in Owners, buffers[owner].kind = "gbm", buffers[owner].boFile # file,
         NothingOnFile(tables, owner), NEW taken \in Points(1),
         Keeps(owner, ResumedGbm(owner, taken)), UNCHANGED <<file, live>>
  PROVE  GemInv'
<1> DEFINE old == buffers[owner]
           new == CreateGbm(tables, owner, taken)
           m == ResumedGbm(owner, taken)
           objects == Concerns(owner, <<>>)
<1>1. /\ tables \in KernelTables /\ file \in Files /\ BufferFits(old)
      /\ BufferStands(tables, owner, old) /\ Made(owner) \in objects
      /\ Calls(tables, tables, objects, {}, {})
  BY GemParts
<1>2. /\ IsMade(tables, new, owner, objects) /\ new.b.planes = <<>>
      /\ new.b = NoBuffer \/ (new.b.kind = "gbm" /\ new.b.file = file)
      /\ OnlyThisFile(tables, new.k)
  BY <1>1, MadeGbm
<1>3. /\ old.bo # 0 /\ old.boFile \in Files /\ old.file = old.boFile /\ old.planes = <<>>
      /\ tables.gem[old.boFile][old.bo] = Made(owner)
  BY <1>1 DEF BufferFits, BufferStands, Name
<1> DEFINE l == Closes(new.k, old.boFile, {old.bo})
<1>4. /\ m.k = IF new.b = NoBuffer THEN new.k ELSE l
      /\ m.b = IF new.b = NoBuffer THEN old ELSE new.b
  <2>1. new = [k |-> new.k, b |-> new.b]
    BY DEF CreateGbm
  <2> HIDE DEF new
  <2>2. m = IF new.b = NoBuffer THEN [new EXCEPT !.b = old] ELSE [new EXCEPT !.k = l]
    BY DEF ResumedGbm, new
  <2>3. QED
    BY <2>1, <2>2
<1> HIDE DEF new, m, l
<1>5. Calls(tables, new.k, objects, Given(new.b), {new.b.fb}) /\ new.k \in KernelTables
      /\ BufferFits(new.b) /\ BufferStands(new.k, owner, new.b)
  BY <1>2 DEF IsMade, Calls
<1>6. CASE new.b = NoBuffer
  <2>1. Given(NoBuffer) = {} /\ NoBuffer.fb = 0
    BY DEF Given, NoBuffer
  <2>2. Calls(tables, new.k, objects, {}, {0}) /\ m.k = new.k /\ m.b = old
    BY <1>4, <1>5, <1>6, <2>1
  <2>3. BufferStands(new.k, owner, old)
    BY <1>1, <1>2, <1>3 DEF BufferStands, Name, AddedFb, OnlyThisFile
  <2>4. \A id \in DOMAIN new.k.fbs : new.k.fbs[id].file = file /\ id = old.fb => FALSE
    BY <1>1, <1>3, <1>5, <2>3, TablesParts DEF BufferStands, AddedFb
  <2>5. \A h : ~HasHandle(old, file, h)
    BY <1>3 DEF HasHandle
  <2>6. \A id \in DOMAIN new.k.fbs : id # 0
    BY <1>5, TablesParts
  <2>7. Handled(owner, new.k, old, {}, {0}, <<>>)
    BY <1>1, <2>2, <2>3, <2>4, <2>5, <2>6 DEF Handled
  <2>8. QED
    BY <2>2, <2>7, NoPlanes, HandledIsKept DEF m
<1>7. CASE new.b # NoBuffer
  <2>1. m.k = l /\ m.b = new.b /\ new.b.kind = "gbm" /\ new.b.file = file
    BY <1>2, <1>4, <1>7
  <2>2. new.k.gem[old.boFile][old.bo] = Made(owner)
    BY <1>2, <1>3 DEF OnlyThisFile
  <2>3. Calls(new.k, l, objects, {}, {})
    BY <1>1, <1>3, <1>5, <2>2, CallsClose DEF l
  <2>4. Calls(tables, l, objects, Given(new.b), {new.b.fb})
    <3>1. Calls(tables, l, objects, Given(new.b) \cup {}, {new.b.fb} \cup {})
      BY <1>5, <2>3, CallsFollow
    <3>2. QED
      BY <3>1
  <2>5. BufferStands(l, owner, new.b)
    <3>1. l.fbs = new.k.fbs /\ l.gem[file] = new.k.gem[file]
      BY <1>1, <1>3, <1>5, ClosesNumbers DEF l
    <3>2. new.b.boFile = file
      BY <1>5, <2>1 DEF BufferFits
    <3>3. QED
      BY <1>5, <2>1, <3>1, <3>2 DEF BufferStands, Name, AddedFb
  <2>6. IsMade(tables, m, owner, objects)
    BY <1>5, <2>1, <2>4, <2>5 DEF IsMade
  <2>7. ToSet(m.b.planes) = {}
    BY <1>2, <2>1, NoPlanes
  <2>8. Handled(owner, m.k, m.b, Given(m.b), {m.b.fb}, <<>>)
    BY <1>1, <2>6, <2>7, MadeIsHandled
  <2>9. QED
    BY <2>8, NoPlanes, HandledIsKept DEF m
<1>8. QED
  BY <1>6, <1>7

LEMMA ResumesKeepsGem ==
  ASSUME GemInv, ~Retries, NEW owner \in Owners, Resumes(owner)
  PROVE  GemInv'
<1> DEFINE b == buffers[owner]
           objects == Concerns(owner, <<>>)
<1>1. b.boFile # file /\ b.file # file /\ UNCHANGED <<file, live>>
  BY DEF Resumes
<1>2. NothingOnFile(tables, owner)
  BY <1>1, ElsewhereIsNotOnFile
<1>3. /\ tables \in KernelTables /\ file \in Files /\ BufferFits(b)
      /\ BufferStands(tables, owner, b) /\ Made(owner) \in objects
      /\ ProducedOf(b.planes) \subseteq objects
      /\ Calls(tables, tables, objects, {}, {})
  BY GemParts
<1>4. ASSUME b.kind = "dumb", NEW fails \in BOOLEAN, Keeps(owner, ResumedDumb(owner, fails))
      PROVE  GemInv'
  <2> DEFINE new == CreateDumb(tables, owner, TRUE, fails)
             m == ResumedDumb(owner, fails)
  <2>1. /\ IsMade(tables, new, owner, objects) /\ new.b.planes = <<>>
        /\ fails => new.b = NoBuffer
    <3>1. new = CreateDumb(tables, owner, TRUE, fails)
      OBVIOUS
    <3>2. /\ tables \in KernelTables /\ file \in Files /\ Made(owner) \in objects
          /\ TRUE \in BOOLEAN
      BY <1>3
    <3> HIDE DEF new, objects
    <3>3. ASSUME NEW addFb \in BOOLEAN, new = CreateDumb(tables, owner, addFb, fails)
          PROVE  /\ IsMade(tables, new, owner, objects) /\ new.b.planes = <<>>
                 /\ fails => new.b = NoBuffer
      BY <3>2, <3>3, MadeDumb
    <3>4. QED
      BY <3>1, <3>2, <3>3
  <2>2. CASE ~fails
    <3>1. m = new
      BY <2>2 DEF ResumedDumb
    <3> HIDE DEF new, m
    <3>2. ToSet(m.b.planes) = {}
      BY <2>1, <3>1, NoPlanes
    <3>3. Handled(owner, m.k, m.b, Given(m.b), {m.b.fb}, <<>>)
      BY <1>2, <1>3, <2>1, <3>1, <3>2, MadeIsHandled
    <3>4. QED
      BY <1>1, <1>4, <3>3, NoPlanes, HandledIsKept DEF m
  <2>3. CASE fails
    <3> DEFINE w == Forgotten(b)
    <3>1. m.k = new.k /\ m.b = w
      <4>1. new = [k |-> new.k, b |-> new.b]
        BY DEF CreateDumb
      <4> HIDE DEF new, w
      <4>2. m = [new EXCEPT !.b = w]
        BY <2>3 DEF ResumedDumb, new, w
      <4>3. QED
        BY <4>1, <4>2
    <3> HIDE DEF new, m
    <3>2. /\ BufferFits(w) /\ BufferStands(new.k, owner, w) /\ w.planes = b.planes
          /\ w.file = 0 /\ w.fb = 0
      BY <1>3, <1>4, ForgottenHas
    <3> HIDE DEF w
    <3>3. Given(NoBuffer) = {} /\ NoBuffer.fb = 0
      BY DEF Given, NoBuffer
    <3>4. Calls(tables, new.k, objects, {}, {0}) /\ new.k \in KernelTables
      BY <2>1, <2>3, <3>3 DEF IsMade, Calls
    <3>5. \A h : ~HasHandle(b, file, h)
      BY <1>1 DEF HasHandle
    <3>6. \A id \in DOMAIN new.k.fbs : id # 0
      BY <3>4, TablesParts
    <3>7. \A id \in DOMAIN new.k.fbs : new.k.fbs[id].file = file => id # b.fb
      BY <1>2, <3>4, <3>6 DEF Calls, NewOnly, NothingOnFile
    <3>8. Handled(owner, new.k, w, {}, {0}, <<>>)
      BY <3>2, <3>4, <3>5, <3>6, <3>7 DEF Handled
    <3>9. QED
      BY <1>1, <1>4, <3>1, <3>8, NoPlanes, HandledIsKept DEF m
  <2>4. QED
    BY <2>2, <2>3
<1>5. ASSUME b.kind = "import", NEW taken \in Points(Len(b.planes)),
             Keeps(owner, Reimport(b, taken))
      PROVE  GemInv'
  <2> DEFINE i == ImportPlanes(tables, Names(b.planes), taken)
             w == Forgotten(b)
             m == Reimport(b, taken)
  <2>1. /\ w \in BufferRecords /\ w.kind = "import" /\ w.planes = b.planes
        /\ w.bo = 0 /\ w.boFile = 0 /\ b.planes \in Layouts
    <3>1. w = Forgotten(b)
      OBVIOUS
    <3> HIDE DEF b, w
    <3>2. BufferFits(b) /\ b.kind \in {"dumb", "import"} /\ b.kind = "import"
      BY <1>3, <1>5
    <3>3. /\ w \in BufferRecords /\ w.kind = b.kind /\ w.planes = b.planes
          /\ w.bo = 0 /\ w.boFile = 0
      BY <3>1, <3>2, ForgottenHas
    <3>4. b.planes \in Layouts
      BY <3>2 DEF BufferFits
    <3>5. QED
      BY <3>2, <3>3, <3>4
  <2>2. m.k = i.k /\ m.b = WithImport(w, i)
    BY DEF Reimport
  <2> HIDE DEF w, m, i
  <2>3. IsMade(tables, m, owner, objects) /\ m.b.planes = b.planes
    <3> DEFINE planes == b.planes
    <3>1. i = ImportPlanes(tables, Names(planes), taken)
      BY DEF i
    <3> HIDE DEF b, objects
    <3>2. /\ tables \in KernelTables /\ file \in Files /\ planes \in Layouts
          /\ ProducedOf(planes) \subseteq objects /\ taken \in Points(Len(planes))
          /\ w \in BufferRecords /\ w.kind = "import" /\ w.planes = planes
          /\ w.bo = 0 /\ w.boFile = 0
      BY <1>3, <1>5, <2>1
    <3> HIDE DEF planes
    <3>3. IsMade(tables, m, owner, objects) /\ m.b.planes = planes
      BY <2>2, <3>1, <3>2, MadeOfImport
    <3>4. QED
      BY <3>3 DEF planes
  <2>4. Handled(owner, m.k, m.b, Given(m.b), {m.b.fb}, <<>>)
    BY <1>2, <1>3, <2>3, MadeIsHandled
  <2>5. QED
    BY <1>1, <1>5, <2>4, NoPlanes, HandledIsKept DEF m
<1>6. ASSUME b.kind = "gbm", NEW taken \in Points(1), Keeps(owner, ResumedGbm(owner, taken))
      PROVE  GemInv'
  BY <1>1, <1>2, <1>6, ResumedGbmKeepsGem
<1>7. QED
  BY <1>1, <1>4, <1>5, <1>6 DEF Resumes

LEMMA PausesKeepsGem ==
  ASSUME GemInv, SessionPauses
  PROVE  GemInv'
<1>1. live' = FALSE /\ tables' = tables /\ file' = file /\ buffers' = buffers
  BY DEF SessionPauses
<1>2. (\A o \in Owners : BufferFits(buffers[o]) /\ BufferStands(tables, o, buffers[o]))'
  <2>1. \A o \in Owners : BufferFits(buffers'[o]) /\ BufferStands(tables', o, buffers'[o])
    BY <1>1 DEF GemInv
  <2>2. QED
    BY <2>1 DEF BufferFits, BufferStands, BufferRecords, ObjectsOf, Name, AddedFb
<1>3. QED
  BY <1>1, <1>2 DEF GemInv, Files

\* A session that comes back finds nothing on its new file.
LEMMA ReopensKeepsGem ==
  ASSUME GemInv, NEW alsoOpen, SessionReopens(alsoOpen)
  PROVE  GemInv'
<1> DEFINE open == alsoOpen \cup {file'} \cup UNION {HeldOpen(buffers[o]) : o \in Owners}
<1>1. /\ file \in Files /\ tables \in KernelTables
      /\ DOMAIN buffers = Owners /\ buffers = [o \in Owners |-> buffers[o]]
      /\ \A o \in Owners : BufferFits(buffers[o]) /\ BufferStands(tables, o, buffers[o])
      /\ \A o, p \in Owners : o # p => ToSet(buffers[o].planes) \cap ToSet(buffers[p].planes) = {}
      /\ \A f \in Files : f > file => DOMAIN tables.gem[f] = {}
      /\ \A id \in DOMAIN tables.fbs : tables.fbs[id].file <= file
  BY DEF GemInv
<1>2. /\ file < MaxOpens /\ live' = TRUE /\ file' = file + 1 /\ buffers' = buffers
      /\ tables' = Reclaims(tables, open)
  BY DEF SessionReopens
<1> HIDE DEF open
<1>3. /\ tables' \in KernelTables
      /\ \A f \in Files : DOMAIN tables'.gem[f] = {} \/ tables'.gem[f] = tables.gem[f]
      /\ \A id \in DOMAIN tables'.fbs : id \in DOMAIN tables.fbs /\ tables'.fbs[id] = tables.fbs[id]
  BY <1>1, <1>2, ReclaimsFiles
<1>4. file \in Nat /\ file' \in Files /\ file' > file /\ MaxOpens \in Nat
  BY <1>1, <1>2, GemAssumption DEF Files
<1>5. ASSUME NEW o \in Owners PROVE BufferStands(tables', o, buffers[o])
  <2> DEFINE l == tables'
  <2>1. /\ HeldOpen(buffers[o]) \subseteq open /\ l = Reclaims(tables, open)
        /\ tables \in KernelTables
        /\ BufferFits(buffers[o]) /\ BufferStands(tables, o, buffers[o])
    BY <1>1, <1>2 DEF open
  <2> HIDE DEF l
  <2>2. BufferStands(l, o, buffers[o])
    BY <2>1, ReclaimingKeeps
  <2>3. QED
    BY <2>2 DEF l
<1>6. (live => HandlesKnown(tables, buffers) /\ FbsKnown(tables, buffers))'
  <2>1. DOMAIN tables'.gem[file'] = {}
    BY <1>1, <1>3, <1>4
  <2>2. \A id \in DOMAIN tables'.fbs : tables'.fbs[id].file # file'
    BY <1>1, <1>3, <1>4, FilesAreNumbers, TablesParts
  <2>3. QED
    BY <2>1, <2>2 DEF HandlesKnown, FbsKnown
<1>7. (\A o \in Owners : BufferFits(buffers[o]) /\ BufferStands(tables, o, buffers[o]))'
  <2>1. \A o \in Owners : BufferFits(buffers'[o]) /\ BufferStands(tables', o, buffers'[o])
    BY <1>1, <1>2, <1>5
  <2>2. QED
    BY <2>1 DEF BufferFits, BufferStands, BufferRecords, ObjectsOf, Name, AddedFb
<1>8. (\A f \in Files : f > file => DOMAIN tables.gem[f] = {})'
  <2>1. ASSUME NEW f \in Files, f > file' PROVE DOMAIN tables'.gem[f] = {}
    BY <1>1, <1>3, <1>4, <2>1, FilesAreNumbers
  <2>2. QED
    BY <2>1 DEF Files
<1>9. (\A id \in DOMAIN tables.fbs : tables.fbs[id].file <= file)'
  <2>1. ASSUME NEW id \in DOMAIN tables'.fbs PROVE tables'.fbs[id].file <= file'
    BY <1>1, <1>3, <1>4, <2>1, FilesAreNumbers, TablesParts
  <2>2. QED
    BY <2>1
<1>10. (file \in Files /\ live \in BOOLEAN /\ tables \in KernelTables)'
  BY <1>2, <1>3, <1>4 DEF Files
<1>11. QED
  BY <1>1, <1>2, <1>6, <1>7, <1>8, <1>9, <1>10 DEF GemInv

LEMMA GemStutters ==
  ASSUME GemInv, UNCHANGED gemVars
  PROVE  GemInv'
<1>1. UNCHANGED <<tables, file, live, buffers>>
  BY DEF gemVars
<1>2. (\A o \in Owners : BufferFits(buffers[o]) /\ BufferStands(tables, o, buffers[o]))'
  <2>1. \A o \in Owners : BufferFits(buffers'[o]) /\ BufferStands(tables', o, buffers'[o])
    BY <1>1 DEF GemInv
  <2>2. QED
    BY <2>1 DEF BufferFits, BufferStands, BufferRecords, ObjectsOf, Name, AddedFb
<1>3. QED
  BY <1>1, <1>2 DEF GemInv, Files, HandlesKnown, FbsKnown, HasHandle

LEMMA GemStarts ==
  ASSUME GemInit
  PROVE  GemInv
<1>1. /\ tables = [gem |-> [f \in Files |-> <<>>], fbs |-> <<>>] /\ file = 1 /\ live = TRUE
      /\ buffers = [o \in Owners |-> NoBuffer]
  BY DEF GemInit
<1>2. \A X : <<>> \in Numbered(X)
  <2>1. IsFiniteSet({}) /\ {} \in SUBSET (Nat \ {0})
    BY FS_EmptySet
  <2>2. \A X : <<>> \in [{} -> X]
    OBVIOUS
  <2>3. QED
    BY <2>1, <2>2 DEF Numbered
<1>3. tables \in KernelTables /\ tables.fbs = <<>> /\ \A f \in Files : tables.gem[f] = <<>>
  BY <1>1, <1>2 DEF KernelTables
<1>4. DOMAIN <<>> = {} /\ ToSet(NoBuffer.planes) = {} /\ file \in Files
  BY <1>1, NoPlanes, GemAssumption DEF NoBuffer, Files
<1>5. \A o \in Owners : BufferFits(buffers[o]) /\ BufferStands(tables, o, buffers[o])
  BY <1>1, NoBufferFits
<1>6. QED
  BY <1>1, <1>3, <1>4, <1>5 DEF GemInv, HandlesKnown, FbsKnown

LEMMA GemSteps ==
  ASSUME GemInv, ~Shares, ~Retries, GemNext
  PROVE  GemInv'
<1>1. ASSUME NEW o \in Owners, Allocates(o) PROVE GemInv'
  BY <1>1, AllocatesKeepsGem
<1>2. ASSUME NEW o \in Owners, Replaces(o) PROVE GemInv'
  BY <1>2, ReplacesKeepsGem
<1>3. ASSUME NEW o \in Owners, Drops(o) PROVE GemInv'
  BY <1>3, DropsKeepsGem
<1>4. ASSUME NEW o \in Owners, Unimports(o) PROVE GemInv'
  BY <1>4, UnimportsKeepsGem
<1>5. ASSUME NEW o \in Owners, ForgetsOnPause(o) PROVE GemInv'
  BY <1>5, ForgetsKeepsGem
<1>6. ASSUME NEW o \in Owners, Resumes(o) PROVE GemInv'
  BY <1>6, ResumesKeepsGem
<1>7. CASE SessionPauses
  BY <1>7, PausesKeepsGem
<1>8. CASE SessionReopens({})
  BY <1>8, ReopensKeepsGem
<1>9. QED
  BY <1>1, <1>2, <1>3, <1>4, <1>5, <1>6, <1>7, <1>8 DEF GemNext

\* With no surface beside, the tables agree.
LEMMA GemAgrees ==
  ASSUME GemInv, surface = NoSurface, scanned = {}
  PROVE  TablesAgree /\ HeldStaysLocked
<1>1. surface.bos = <<>> /\ surface.framebuffers = {} /\ DOMAIN <<>> = {}
  BY DEF NoSurface
<1>2. SurfaceStands(tables, surface)
  BY <1>1 DEF SurfaceStands
<1>3. NumbersStand
  BY <1>2 DEF NumbersStand, GemInv
<1>4. NothingLeaks
  <2>1. SUFFICES ASSUME live
                 PROVE  /\ DOMAIN tables.gem[file] \subseteq BelievedHandles(file)
                        /\ \A id \in DOMAIN tables.fbs :
                             tables.fbs[id].file = file => id \in BelievedFbs
    BY DEF NothingLeaks
  <2>2. HandlesKnown(tables, buffers) /\ FbsKnown(tables, buffers)
    BY <2>1 DEF GemInv
  <2>3. ASSUME NEW h \in DOMAIN tables.gem[file] PROVE h \in BelievedHandles(file)
    <3> DEFINE had == UNION {buffers[o].handles : o \in {o \in Owners : buffers[o].file = file}}
               bos == {buffers[o].bo : o \in {o \in Owners : buffers[o].boFile = file}}
    <3>1. PICK o \in Owners : HasHandle(buffers[o], file, h)
      BY <2>2 DEF HandlesKnown
    <3>2. h \in had \/ h \in bos
      BY <3>1 DEF HasHandle
    <3>3. had \cup bos \subseteq BelievedHandles(file)
      <4>1. BelievedHandles(file) =
              had \cup bos \cup (IF surface.gbmFile = file THEN Range(surface.bos) ELSE {})
        BY DEF BelievedHandles
      <4> HIDE DEF had, bos
      <4>2. QED
        BY <4>1
    <3>4. QED
      BY <3>2, <3>3
  <2>4. ASSUME NEW id \in DOMAIN tables.fbs, tables.fbs[id].file = file PROVE id \in BelievedFbs
    BY <2>2, <2>4 DEF FbsKnown, BelievedFbs
  <2>5. QED
    BY <2>3, <2>4
<1>5. HeldStaysLocked
  BY DEF HeldStaysLocked
<1>6. QED
  BY <1>3, <1>4, <1>5 DEF TablesAgree

-----------------------------------------------------------------------------
(* A surface: its invariant.                                               *)

SurfaceRecords ==
  [gbmFile : Nat, fbFile : Nat, bos : [1..Chain -> Nat] \cup {<<>>},
   framebuffers : SUBSET [handle : Nat, fb : Nat], locked : SUBSET [token : Nat, buffer : Nat],
   nextToken : Nat, paused : BOOLEAN, bound : BOOLEAN]

\* A surface that stands has its chain, and unless it is paused it is on one
\* file, where its framebuffers show the chain's buffers.
SurfaceFits(s) ==
  /\ s \in SurfaceRecords
  /\ s # NoSurface =>
       /\ s.gbmFile \in Files /\ s.fbFile \in Files
       /\ s.gbmFile <= file /\ s.fbFile <= file
       /\ s.bos \in [1..Chain -> Nat]
       /\ s.paused => s.framebuffers = {}
       /\ ~s.paused => s.fbFile = s.gbmFile
       /\ \A c \in s.framebuffers : c.handle \in Range(s.bos)

\* All that is on the file is the surface's.
AllOfSurface(k, s) ==
  /\ DOMAIN k.gem[file] \subseteq (IF s.gbmFile = file THEN Range(s.bos) ELSE {})
  /\ \A id \in DOMAIN k.fbs :
       k.fbs[id].file = file => \E c \in s.framebuffers : c.fb = id

\* Nothing is on a file not opened yet.
NothingAhead(k) ==
  /\ \A f \in Files : f > file => DOMAIN k.gem[f] = {}
  /\ \A id \in DOMAIN k.fbs : k.fbs[id].file <= file

\* A lock is given once, and what is held through a pause is of an older file.
LocksAreTold ==
  /\ scanned \subseteq [token : Nat, buffer : Nat, from : Nat]
  /\ ~Standing => scanned = {}
  /\ \A x \in scanned : x.token < surface.nextToken /\ x.from <= file
  /\ \A x, y \in scanned : x.token = y.token => x = y
  /\ surface.paused /\ live => \A x \in scanned : x.from < file

ChainInv ==
  /\ file \in Files /\ live \in BOOLEAN /\ tables \in KernelTables
  /\ buffers = [o \in Owners |-> NoBuffer]
  /\ SurfaceFits(surface) /\ SurfaceStands(tables, surface) /\ NothingAhead(tables)
  /\ live => AllOfSurface(tables, surface)

SurfaceInv == ChainInv /\ rendered \in 0..Chain /\ LocksAreTold /\ HeldStaysLocked

\* What of a chain is made after n steps, f being the tables at each.
ChainedTo(k, n, f) ==
  /\ f[n] \in KernelTables /\ f[n].fbs = k.fbs
  /\ \A g \in Files \ {file} : f[n].gem[g] = k.gem[g]
  /\ DOMAIN f[n].gem[file] = DOMAIN k.gem[file] \cup {FreeHandle(f[i - 1], file) : i \in 1..n}
  /\ \A h \in DOMAIN k.gem[file] : f[n].gem[file][h] = k.gem[file][h]
  /\ \A i \in 1..n :
       /\ FreeHandle(f[i - 1], file) \in Nat \ DOMAIN k.gem[file]
       /\ f[n].gem[file][FreeHandle(f[i - 1], file)] = Linked(i)

LEMMA ChainsABuffer ==
  ASSUME NEW k \in KernelTables, file \in Files, NEW n \in 1..Chain, Chain \in Nat, NEW f,
         ChainedTo(k, n - 1, f), f[n] = Creates(f[n - 1], file, Linked(n))
  PROVE  ChainedTo(k, n, f)
<1> DEFINE given(i) == FreeHandle(f[i - 1], file)
           p == f[n - 1]
           l == f[n]
           h == FreeHandle(p, file)
<1>1. /\ p \in KernelTables /\ p.fbs = k.fbs
      /\ \A g \in Files \ {file} : p.gem[g] = k.gem[g]
      /\ DOMAIN p.gem[file] = DOMAIN k.gem[file] \cup {given(i) : i \in 1..n - 1}
      /\ \A m \in DOMAIN k.gem[file] : p.gem[file][m] = k.gem[file][m]
      /\ \A i \in 1..n - 1 :
           given(i) \in Nat \ DOMAIN k.gem[file] /\ p.gem[file][given(i)] = Linked(i)
  BY DEF ChainedTo
<1>2. Linked(n) \in GemObjects /\ l = Creates(p, file, Linked(n)) /\ given(n) = h
  BY DEF GemObjects
<1>3. 1..n = 1..(n - 1) \cup {n}
  OBVIOUS
<1> HIDE DEF given, p, l, h
<1>4. /\ l \in KernelTables /\ h \in Nat \ {0} /\ h \notin DOMAIN p.gem[file]
      /\ l.fbs = p.fbs /\ \A g \in Files \ {file} : l.gem[g] = p.gem[g]
      /\ DOMAIN l.gem[file] = DOMAIN p.gem[file] \cup {h}
      /\ l.gem[file][h] = Linked(n)
      /\ \A m \in DOMAIN p.gem[file] : l.gem[file][m] = p.gem[file][m]
  <2>1. h = FreeHandle(p, file)
    BY DEF h
  <2>2. QED
    BY <1>1, <1>2, <2>1, CreatesAHandle
<1>5. DOMAIN l.gem[file] = DOMAIN k.gem[file] \cup {given(i) : i \in 1..n}
  <2>1. {given(i) : i \in 1..n} = {given(i) : i \in 1..n - 1} \cup {h}
    BY <1>2, <1>3
  <2>2. QED
    BY <1>1, <1>4, <2>1
<1>6. \A m \in DOMAIN k.gem[file] : l.gem[file][m] = k.gem[file][m]
  BY <1>1, <1>4
<1>7. ASSUME NEW i \in 1..n
      PROVE  given(i) \in Nat \ DOMAIN k.gem[file] /\ l.gem[file][given(i)] = Linked(i)
  <2>1. CASE i = n
    BY <1>1, <1>2, <1>4, <2>1
  <2>2. CASE i \in 1..n - 1
    BY <1>1, <1>4, <2>2
  <2>3. QED
    BY <1>3, <2>1, <2>2
<1>8. /\ l.fbs = k.fbs /\ \A g \in Files \ {file} : l.gem[g] = k.gem[g]
  BY <1>1, <1>4
<1>9. QED
  BY <1>4, <1>5, <1>6, <1>7, <1>8 DEF ChainedTo, given, l

\* make_surface gives every buffer of the chain a number of its own.
LEMMA ChainIsMade ==
  ASSUME NEW k \in KernelTables, file \in Files, NEW m, m = MakeSurface(k)
  PROVE  /\ m.k \in KernelTables /\ m.k.fbs = k.fbs
         /\ \A g \in Files \ {file} : m.k.gem[g] = k.gem[g]
         /\ DOMAIN m.k.gem[file] = DOMAIN k.gem[file] \cup Range(m.bos)
         /\ \A h \in DOMAIN k.gem[file] : m.k.gem[file][h] = k.gem[file][h]
         /\ m.bos \in [1..Chain -> Nat]
         /\ \A i \in 1..Chain : /\ m.bos[i] \notin DOMAIN k.gem[file]
                                /\ m.k.gem[file][m.bos[i]] = Linked(i)
<1> DEFINE N == Chain
           V == KernelTables
           Next(n, v) == Creates(v, file, Linked(n))
           Is(f) == f = [i \in 0..N |-> IF i = 0 THEN k ELSE Next(i, f[i - 1])]
           step == [n \in 1..N |-> [v \in V |-> Next(n, v)]]
           f == CHOOSE f : Is(f)
<1>1. N \in Nat /\ k \in V
  BY SurfaceAssumption
<1>2. ChainMade(k) = f
  BY DEF ChainMade
<1>3. \A n \in 1..N : \A v \in V : Next(n, v) \in V
  <2>1. SUFFICES ASSUME NEW n \in 1..N, NEW v \in V PROVE Next(n, v) \in V
    OBVIOUS
  <2>2. Linked(n) \in GemObjects
    BY DEF GemObjects
  <2>3. QED
    BY <2>2, CreatesAHandle
<1>4. \A n \in 1..N : \A v : Next(n, v) = Creates(v, file, Linked(n))
  OBVIOUS
<1> HIDE DEF N, V, Next
<1>5. Is(f)
  <2>1. Steps(N, V, k, step)
    <3>1. step \in [1..N -> [V -> V]]
      BY <1>3
    <3> HIDE DEF step
    <3>2. QED
      BY <1>1, <3>1 DEF Steps
  <2>2. PICK g : Iterates(N, V, k, step, g)
    <3> HIDE DEF step
    <3>1. QED
      BY <2>1, IteratesExist
  <2>3. g \in [0..N -> V] /\ g[0] = k
    BY <2>2 DEF Iterates
  <2>4. \A n \in 1..N : g[n - 1] \in V /\ g[n] = step[n][g[n - 1]]
    <3> HIDE DEF step
    <3>1. QED
      BY <1>1, <2>2, IteratesStep
  <2>5. \A n \in 1..N : g[n] = Next(n, g[n - 1])
    BY <2>4
  <2>6. \A n \in 0..N : n = 0 \/ n \in 1..N
    BY <1>1
  <2> HIDE DEF step
  <2>7. \A n \in 0..N : g[n] = IF n = 0 THEN k ELSE Next(n, g[n - 1])
    BY <2>3, <2>5, <2>6
  <2>8. Is(g)
    BY <2>3, <2>7
  <2>9. QED
    BY <2>8
<1> HIDE DEF f, step
<1>6. f[0] = k /\ \A n \in 1..N : f[n] = Next(n, f[n - 1])
  <2>1. 0 \in 0..N /\ \A n \in 1..N : n \in 0..N /\ n # 0
    BY <1>1
  <2>2. QED
    BY <1>5, <2>1
<1> DEFINE T == {n \in 0..N : ChainedTo(k, n, f)}
<1>7. 0 \in T
  <2>1. 1..0 = {}
    OBVIOUS
  <2>2. ChainedTo(k, 0, f)
    BY <1>1, <1>6, <2>1 DEF ChainedTo, V
  <2>3. QED
    BY <1>1, <2>2
<1>8. ASSUME NEW n \in 1..N, n - 1 \in T PROVE n \in T
  <2>1. ChainedTo(k, n - 1, f) /\ f[n] = Creates(f[n - 1], file, Linked(n)) /\ n \in 0..N
    BY <1>1, <1>4, <1>6, <1>8
  <2>2. ChainedTo(k, n, f)
    BY <1>1, <2>1, ChainsABuffer DEF N
  <2>3. QED
    BY <2>1, <2>2
<1> HIDE DEF T
<1>9. 0..N \subseteq T
  BY <1>1, <1>7, <1>8, Reaches
<1>10. ChainedTo(k, Chain, f)
  <2>1. Chain \in 0..N
    BY <1>1 DEF N
  <2>2. QED
    BY <1>9, <2>1 DEF T
<1> DEFINE bos == [i \in 1..Chain |-> FreeHandle(f[i - 1], file)]
<1>11. m.k = f[Chain] /\ m.bos = bos
  BY <1>2 DEF MakeSurface
<1>12. Range(bos) = {FreeHandle(f[i - 1], file) : i \in 1..Chain}
  BY DEF Range
<1>13. /\ bos \in [1..Chain -> Nat]
       /\ \A i \in 1..Chain : /\ bos[i] \notin DOMAIN k.gem[file]
                              /\ f[Chain].gem[file][bos[i]] = Linked(i)
  BY <1>10 DEF ChainedTo
<1> HIDE DEF bos
<1>14. QED
  BY <1>10, <1>11, <1>12, <1>13 DEF ChainedTo

-----------------------------------------------------------------------------
(* Every step keeps the invariant of a surface.                            *)

LEMMA SurfaceHasItsFields ==
  ASSUME NEW s \in SurfaceRecords
  PROVE  /\ s = [gbmFile |-> s.gbmFile, fbFile |-> s.fbFile, bos |-> s.bos,
                 framebuffers |-> s.framebuffers, locked |-> s.locked,
                 nextToken |-> s.nextToken, paused |-> s.paused, bound |-> s.bound]
         /\ s.gbmFile \in Nat /\ s.fbFile \in Nat /\ s.bos \in [1..Chain -> Nat] \cup {<<>>}
         /\ s.framebuffers \in SUBSET [handle : Nat, fb : Nat]
         /\ s.locked \in SUBSET [token : Nat, buffer : Nat]
         /\ s.nextToken \in Nat /\ s.paused \in BOOLEAN /\ s.bound \in BOOLEAN
BY DEF SurfaceRecords

LEMMA NoSurfaceFits ==
  ASSUME NEW k
  PROVE  /\ NoSurface \in SurfaceRecords /\ SurfaceFits(NoSurface) /\ SurfaceStands(k, NoSurface)
         /\ NoSurface.gbmFile = 0 /\ NoSurface.fbFile = 0 /\ NoSurface.bos = <<>>
         /\ NoSurface.framebuffers = {} /\ NoSurface.locked = {} /\ NoSurface.nextToken = 1
         /\ NoSurface.paused = FALSE /\ NoSurface.bound = FALSE
<1>1. NoSurface \in SurfaceRecords
  BY DEF NoSurface, SurfaceRecords
<1>2. /\ NoSurface.gbmFile = 0 /\ NoSurface.fbFile = 0 /\ NoSurface.bos = <<>>
      /\ NoSurface.framebuffers = {} /\ NoSurface.locked = {} /\ NoSurface.nextToken = 1
      /\ NoSurface.paused = FALSE /\ NoSurface.bound = FALSE
  BY DEF NoSurface
<1>3. SurfaceStands(k, NoSurface)
  <2>1. DOMAIN <<>> = {}
    OBVIOUS
  <2>2. QED
    BY <1>2, <2>1 DEF SurfaceStands
<1>4. QED
  BY <1>1, <1>2, <1>3 DEF SurfaceFits

\* A surface stands when only files it does not keep open go.
LEMMA SettlingKeeps ==
  ASSUME NEW k \in KernelTables, file \in Files, NEW open, NEW l, l = Reclaims(k, open),
         NEW s, SurfaceFits(s), SurfaceStands(k, s), OpenFor(s) \subseteq open
  PROVE  SurfaceStands(l, s)
<1>1. /\ \A f \in Files : IF f \in open THEN l.gem[f] = k.gem[f] ELSE DOMAIN l.gem[f] = {}
      /\ \A id \in DOMAIN k.fbs : id \in DOMAIN l.fbs <=> k.fbs[id].file \in open
      /\ \A id \in DOMAIN l.fbs : id \in DOMAIN k.fbs /\ l.fbs[id] = k.fbs[id]
  BY ReclaimsFiles
<1>2. CASE s = NoSurface
  BY <1>2, NoSurfaceFits
<1>3. CASE s # NoSurface
  <2>1. s.gbmFile \in Files /\ s.fbFile \in Files /\ s.gbmFile \in open /\ s.fbFile \in open
    BY <1>3, FilesAreNumbers DEF SurfaceFits, OpenFor
  <2>2. l.gem[s.gbmFile] = k.gem[s.gbmFile]
    BY <1>1, <2>1
  <2>3. \A i \in DOMAIN s.bos : Name(l, s.gbmFile, {s.bos[i]}, {Linked(i)})
    BY <2>2 DEF SurfaceStands, Name
  <2>4. ASSUME NEW c \in s.framebuffers
        PROVE  AddedFb(l, c.fb, s.fbFile, {l.gem[s.gbmFile][c.handle]})
    <3> DEFINE e == [file |-> s.fbFile, objects |-> {k.gem[s.gbmFile][c.handle]}]
    <3>1. c.fb \in DOMAIN k.fbs /\ k.fbs[c.fb] = e /\ e.file = s.fbFile
      BY <2>4 DEF SurfaceStands, AddedFb
    <3> HIDE DEF e
    <3>2. c.fb \in DOMAIN l.fbs /\ l.fbs[c.fb] = e
      BY <1>1, <2>1, <3>1
    <3>3. QED
      BY <2>2, <3>2 DEF AddedFb, e
  <2>5. QED
    BY <2>3, <2>4 DEF SurfaceStands
<1>4. QED
  BY <1>2, <1>3

LEMMA ChainKept ==
  ASSUME ChainInv, UNCHANGED <<file, live, buffers>>, tables' \in KernelTables,
         SurfaceFits(surface'), SurfaceStands(tables', surface'), NothingAhead(tables'),
         live => AllOfSurface(tables', surface')
  PROVE  ChainInv'
<1>1. /\ file \in Files /\ live \in BOOLEAN /\ buffers = [o \in Owners |-> NoBuffer]
      /\ file' = file /\ live' = live /\ buffers' = buffers
  BY DEF ChainInv
<1>2. SurfaceFits(surface)'
  BY <1>1 DEF SurfaceFits, SurfaceRecords, NoSurface, Files
<1>3. SurfaceStands(tables, surface)'
  BY <1>1 DEF SurfaceStands, Name, AddedFb, Linked
<1>4. NothingAhead(tables)'
  BY <1>1 DEF NothingAhead, Files
<1>5. (live => AllOfSurface(tables, surface))'
  BY <1>1 DEF AllOfSurface, Range
<1>6. QED
  BY <1>1, <1>2, <1>3, <1>4, <1>5 DEF ChainInv, NoBuffer, Files

\* What a step settles is what it leaves on the files still open.
LEMMA ChainSettles ==
  ASSUME ChainInv, UNCHANGED <<file, live, buffers>>, NEW k \in KernelTables, NEW s, surface' = s,
         SettleFiles(k, s), SurfaceFits(s), SurfaceStands(k, s), NothingAhead(k),
         live => AllOfSurface(k, s)
  PROVE  ChainInv'
<1> DEFINE open == {file} \cup OpenFor(s)
           l == tables'
<1>1. file \in Files /\ l = Reclaims(k, open) /\ OpenFor(s) \subseteq open
  BY DEF ChainInv, SettleFiles
<1> HIDE DEF open, l
<1>2. /\ l \in KernelTables
      /\ \A f \in Files : DOMAIN l.gem[f] = {} \/ l.gem[f] = k.gem[f]
      /\ \A id \in DOMAIN l.fbs : id \in DOMAIN k.fbs /\ l.fbs[id] = k.fbs[id]
  BY <1>1, ReclaimsFiles
<1>3. SurfaceStands(l, s)
  BY <1>1, SettlingKeeps
<1>4. NothingAhead(l)
  BY <1>2 DEF NothingAhead
<1>5. live => AllOfSurface(l, s)
  <2>1. DOMAIN l.gem[file] \subseteq DOMAIN k.gem[file]
    BY <1>1, <1>2
  <2>2. QED
    BY <1>2, <2>1 DEF AllOfSurface
<1>6. QED
  BY <1>2, <1>3, <1>4, <1>5, ChainKept DEF l

\* A new chain and what it leaves of an old one, which may be on the file.
LEMMA ChainReplaced ==
  ASSUME ChainInv, NEW made, made = MakeSurface(tables), NEW k,
         \/ surface = NoSurface /\ k = made.k
         \/ surface # NoSurface /\ k = FreesSurface(made.k, surface),
         live => \A id \in DOMAIN tables.fbs : tables.fbs[id].file # file
  PROVE  /\ k \in KernelTables /\ made.bos \in [1..Chain -> Nat] /\ NothingAhead(k)
         /\ \A i \in 1..Chain : Name(k, file, {made.bos[i]}, {Linked(i)})
         /\ live => /\ DOMAIN k.gem[file] \subseteq Range(made.bos)
                    /\ \A id \in DOMAIN k.fbs : k.fbs[id].file # file
<1>0. /\ file \in Files /\ tables \in KernelTables /\ SurfaceFits(surface)
      /\ SurfaceStands(tables, surface) /\ NothingAhead(tables)
      /\ live => AllOfSurface(tables, surface)
  BY DEF ChainInv
<1>1. /\ made.k \in KernelTables /\ made.k.fbs = tables.fbs
      /\ \A g \in Files \ {file} : made.k.gem[g] = tables.gem[g]
      /\ DOMAIN made.k.gem[file] = DOMAIN tables.gem[file] \cup Range(made.bos)
      /\ made.bos \in [1..Chain -> Nat]
      /\ \A i \in 1..Chain : /\ made.bos[i] \notin DOMAIN tables.gem[file]
                             /\ made.k.gem[file][made.bos[i]] = Linked(i)
  BY <1>0, ChainIsMade
<1>2. \A i \in 1..Chain : made.bos[i] \in DOMAIN made.k.gem[file]
  BY <1>1 DEF Range
<1>3. CASE surface = NoSurface /\ k = made.k
  <2>1. live => DOMAIN tables.gem[file] = {}
    BY <1>0, <1>3, NoSurfaceFits, FilesAreNumbers DEF AllOfSurface
  <2>2. NothingAhead(k)
    BY <1>0, <1>1, <1>3, FilesAreNumbers DEF NothingAhead
  <2>3. \A i \in 1..Chain : Name(k, file, {made.bos[i]}, {Linked(i)})
    BY <1>1, <1>2, <1>3 DEF Name
  <2>4. QED
    BY <1>1, <1>3, <2>1, <2>2, <2>3
<1>4. CASE surface # NoSurface /\ k = FreesSurface(made.k, surface)
  <2> DEFINE f == surface.gbmFile
             old == Range(surface.bos)
  <2>1. f \in Files /\ surface.bos \in [1..Chain -> Nat] /\ k = Closes(made.k, f, old)
    BY <1>0, <1>4 DEF SurfaceFits, FreesSurface
  <2>2. \A h \in old : h \in DOMAIN tables.gem[f]
    BY <1>0, <2>1 DEF SurfaceStands, Name, Range
  <2>3. live => DOMAIN tables.gem[file] \subseteq IF f = file THEN old ELSE {}
    BY <1>0 DEF AllOfSurface
  <2> HIDE DEF f, old
  <2>4. /\ k \in KernelTables
        /\ k.fbs = made.k.fbs /\ \A g \in Files \ {f} : k.gem[g] = made.k.gem[g]
        /\ DOMAIN k.gem[f] = DOMAIN made.k.gem[f] \ old
        /\ \A n \in DOMAIN k.gem[f] : k.gem[f][n] = made.k.gem[f][n]
    BY <1>1, <2>1, ClosesNumbers
  <2>5. \A i \in 1..Chain : /\ made.bos[i] \in DOMAIN k.gem[file]
                            /\ k.gem[file][made.bos[i]] = Linked(i)
    BY <1>0, <1>1, <1>2, <2>1, <2>2, <2>4
  <2>6. \A i \in 1..Chain : Name(k, file, {made.bos[i]}, {Linked(i)})
    BY <2>5 DEF Name
  <2>7. live => DOMAIN k.gem[file] \subseteq Range(made.bos)
    BY <1>0, <1>1, <2>1, <2>3, <2>4
  <2>8. NothingAhead(k)
    <3>1. \A g \in Files : g > file => DOMAIN k.gem[g] = {}
      <4>1. ASSUME NEW g \in Files, g > file PROVE DOMAIN k.gem[g] = {}
        <5>1. g # file /\ DOMAIN tables.gem[g] = {}
          BY <1>0, <4>1, FilesAreNumbers DEF NothingAhead
        <5>2. DOMAIN made.k.gem[g] = {}
          BY <1>1, <5>1
        <5>3. QED
          BY <2>1, <2>4, <5>2
      <4>2. QED
        BY <4>1
    <3>2. QED
      BY <1>0, <1>1, <2>4, <3>1 DEF NothingAhead
  <2>9. QED
    BY <1>1, <2>4, <2>6, <2>7, <2>8
<1>5. QED
  BY <1>3, <1>4

LEMMA SurfaceParts ==
  ASSUME SurfaceInv
  PROVE  /\ ChainInv /\ file \in Files /\ file \in Nat /\ file # 0 /\ live \in BOOLEAN
         /\ tables \in KernelTables /\ NothingAhead(tables)
         /\ SurfaceFits(surface) /\ surface \in SurfaceRecords /\ SurfaceStands(tables, surface)
         /\ live => AllOfSurface(tables, surface)
         /\ rendered \in 0..Chain /\ LocksAreTold /\ HeldStaysLocked
         /\ \A x \in scanned : x.token \in Nat /\ x.buffer \in Nat /\ x.from \in Nat
         /\ surface.nextToken \in Nat
<1>1. ChainInv /\ rendered \in 0..Chain /\ LocksAreTold /\ HeldStaysLocked
  BY DEF SurfaceInv
<1>2. SurfaceFits(surface) /\ surface \in SurfaceRecords
  BY <1>1 DEF ChainInv, SurfaceFits
<1>3. surface.nextToken \in Nat
  BY <1>2, SurfaceHasItsFields
<1>4. \A x \in scanned : x.token \in Nat /\ x.buffer \in Nat /\ x.from \in Nat
  BY <1>1 DEF LocksAreTold
<1>5. file \in Nat /\ file # 0
  BY <1>1, FilesAreNumbers DEF ChainInv
<1>6. QED
  BY <1>1, <1>2, <1>3, <1>4, <1>5 DEF ChainInv

LEMMA CreatesKeepsSurface ==
  ASSUME SurfaceInv, CreateSurface
  PROVE  SurfaceInv'
<1> DEFINE made == MakeSurface(tables)
           s == [NoSurface EXCEPT !.gbmFile = file, !.fbFile = file, !.bos = made.bos]
<1>1. /\ surface = NoSurface /\ live /\ surface' = s /\ SettleFiles(made.k, s)
      /\ rendered' = 0 /\ UNCHANGED <<file, live, buffers, scanned>>
  BY DEF CreateSurface, Standing
<1>2. /\ ChainInv /\ file \in Files /\ file \in Nat /\ file # 0
      /\ AllOfSurface(tables, surface) /\ scanned = {}
  BY <1>1, SurfaceParts DEF LocksAreTold, Standing
<1>3. /\ made.k \in KernelTables /\ made.bos \in [1..Chain -> Nat] /\ NothingAhead(made.k)
      /\ \A i \in 1..Chain : Name(made.k, file, {made.bos[i]}, {Linked(i)})
      /\ DOMAIN made.k.gem[file] \subseteq Range(made.bos)
      /\ \A id \in DOMAIN made.k.fbs : made.k.fbs[id].file # file
  <2>1. \A id \in DOMAIN tables.fbs : tables.fbs[id].file # file
    BY <1>1, <1>2, NoSurfaceFits DEF AllOfSurface
  <2>2. made = MakeSurface(tables) /\ made.k = made.k
    OBVIOUS
  <2> HIDE DEF made
  <2>3. QED
    BY <1>1, <1>2, <2>1, <2>2, ChainReplaced
<1> HIDE DEF made
<1>4. /\ s \in SurfaceRecords /\ s.gbmFile = file /\ s.fbFile = file /\ s.bos = made.bos
      /\ s.framebuffers = {} /\ s.paused = FALSE
  <2>1. s \in SurfaceRecords
    BY <1>2, <1>3, NoSurfaceFits DEF SurfaceRecords
  <2>2. QED
    BY <2>1 DEF NoSurface
<1> HIDE DEF s
<1>5. SurfaceFits(s) /\ SurfaceStands(made.k, s) /\ AllOfSurface(made.k, s)
  <2>1. DOMAIN s.bos = 1..Chain
    BY <1>3, <1>4
  <2>2. QED
    BY <1>2, <1>3, <1>4, <2>1 DEF SurfaceFits, SurfaceStands, AllOfSurface
<1>6. ChainInv'
  BY <1>1, <1>2, <1>3, <1>5, ChainSettles
<1>7. QED
  BY <1>1, <1>2, <1>6, SurfaceAssumption DEF SurfaceInv, LocksAreTold, HeldStaysLocked

\* A change of what is not in the tables.
LEMMA SurfaceAlike ==
  ASSUME ChainInv, Standing, UNCHANGED <<file, live, buffers, tables>>, NEW s, surface' = s,
         s \in SurfaceRecords, s.gbmFile = surface.gbmFile, s.fbFile = surface.fbFile,
         s.bos = surface.bos, s.framebuffers = surface.framebuffers, s.paused = surface.paused
  PROVE  ChainInv' /\ Standing'
<1>1. /\ file \in Files /\ tables \in KernelTables /\ NothingAhead(tables)
      /\ SurfaceFits(surface) /\ SurfaceStands(tables, surface)
      /\ live => AllOfSurface(tables, surface)
      /\ surface.gbmFile \in Files
  BY DEF ChainInv, SurfaceFits, Standing
<1>2. SurfaceFits(s) /\ SurfaceStands(tables, s) /\ (live => AllOfSurface(tables, s))
  BY <1>1 DEF SurfaceFits, SurfaceStands, AllOfSurface, Standing
<1>3. ChainInv'
  BY <1>1, <1>2, ChainKept
<1>4. s # NoSurface
  BY <1>1, NoSurfaceFits, FilesAreNumbers
<1>5. QED
  BY <1>3, <1>4 DEF Standing

LEMMA BindsKeepsSurface ==
  ASSUME SurfaceInv, Binds
  PROVE  SurfaceInv'
<1> DEFINE s == [surface EXCEPT !.bound = NeedsBind]
<1>1. /\ Standing /\ surface' = s /\ UNCHANGED <<file, live, buffers, tables>>
      /\ UNCHANGED <<rendered, scanned>>
  BY DEF Binds, gemVars
<1>2. /\ s \in SurfaceRecords /\ s.gbmFile = surface.gbmFile /\ s.fbFile = surface.fbFile
      /\ s.bos = surface.bos /\ s.framebuffers = surface.framebuffers
      /\ s.paused = surface.paused /\ s.nextToken = surface.nextToken /\ s.locked = surface.locked
  <2>1. s \in SurfaceRecords
    BY SurfaceParts, SurfaceAssumption DEF SurfaceRecords
  <2>2. QED
    BY <2>1, SurfaceParts, SurfaceHasItsFields
<1> HIDE DEF s
<1>3. ChainInv' /\ Standing'
  BY <1>1, <1>2, SurfaceParts, SurfaceAlike
<1>4. QED
  BY <1>1, <1>2, <1>3, SurfaceParts DEF SurfaceInv, LocksAreTold, HeldStaysLocked

LEMMA RendersKeepsSurface ==
  ASSUME SurfaceInv, Renders
  PROVE  SurfaceInv'
<1>1. /\ rendered' \in 1..Chain /\ Standing' = Standing
      /\ UNCHANGED <<file, live, buffers, tables, surface, scanned>>
  BY DEF Renders, gemVars, Standing
<1>2. ChainInv'
  BY <1>1, SurfaceParts, ChainKept DEF ChainInv
<1>3. rendered' \in 0..Chain
  BY <1>1, SurfaceAssumption
<1>4. QED
  BY <1>1, <1>2, <1>3, SurfaceParts DEF SurfaceInv, LocksAreTold, HeldStaysLocked

LEMMA ReleasesKeepsSurface ==
  ASSUME SurfaceInv, ReleasesLock
  PROVE  SurfaceInv'
<1>1. PICK back \in scanned :
        /\ Standing /\ surface' = Unlocked(surface, back.token) /\ scanned' = scanned \ {back}
        /\ UNCHANGED <<gemVars, rendered, producing>>
  BY DEF ReleasesLock
<1> DEFINE s == Unlocked(surface, back.token)
<1>2. /\ s \in SurfaceRecords /\ s.gbmFile = surface.gbmFile /\ s.fbFile = surface.fbFile
      /\ s.bos = surface.bos /\ s.framebuffers = surface.framebuffers
      /\ s.paused = surface.paused /\ s.nextToken = surface.nextToken
      /\ s.locked = {l \in surface.locked : l.token # back.token}
  <2>1. s \in SurfaceRecords
    BY SurfaceParts DEF SurfaceRecords, Unlocked
  <2>2. QED
    BY <2>1, SurfaceParts, SurfaceHasItsFields DEF Unlocked
<1> HIDE DEF s
<1>3. /\ surface' = s /\ UNCHANGED <<file, live, buffers, tables, rendered>>
  BY <1>1 DEF s, gemVars
<1>4. ChainInv' /\ Standing'
  BY <1>1, <1>2, <1>3, SurfaceParts, SurfaceAlike
<1>5. LocksAreTold'
  BY <1>1, <1>2, <1>3, <1>4, SurfaceParts DEF LocksAreTold
<1>6. HeldStaysLocked'
  <2>1. ASSUME NEW x \in scanned, x # back, ~surface.paused, x.from = surface.gbmFile
        PROVE  [token |-> x.token, buffer |-> x.buffer] \in s.locked
    <3>1. [token |-> x.token, buffer |-> x.buffer] \in surface.locked
      BY <1>1, <2>1, SurfaceParts DEF HeldStaysLocked
    <3>2. x.token # back.token
      BY <1>1, <2>1, SurfaceParts DEF LocksAreTold
    <3>3. QED
      BY <1>2, <3>1, <3>2
  <2>2. QED
    BY <1>1, <1>2, <1>3, <2>1 DEF HeldStaysLocked
<1>7. QED
  BY <1>3, <1>4, <1>5, <1>6, SurfaceParts DEF SurfaceInv

LEMMA PausesKeepsSurface ==
  ASSUME SurfaceInv, PausesSurface
  PROVE  SurfaceInv'
<1> DEFINE s == [surface EXCEPT !.paused = TRUE, !.framebuffers = {}, !.locked = {}]
<1>1. /\ Standing /\ ~live /\ surface' = s /\ scanned' \subseteq scanned
      /\ UNCHANGED <<file, live, buffers, tables, rendered>>
  BY DEF PausesSurface, gemVars
<1>2. /\ s \in SurfaceRecords /\ s.gbmFile = surface.gbmFile /\ s.fbFile = surface.fbFile
      /\ s.bos = surface.bos /\ s.framebuffers = {}
      /\ s.paused = TRUE /\ s.nextToken = surface.nextToken
  <2>1. s \in SurfaceRecords
    BY SurfaceParts DEF SurfaceRecords
  <2>2. QED
    BY <2>1, SurfaceParts, SurfaceHasItsFields
<1> HIDE DEF s
<1>3. surface.gbmFile \in Files /\ SurfaceFits(s) /\ SurfaceStands(tables, s)
  BY <1>1, <1>2, SurfaceParts DEF SurfaceFits, SurfaceStands, Standing
<1>4. ChainInv'
  BY <1>1, <1>3, SurfaceParts, ChainKept
<1>5. s # NoSurface
  BY <1>2, <1>3, NoSurfaceFits, FilesAreNumbers
<1>6. LocksAreTold'
  BY <1>1, <1>2, <1>5, SurfaceParts DEF LocksAreTold, Standing
<1>7. HeldStaysLocked'
  BY <1>1, <1>2 DEF HeldStaysLocked
<1>8. QED
  BY <1>1, <1>4, <1>6, <1>7, SurfaceParts DEF SurfaceInv

\* framebuffer_for registers a buffer of the chain on the surface's own file.
LEMMA LocksKeepsSurface ==
  ASSUME SurfaceInv, LocksFront
  PROVE  SurfaceInv'
<1> DEFINE handle == surface.bos[rendered]
           with == FramebufferFor(tables, surface, handle)
           lock == [token |-> surface.nextToken, buffer |-> rendered]
           new == [token |-> lock.token, buffer |-> rendered, from |-> surface.gbmFile]
           s == [surface EXCEPT !.framebuffers = with.framebuffers, !.nextToken = @ + 1,
                                !.locked = @ \cup {lock}]
<1>1. /\ Standing /\ ~surface.paused /\ rendered # 0 /\ rendered' = 0
      /\ UNCHANGED <<file, live, buffers>>
      /\ \/ surface' = s /\ tables' = with.k /\ scanned' = scanned \cup {new}
         \/ UNCHANGED <<tables, surface, scanned>>
  BY DEF LocksFront, MayLock
<1>2. /\ ChainInv /\ file \in Files /\ file \in Nat
      /\ tables \in KernelTables /\ NothingAhead(tables)
      /\ SurfaceFits(surface) /\ surface \in SurfaceRecords /\ SurfaceStands(tables, surface)
      /\ live => AllOfSurface(tables, surface)
      /\ rendered \in 1..Chain /\ 0 \in 0..Chain
  BY <1>1, SurfaceParts, SurfaceAssumption
<1>3. CASE UNCHANGED <<tables, surface, scanned>>
  <2>1. ChainInv'
    BY <1>1, <1>2, <1>3, ChainKept
  <2>2. QED
    BY <1>1, <1>2, <1>3, <2>1, SurfaceParts DEF SurfaceInv, LocksAreTold, HeldStaysLocked, Standing
<1>4. CASE surface' = s /\ tables' = with.k /\ scanned' = scanned \cup {new}
  <2> DEFINE f == surface.gbmFile
             l == with.k
             fbs == with.framebuffers
  <2>1. /\ f \in Files /\ surface.fbFile = f /\ f <= file /\ f \in Nat
        /\ surface.bos \in [1..Chain -> Nat] /\ handle \in Nat
        /\ \A c \in surface.framebuffers : c.handle \in Range(surface.bos)
    BY <1>1, <1>2, FilesAreNumbers DEF SurfaceFits, Standing
  <2>2. handle \in DOMAIN tables.gem[f] /\ handle \in Range(surface.bos)
    BY <1>2, <2>1 DEF SurfaceStands, Name, Range
  <2> HIDE DEF handle
  <2>3. /\ l \in KernelTables /\ l.gem = tables.gem
        /\ fbs \in SUBSET [handle : Nat, fb : Nat]
        /\ \A c \in fbs : c.handle \in Range(surface.bos)
        /\ \A c \in fbs : AddedFb(l, c.fb, f, {tables.gem[f][c.handle]})
        /\ \A id \in DOMAIN l.fbs : \/ id \in DOMAIN tables.fbs /\ l.fbs[id] = tables.fbs[id]
                                    \/ l.fbs[id].file = f /\ \E c \in fbs : c.fb = id
        /\ surface.framebuffers \subseteq fbs
    <3>1. CASE \E c \in surface.framebuffers : c.handle = handle
      <4>1. l = tables /\ fbs = surface.framebuffers
        BY <3>1 DEF FramebufferFor
      <4> HIDE DEF l, fbs
      <4>2. \A c \in fbs : AddedFb(l, c.fb, f, {tables.gem[f][c.handle]})
        BY <1>2, <2>1, <4>1 DEF SurfaceStands
      <4>3. QED
        BY <1>2, <2>1, <4>1, <4>2, SurfaceHasItsFields
    <3>2. CASE ~(\E c \in surface.framebuffers : c.handle = handle)
      <4> DEFINE id == FreeFb(tables)
                 e == [handle |-> handle, fb |-> id]
      <4>1. l = AddsFb(tables, f, {handle}) /\ fbs = surface.framebuffers \cup {e}
        BY <2>1, <3>2 DEF FramebufferFor
      <4>2. e.handle = handle /\ e.fb = id
        OBVIOUS
      <4> HIDE DEF l, fbs, id
      <4>3. /\ l \in KernelTables /\ l.gem = tables.gem /\ id \in Nat /\ id \notin DOMAIN tables.fbs
            /\ DOMAIN l.fbs = DOMAIN tables.fbs \cup {id}
            /\ l.fbs[id] = [file |-> f, objects |-> {tables.gem[f][h] : h \in {handle}}]
            /\ \A n \in DOMAIN tables.fbs : l.fbs[n] = tables.fbs[n]
        <5>1. \A h \in {handle} : h \in DOMAIN tables.gem[f]
          BY <2>2
        <5>2. id = FreeFb(tables)
          BY DEF id
        <5>3. QED
          BY <1>2, <2>1, <4>1, <5>1, <5>2, AddsAFramebuffer
      <4>4. e \in [handle : Nat, fb : Nat]
        BY <2>1, <4>3 DEF handle
      <4>5. fbs \in SUBSET [handle : Nat, fb : Nat]
        BY <1>2, <4>1, <4>4, SurfaceHasItsFields
      <4> HIDE DEF e
      <4>6. AddedFb(l, id, f, {tables.gem[f][handle]})
        <5>1. {tables.gem[f][h] : h \in {handle}} = {tables.gem[f][handle]}
          OBVIOUS
        <5>2. QED
          BY <4>3, <5>1 DEF AddedFb
      <4>7. \A c \in fbs : AddedFb(l, c.fb, f, {tables.gem[f][c.handle]})
        <5>1. ASSUME NEW c \in surface.framebuffers
              PROVE  AddedFb(l, c.fb, f, {tables.gem[f][c.handle]})
          BY <1>2, <2>1, <4>3, <5>1 DEF SurfaceStands, AddedFb
        <5>2. QED
          BY <4>1, <4>2, <4>6, <5>1
      <4>8. l.fbs[id].file = f /\ e \in fbs
        BY <4>1, <4>3
      <4>9. QED
        BY <2>1, <2>2, <4>1, <4>2, <4>3, <4>5, <4>7, <4>8
    <3>3. QED
      BY <3>1, <3>2
  <2> HIDE DEF l, fbs
  <2>4. /\ s \in SurfaceRecords /\ s.gbmFile = f /\ s.fbFile = f
        /\ s.bos = surface.bos /\ s.framebuffers = fbs
        /\ s.paused = FALSE /\ s.nextToken = surface.nextToken + 1
        /\ s.locked = surface.locked \cup {lock}
    <3>1. surface.nextToken \in Nat /\ lock \in [token : Nat, buffer : Nat]
      BY <1>2, SurfaceHasItsFields
    <3>2. s = [surface EXCEPT !.framebuffers = fbs, !.nextToken = surface.nextToken + 1,
                              !.locked = surface.locked \cup {lock}]
      BY <1>2, SurfaceHasItsFields DEF fbs
    <3> DEFINE locks == surface.locked \cup {lock}
    <3> HIDE DEF s
    <3>3. s \in SurfaceRecords
      <4>1. locks \in SUBSET [token : Nat, buffer : Nat] /\ surface.nextToken + 1 \in Nat
        BY <1>2, <3>1, SurfaceHasItsFields
      <4> HIDE DEF lock, locks
      <4>2. s = [surface EXCEPT !.framebuffers = fbs, !.nextToken = surface.nextToken + 1,
                                !.locked = locks]
        BY <3>2 DEF locks
      <4>3. QED
        BY <1>2, <2>3, <4>1, <4>2 DEF SurfaceRecords
    <3> HIDE DEF lock
    <3>4. surface.paused = FALSE
      BY <1>1, <1>2, SurfaceHasItsFields
    <3>5. QED
      BY <1>2, <2>1, <3>2, <3>3, <3>4, SurfaceHasItsFields
  <2> HIDE DEF s, with
  <2>5. SurfaceFits(s) /\ SurfaceStands(l, s)
    <3>1. SurfaceFits(s)
      BY <2>1, <2>3, <2>4 DEF SurfaceFits
    <3>2. \A i \in DOMAIN s.bos : Name(l, f, {s.bos[i]}, {Linked(i)})
      BY <1>2, <2>3, <2>4 DEF SurfaceStands, Name
    <3>3. QED
      BY <2>3, <2>4, <3>1, <3>2 DEF SurfaceStands
  <2>6. NothingAhead(l)
    BY <1>2, <2>1, <2>3 DEF NothingAhead
  <2>7. live => AllOfSurface(l, s)
    <3>1. SUFFICES ASSUME live PROVE AllOfSurface(l, s)
      OBVIOUS
    <3>2. AllOfSurface(tables, surface)
      BY <1>2, <3>1
    <3>3. ASSUME NEW id \in DOMAIN l.fbs, l.fbs[id].file = file
          PROVE  \E c \in fbs : c.fb = id
      BY <2>3, <3>2, <3>3 DEF AllOfSurface
    <3>4. QED
      BY <2>3, <2>4, <3>2, <3>3 DEF AllOfSurface
  <2>8. ChainInv'
    BY <1>1, <1>2, <1>4, <2>3, <2>5, <2>6, <2>7, ChainKept DEF l
  <2>9. s # NoSurface
    BY <2>1, <2>4, NoSurfaceFits, FilesAreNumbers
  <2>10. new \in [token : Nat, buffer : Nat, from : Nat] /\ new.token = surface.nextToken
         /\ new.from = f /\ [token |-> new.token, buffer |-> new.buffer] = lock
    BY <1>2, <2>1, SurfaceHasItsFields
  <2> HIDE DEF new, lock, f
  <2>11. LocksAreTold'
    <3>1. /\ scanned \subseteq [token : Nat, buffer : Nat, from : Nat]
          /\ \A x \in scanned : x.token < surface.nextToken /\ x.from <= file
          /\ \A x, y \in scanned : x.token = y.token => x = y
      BY SurfaceParts DEF LocksAreTold
    <3>2. \A x \in scanned : x.token \in Nat
      BY SurfaceParts
    <3>3. surface.nextToken \in Nat
      BY SurfaceParts
    <3>4. \A x, y \in scanned' : x.token = y.token => x = y
      BY <1>4, <2>10, <3>1, <3>2, <3>3
    <3>5. \A x \in scanned' : x.token < s.nextToken /\ x.from <= file
      BY <1>4, <2>1, <2>4, <2>10, <3>1, <3>2, <3>3
    <3>6. scanned' \subseteq [token : Nat, buffer : Nat, from : Nat]
      BY <1>4, <2>10, <3>1
    <3>7. QED
      BY <1>1, <1>4, <2>4, <2>9, <3>4, <3>5, <3>6 DEF LocksAreTold, Standing
  <2>12. HeldStaysLocked'
    <3>1. ASSUME NEW x \in scanned, x.from = f
          PROVE  [token |-> x.token, buffer |-> x.buffer] \in s.locked
      BY <1>1, <2>4, <3>1, SurfaceParts DEF HeldStaysLocked, f
    <3>2. QED
      BY <1>4, <2>4, <2>10, <3>1 DEF HeldStaysLocked
  <2>13. QED
    BY <1>1, <1>2, <2>8, <2>11, <2>12 DEF SurfaceInv
<1>5. QED
  BY <1>1, <1>3, <1>4

LEMMA ResumesKeepsSurface ==
  ASSUME SurfaceInv, ResumesSurface
  PROVE  SurfaceInv'
<1> DEFINE made == MakeSurface(tables)
           k == FreesSurface(made.k, surface)
<1>1. PICK duplicates \in BOOLEAN :
        LET s == ResumedSurface(surface, made.bos, duplicates)
        IN  surface' = s /\ SettleFiles(k, s)
  BY DEF ResumesSurface
<1> DEFINE s == ResumedSurface(surface, made.bos, duplicates)
<1>2. /\ Standing /\ live /\ surface.paused /\ surface' = s /\ SettleFiles(k, s)
      /\ rendered' = 0 /\ UNCHANGED <<file, live, buffers, scanned>>
  BY <1>1 DEF ResumesSurface
<1>3. /\ ChainInv /\ file \in Files /\ file \in Nat
      /\ surface \in SurfaceRecords /\ AllOfSurface(tables, surface)
      /\ surface.framebuffers = {} /\ surface.fbFile \in Files /\ surface.fbFile <= file
      /\ surface # NoSurface /\ 0 \in 0..Chain
  BY <1>2, SurfaceParts, SurfaceAssumption DEF SurfaceFits, Standing
<1>4. /\ k \in KernelTables /\ made.bos \in [1..Chain -> Nat] /\ NothingAhead(k)
      /\ \A i \in 1..Chain : Name(k, file, {made.bos[i]}, {Linked(i)})
      /\ DOMAIN k.gem[file] \subseteq Range(made.bos)
      /\ \A id \in DOMAIN k.fbs : k.fbs[id].file # file
  <2>1. \A id \in DOMAIN tables.fbs : tables.fbs[id].file # file
    BY <1>3 DEF AllOfSurface
  <2>2. made = MakeSurface(tables)
    OBVIOUS
  <2>3. k = FreesSurface(made.k, surface)
    OBVIOUS
  <2> HIDE DEF made, k
  <2>4. QED
    BY <1>2, <1>3, <2>1, <2>2, <2>3, ChainReplaced
<1> HIDE DEF made, k
<1>5. /\ s \in SurfaceRecords /\ s.gbmFile = file /\ s.bos = made.bos
      /\ s.framebuffers = {} /\ s.nextToken = surface.nextToken
      /\ s.fbFile = (IF duplicates THEN file ELSE surface.fbFile) /\ s.paused = ~duplicates
  <2> DEFINE fbFile == IF duplicates THEN file ELSE surface.fbFile
             bound == IF duplicates THEN FALSE ELSE surface.bound
  <2>1. fbFile \in Nat /\ bound \in BOOLEAN
    BY <1>3, SurfaceHasItsFields
  <2>2. s = [surface EXCEPT !.locked = {}, !.framebuffers = {}, !.bos = made.bos, !.gbmFile = file,
                            !.fbFile = fbFile, !.paused = ~duplicates, !.bound = bound]
    <3>1. /\ surface.fbFile = surface.fbFile /\ surface.bound = surface.bound
          /\ surface = [gbmFile |-> surface.gbmFile, fbFile |-> surface.fbFile, bos |-> surface.bos,
                        framebuffers |-> surface.framebuffers, locked |-> surface.locked,
                        nextToken |-> surface.nextToken, paused |-> surface.paused,
                        bound |-> surface.bound]
      BY <1>3, SurfaceHasItsFields
    <3>2. QED
      BY <3>1 DEF ResumedSurface
  <2> HIDE DEF fbFile, bound, s
  <2>3. s \in SurfaceRecords
    BY <1>3, <1>4, <2>1, <2>2 DEF SurfaceRecords
  <2>4. QED
    BY <1>3, <2>2, <2>3, SurfaceHasItsFields DEF fbFile
<1> HIDE DEF s
<1>6. SurfaceFits(s) /\ SurfaceStands(k, s) /\ AllOfSurface(k, s)
  <2>1. DOMAIN s.bos = 1..Chain
    BY <1>4, <1>5
  <2>2. SurfaceFits(s)
    <3>1. s.fbFile \in Files /\ s.fbFile <= file /\ (~s.paused => s.fbFile = s.gbmFile)
      <4>1. CASE duplicates
        BY <1>3, <1>5, <4>1
      <4>2. CASE ~duplicates
        BY <1>3, <1>5, <4>2
      <4>3. QED
        BY <4>1, <4>2
    <3>2. s.gbmFile \in Files /\ s.gbmFile <= file /\ s.bos \in [1..Chain -> Nat]
      BY <1>3, <1>4, <1>5
    <3>3. QED
      BY <1>5, <3>1, <3>2 DEF SurfaceFits
  <2>3. SurfaceStands(k, s) /\ AllOfSurface(k, s)
    BY <1>4, <1>5, <2>1 DEF SurfaceStands, AllOfSurface
  <2>4. QED
    BY <2>2, <2>3
<1>7. ChainInv'
  BY <1>2, <1>3, <1>4, <1>6, ChainSettles
<1>8. s # NoSurface
  BY <1>3, <1>5, NoSurfaceFits, FilesAreNumbers
<1>9. LocksAreTold' /\ HeldStaysLocked'
  <2>1. \A x \in scanned : x.from < file
    BY <1>2, SurfaceParts DEF LocksAreTold
  <2>2. LocksAreTold'
    BY <1>2, <1>5, <1>8, <2>1, SurfaceParts DEF LocksAreTold, Standing
  <2>3. HeldStaysLocked'
    BY <1>2, <1>3, <1>5, <2>1, SurfaceParts DEF HeldStaysLocked
  <2>4. QED
    BY <2>2, <2>3
<1>10. QED
  BY <1>2, <1>3, <1>7, <1>9 DEF SurfaceInv

LEMMA DropsKeepsSurface ==
  ASSUME SurfaceInv, DropsSurface
  PROVE  SurfaceInv'
<1> DEFINE removed == IF surface.paused THEN tables
                      ELSE RemovesFbs(tables, surface.fbFile, {c.fb : c \in surface.framebuffers})
           k == FreesSurface(removed, surface)
           f == surface.gbmFile
           bos == Range(surface.bos)
<1>1. /\ surface # NoSurface /\ surface' = NoSurface /\ scanned' = {} /\ rendered' = 0
      /\ SettleFiles(k, NoSurface) /\ UNCHANGED <<file, live, buffers>>
  BY DEF DropsSurface, Standing
<1>2. /\ ChainInv /\ file \in Files /\ tables \in KernelTables /\ NothingAhead(tables)
      /\ SurfaceStands(tables, surface) /\ f \in Files /\ 0 \in 0..Chain
      /\ live => AllOfSurface(tables, surface)
      /\ surface.paused => surface.framebuffers = {}
  BY <1>1, SurfaceParts, SurfaceAssumption DEF SurfaceFits
<1>3. k = Closes(removed, f, bos)
  BY DEF FreesSurface
<1> HIDE DEF k
<1>4. /\ removed \in KernelTables /\ removed.gem = tables.gem
      /\ \A id \in DOMAIN removed.fbs : id \in DOMAIN tables.fbs /\ removed.fbs[id] = tables.fbs[id]
      /\ \A id \in DOMAIN removed.fbs : \A c \in surface.framebuffers : c.fb # id
  <2>1. CASE surface.paused
    BY <1>2, <2>1
  <2>2. CASE ~surface.paused
    <3> DEFINE ids == {c.fb : c \in surface.framebuffers}
    <3>1. removed = RemovesFbs(tables, surface.fbFile, ids)
      BY <2>2
    <3> HIDE DEF removed, ids
    <3>2. /\ removed \in KernelTables /\ removed.gem = tables.gem
          /\ \A id \in DOMAIN removed.fbs :
               id \in DOMAIN tables.fbs /\ removed.fbs[id] = tables.fbs[id]
          /\ \A id \in DOMAIN tables.fbs :
               id \in DOMAIN removed.fbs <=> ~(id \in ids /\ tables.fbs[id].file = surface.fbFile)
      BY <1>2, <3>1, RemovesFramebuffers
    <3>3. \A c \in surface.framebuffers :
            c.fb \in ids /\ c.fb \in DOMAIN tables.fbs /\ tables.fbs[c.fb].file = surface.fbFile
      <4>1. SUFFICES ASSUME NEW c \in surface.framebuffers
                     PROVE  /\ c.fb \in ids /\ c.fb \in DOMAIN tables.fbs
                            /\ tables.fbs[c.fb].file = surface.fbFile
        OBVIOUS
      <4>2. AddedFb(tables, c.fb, surface.fbFile, {tables.gem[f][c.handle]})
        BY <1>2 DEF SurfaceStands
      <4>3. c.fb \in ids
        BY DEF ids
      <4>4. QED
        BY <4>2, <4>3 DEF AddedFb
    <3>4. QED
      BY <3>2, <3>3
  <2>3. QED
    BY <2>1, <2>2
<1> HIDE DEF removed
<1>5. /\ k \in KernelTables
      /\ k.fbs = removed.fbs /\ \A g \in Files \ {f} : k.gem[g] = removed.gem[g]
      /\ DOMAIN k.gem[f] = DOMAIN removed.gem[f] \ bos
  BY <1>2, <1>3, <1>4, ClosesNumbers
<1>6. NothingAhead(k)
  <2>1. \A g \in Files : DOMAIN k.gem[g] \subseteq DOMAIN tables.gem[g]
    BY <1>4, <1>5
  <2>2. QED
    BY <1>2, <1>4, <1>5, <2>1 DEF NothingAhead
<1>7. ASSUME live PROVE AllOfSurface(k, NoSurface)
  <2>1. /\ DOMAIN tables.gem[file] \subseteq (IF f = file THEN bos ELSE {})
        /\ \A id \in DOMAIN tables.fbs :
             tables.fbs[id].file = file => \E c \in surface.framebuffers : c.fb = id
    BY <1>2, <1>7 DEF AllOfSurface
  <2> HIDE DEF f, bos
  <2>2. DOMAIN k.gem[file] = {}
    BY <1>2, <1>4, <1>5, <2>1
  <2>3. \A id \in DOMAIN k.fbs : k.fbs[id].file # file
    BY <1>4, <1>5, <2>1
  <2>4. QED
    BY <2>2, <2>3 DEF AllOfSurface
<1>8. ChainInv'
  <2>1. SurfaceFits(NoSurface) /\ SurfaceStands(k, NoSurface)
    BY NoSurfaceFits
  <2>2. QED
    BY <1>1, <1>2, <1>5, <1>6, <1>7, <2>1, ChainSettles
<1>9. LocksAreTold' /\ HeldStaysLocked'
  BY <1>1 DEF LocksAreTold, HeldStaysLocked
<1>10. QED
  BY <1>1, <1>2, <1>8, <1>9 DEF SurfaceInv

LEMMA LossKeepsSurface ==
  ASSUME SurfaceInv, SessionPauses, UNCHANGED surfaceVars
  PROVE  SurfaceInv'
<1>1. live' = FALSE /\ UNCHANGED <<tables, file, buffers, surface, rendered, scanned>>
  BY DEF SessionPauses, surfaceVars
<1>2. ChainInv'
  <2>1. /\ file \in Files /\ tables \in KernelTables /\ buffers = [o \in Owners |-> NoBuffer]
        /\ SurfaceFits(surface) /\ SurfaceStands(tables, surface) /\ NothingAhead(tables)
    BY SurfaceParts DEF ChainInv
  <2>2. SurfaceFits(surface)'
    BY <1>1, <2>1 DEF SurfaceFits, Files
  <2>3. SurfaceStands(tables, surface)'
    BY <1>1, <2>1 DEF SurfaceStands, Name, AddedFb
  <2>4. NothingAhead(tables)'
    BY <1>1, <2>1 DEF NothingAhead, Files
  <2>5. QED
    BY <1>1, <2>1, <2>2, <2>3, <2>4 DEF ChainInv, Files
<1>3. LocksAreTold' /\ HeldStaysLocked'
  BY <1>1, SurfaceParts DEF LocksAreTold, HeldStaysLocked, Standing
<1>4. QED
  BY <1>1, <1>2, <1>3, SurfaceParts DEF SurfaceInv

\* The surface keeps its files open, and there is nothing on the new one.
LEMMA ReopensKeepsSurface ==
  ASSUME SurfaceInv, SessionReopens(OpenFor(surface)), UNCHANGED surfaceVars
  PROVE  SurfaceInv'
<1> DEFINE open == OpenFor(surface) \cup {file'} \cup UNION {HeldOpen(buffers[o]) : o \in Owners}
           l == tables'
<1>1. /\ file < MaxOpens /\ live' = TRUE /\ file' = file + 1
      /\ l = Reclaims(tables, open)
      /\ UNCHANGED <<buffers, surface, rendered, scanned>>
  BY DEF SessionReopens, surfaceVars
<1>2. /\ file \in Files /\ file \in Nat /\ tables \in KernelTables
      /\ buffers = [o \in Owners |-> NoBuffer]
      /\ SurfaceFits(surface) /\ SurfaceStands(tables, surface) /\ NothingAhead(tables)
      /\ LocksAreTold /\ HeldStaysLocked /\ rendered \in 0..Chain
  BY SurfaceParts DEF ChainInv
<1>3. OpenFor(surface) \subseteq open
  OBVIOUS
<1> HIDE DEF open, l
<1>4. /\ l \in KernelTables
      /\ \A f \in Files : DOMAIN l.gem[f] = {} \/ l.gem[f] = tables.gem[f]
      /\ \A id \in DOMAIN l.fbs : id \in DOMAIN tables.fbs /\ l.fbs[id] = tables.fbs[id]
  BY <1>1, <1>2, ReclaimsFiles
<1>5. SurfaceStands(l, surface)
  BY <1>1, <1>2, <1>3, SettlingKeeps
<1>6. file' \in Files /\ file' > file /\ file' \in Nat
  BY <1>1, <1>2, GemAssumption DEF Files
<1>7. \A f \in Files : f > file => DOMAIN l.gem[f] = {}
  BY <1>2, <1>4 DEF NothingAhead
<1>8. \A id \in DOMAIN l.fbs : l.fbs[id].file \in Nat /\ l.fbs[id].file <= file
  BY <1>2, <1>4, TablesParts, FilesAreNumbers DEF NothingAhead
<1>9. SurfaceFits(surface)'
  <2>1. ASSUME surface # NoSurface PROVE surface.gbmFile <= file' /\ surface.fbFile <= file'
    <3>1. /\ surface.gbmFile <= file /\ surface.fbFile <= file
          /\ surface.gbmFile \in Files /\ surface.fbFile \in Files
      BY <1>2, <2>1 DEF SurfaceFits
    <3>2. surface.gbmFile \in Nat /\ surface.fbFile \in Nat
      BY <3>1, FilesAreNumbers
    <3> HIDE DEF l
    <3>3. QED
      BY <1>1, <1>2, <3>1, <3>2
  <2>2. QED
    BY <1>1, <1>2, <2>1 DEF SurfaceFits, Files
<1>10. SurfaceStands(tables, surface)'
  BY <1>1, <1>5 DEF SurfaceStands, Name, AddedFb, l
<1>11. NothingAhead(tables)'
  <2>1. \A f \in Files : f > file' => DOMAIN l.gem[f] = {}
    BY <1>2, <1>6, <1>7, FilesAreNumbers
  <2>2. \A id \in DOMAIN l.fbs : l.fbs[id].file <= file'
    BY <1>2, <1>6, <1>8
  <2>3. QED
    BY <2>1, <2>2 DEF NothingAhead, Files, l
<1>12. AllOfSurface(tables, surface)'
  <2>1. DOMAIN l.gem[file'] = {}
    BY <1>6, <1>7
  <2>2. \A id \in DOMAIN l.fbs : l.fbs[id].file # file'
    BY <1>2, <1>6, <1>8
  <2>3. QED
    BY <2>1, <2>2 DEF AllOfSurface, l
<1>13. ChainInv'
  BY <1>1, <1>2, <1>4, <1>6, <1>9, <1>10, <1>11, <1>12 DEF ChainInv, Files, l
<1>14. LocksAreTold'
  <2>1. \A x \in scanned : x.from < file'
    BY <1>2, <1>6, SurfaceParts DEF LocksAreTold
  <2>2. \A x \in scanned : x.from <= file'
    BY <1>6, <2>1, SurfaceParts
  <2>3. QED
    BY <1>1, <1>2, <2>1, <2>2 DEF LocksAreTold, Standing
<1>15. HeldStaysLocked'
  BY <1>1, <1>2 DEF HeldStaysLocked, Standing
<1>16. QED
  BY <1>1, <1>2, <1>13, <1>14, <1>15 DEF SurfaceInv

LEMMA SurfaceStutters ==
  ASSUME SurfaceInv, UNCHANGED <<gemVars, surfaceVars>>
  PROVE  SurfaceInv'
<1>1. UNCHANGED <<tables, file, live, buffers, surface, rendered, scanned>>
  BY DEF gemVars, surfaceVars
<1>2. ChainInv'
  BY <1>1, SurfaceParts, ChainKept DEF ChainInv
<1>3. QED
  BY <1>1, <1>2, SurfaceParts DEF SurfaceInv, LocksAreTold, HeldStaysLocked, Standing

LEMMA SurfaceStarts ==
  ASSUME GemInit, SurfaceInit
  PROVE  SurfaceInv
<1>1. GemInv
  BY GemStarts
<1>2. /\ surface = NoSurface /\ rendered = 0 /\ scanned = {}
      /\ buffers = [o \in Owners |-> NoBuffer] /\ file \in Nat
      /\ tables = [gem |-> [f \in Files |-> <<>>], fbs |-> <<>>] /\ file \in Files
  BY <1>1, FilesAreNumbers DEF GemInit, SurfaceInit, GemInv
<1>3. AllOfSurface(tables, surface)
  <2>1. DOMAIN tables.gem[file] = {} /\ DOMAIN tables.fbs = {}
    BY <1>2
  <2>2. QED
    BY <2>1 DEF AllOfSurface
<1>4. NothingAhead(tables)
  BY <1>1 DEF GemInv, NothingAhead
<1>5. ChainInv
  BY <1>1, <1>2, <1>3, <1>4, NoSurfaceFits DEF ChainInv, GemInv
<1>6. LocksAreTold /\ HeldStaysLocked
  BY <1>2 DEF LocksAreTold, HeldStaysLocked
<1>7. QED
  BY <1>2, <1>5, <1>6, SurfaceAssumption DEF SurfaceInv

LEMMA SurfaceSteps ==
  ASSUME SurfaceInv, SurfaceNext
  PROVE  SurfaceInv'
<1>1. CASE SessionPauses /\ UNCHANGED surfaceVars
  BY <1>1, LossKeepsSurface
<1>2. CASE SessionReopens(OpenFor(surface)) /\ UNCHANGED surfaceVars
  BY <1>2, ReopensKeepsSurface
<1>3. CASE CreateSurface
  BY <1>3, CreatesKeepsSurface
<1>4. CASE Binds
  BY <1>4, BindsKeepsSurface
<1>5. CASE Renders
  BY <1>5, RendersKeepsSurface
<1>6. CASE LocksFront
  BY <1>6, LocksKeepsSurface
<1>7. CASE ReleasesLock
  BY <1>7, ReleasesKeepsSurface
<1>8. CASE PausesSurface
  BY <1>8, PausesKeepsSurface
<1>9. CASE ResumesSurface
  BY <1>9, ResumesKeepsSurface
<1>10. CASE DropsSurface
  BY <1>10, DropsKeepsSurface
<1>11. QED
  BY <1>1, <1>2, <1>3, <1>4, <1>5, <1>6, <1>7, <1>8, <1>9, <1>10 DEF SurfaceNext

\* With no buffer beside, the tables agree with the surface.
LEMMA SurfaceAgrees ==
  ASSUME SurfaceInv
  PROVE  TablesAgree /\ HeldStaysLocked
<1>1. /\ buffers = [o \in Owners |-> NoBuffer] /\ SurfaceStands(tables, surface)
      /\ live => AllOfSurface(tables, surface)
  BY SurfaceParts DEF ChainInv
<1>2. NumbersStand
  BY <1>1, NoBufferFits DEF NumbersStand
<1>3. NothingLeaks
  <2>1. SUFFICES ASSUME live
                 PROVE  /\ DOMAIN tables.gem[file] \subseteq BelievedHandles(file)
                        /\ \A id \in DOMAIN tables.fbs :
                             tables.fbs[id].file = file => id \in BelievedFbs
    BY DEF NothingLeaks
  <2>2. DOMAIN tables.gem[file] \subseteq BelievedHandles(file)
    <3> DEFINE had == UNION {buffers[o].handles : o \in {o \in Owners : buffers[o].file = file}}
               bos == {buffers[o].bo : o \in {o \in Owners : buffers[o].boFile = file}}
               chain == IF surface.gbmFile = file THEN Range(surface.bos) ELSE {}
    <3>1. BelievedHandles(file) = had \cup bos \cup chain
      BY DEF BelievedHandles
    <3>2. DOMAIN tables.gem[file] \subseteq chain
      BY <1>1, <2>1 DEF AllOfSurface
    <3> HIDE DEF had, bos, chain
    <3>3. QED
      BY <3>1, <3>2
  <2>3. ASSUME NEW id \in DOMAIN tables.fbs, tables.fbs[id].file = file PROVE id \in BelievedFbs
    BY <1>1, <2>1, <2>3 DEF AllOfSurface, BelievedFbs
  <2>4. QED
    BY <2>2, <2>3
<1>4. QED
  BY <1>2, <1>3, SurfaceParts DEF TablesAgree

=============================================================================
