------------------------------ MODULE SceneSet ------------------------------
(***************************************************************************)
(* Several scenes by index, and layers that have copies in some of them.   *)
(* A scene's own handles are a slot and the slot's generation.             *)
(***************************************************************************)
EXTENDS Integers, FiniteSets, SequencesExt

CONSTANTS
  MaxScenes,     \* bound on the scenes ever made
  MaxSetLayers,  \* bound on the set layers ever made
  MaxCopies,     \* bound on a layer's targets
  FreesIndexes   \* whether callers remove a scene's layers before its index is
                 \* given to another scene

ASSUME SceneSetAssumption == MaxCopies \in Nat

VARIABLES
  scenes,          \* sequence of scenes, Hole for a removed one
  setLayers,       \* layers: sequence of set layers, NoSetLayer for a free slot
  freeLayers,      \* free_layers, the last freed first
  nextGeneration,
  issued,          \* the set handles the caller has, stale ones included
  kept,            \* the generations of the layers it has not removed
  made             \* how many scenes were made

sceneSetVars == <<scenes, setLayers, freeLayers, nextGeneration, issued, kept, made>>

Hole == [made |-> 0, generations |-> <<>>, owners |-> <<>>, free |-> <<>>]
NewScene == [Hole EXCEPT !.made = made + 1]
NoSetLayer == [generation |-> 0, copies |-> <<>>]

HasScene(index) == index \in DOMAIN scenes /\ scenes[index] # Hole

-----------------------------------------------------------------------------
(* LayerScene's slots.  An owner is the generation of the set layer whose  *)
(* copy is in the slot, 0 for a free slot.                                 *)

\* add_layer: the slot freed last, or a new one.
AddCopy(scene, owner) ==
  IF scene.free # <<>>
    THEN [scene EXCEPT !.free = Tail(@), !.owners[Head(scene.free)] = owner]
    ELSE [scene EXCEPT !.owners = Append(@, owner), !.generations = Append(@, 1)]

CopyHandle(scene) ==
  IF scene.free # <<>>
    THEN [slot |-> Head(scene.free), generation |-> scene.generations[Head(scene.free)]]
    ELSE [slot |-> Len(scene.owners) + 1, generation |-> 1]

Resolves(scene, handle) ==
  /\ handle.slot \in DOMAIN scene.owners
  /\ scene.owners[handle.slot] # 0
  /\ scene.generations[handle.slot] = handle.generation

\* remove_layer
RemoveCopy(scene, handle) ==
  IF ~Resolves(scene, handle) THEN scene
  ELSE [scene EXCEPT !.owners[handle.slot] = 0, !.generations[handle.slot] = @ + 1,
                     !.free = <<handle.slot>> \o @]

-----------------------------------------------------------------------------
(* SceneSet.                                                               *)

\* add_scene: the first hole, or the end.
AddScene ==
  /\ made < MaxScenes
  /\ made' = made + 1
  /\ LET holes == {i \in DOMAIN scenes : scenes[i] = Hole}
         index == IF holes = {} THEN Len(scenes) + 1
                  ELSE CHOOSE i \in holes : \A j \in holes : i <= j
     IN /\ FreesIndexes =>
             \A i \in DOMAIN setLayers : \A n \in DOMAIN setLayers[i].copies :
               setLayers[i].copies[n].scene # index
        /\ scenes' = IF holes = {} THEN Append(scenes, NewScene)
                     ELSE [scenes EXCEPT ![index] = NewScene]
  /\ UNCHANGED <<setLayers, freeLayers, nextGeneration, issued, kept>>

\* remove_scene leaves a hole.
RemoveScene(index) ==
  /\ HasScene(index)
  /\ scenes' = [scenes EXCEPT ![index] = Hole]
  /\ UNCHANGED <<setLayers, freeLayers, nextGeneration, issued, kept, made>>

\* One copy more, over [scenes, copies].
Mirror(s, index) ==
  [scenes |-> [s.scenes EXCEPT ![index] = AddCopy(@, nextGeneration)],
   copies |-> Append(s.copies, [scene |-> index, handle |-> CopyHandle(s.scenes[index]),
                                made |-> s.scenes[index].made])]

Mirrored(targets) ==
  LET s[n \in 0..Len(targets)] ==
        IF n = 0 THEN [scenes |-> scenes, copies |-> <<>>] ELSE Mirror(s[n - 1], targets[n])
  IN s[Len(targets)]

\* add_layer: every target is checked before anything is added.
AddSetLayer(targets) ==
  /\ targets # <<>> /\ \A i \in DOMAIN targets : HasScene(targets[i])
  /\ nextGeneration <= MaxSetLayers
  /\ LET s == Mirrored(targets)
         layer == [generation |-> nextGeneration, copies |-> s.copies]
         index == IF freeLayers = <<>> THEN Len(setLayers) + 1 ELSE Head(freeLayers)
     IN /\ scenes' = s.scenes
        /\ setLayers' = IF freeLayers = <<>> THEN Append(setLayers, layer)
                        ELSE [setLayers EXCEPT ![index] = layer]
        /\ freeLayers' = IF freeLayers = <<>> THEN <<>> ELSE Tail(freeLayers)
        /\ issued' = issued \cup {[id |-> index, generation |-> nextGeneration]}
  /\ nextGeneration' = nextGeneration + 1
  /\ kept' = kept \cup {nextGeneration}
  /\ UNCHANGED made

\* A slot that answers to any handle it ever gave.
AnswersToAny(handle) ==
  handle.id \in DOMAIN setLayers /\ setLayers[handle.id] # NoSetLayer

\* remove_layer's guards: a slot that holds the layer of that generation.
Answers(handle) ==
  /\ handle.id \in DOMAIN setLayers
  /\ setLayers[handle.id].generation = handle.generation

\* One copy less, looked for where it was put.
Unmirror(all, copy) ==
  IF all[copy.scene] = Hole THEN all
  ELSE [all EXCEPT ![copy.scene] = RemoveCopy(@, copy.handle)]

Unmirrored(copies) ==
  LET all[n \in 0..Len(copies)] == IF n = 0 THEN scenes ELSE Unmirror(all[n - 1], copies[n])
  IN all[Len(copies)]

RemoveSetLayer(handle) ==
  /\ kept' = kept \ {handle.generation}
  /\ IF Answers(handle)
       THEN /\ scenes' = Unmirrored(setLayers[handle.id].copies)
            /\ setLayers' = [setLayers EXCEPT ![handle.id] = NoSetLayer]
            /\ freeLayers' = <<handle.id>> \o freeLayers
       ELSE UNCHANGED <<scenes, setLayers, freeLayers>>
  /\ UNCHANGED <<nextGeneration, issued, made>>

SceneSetInit ==
  /\ made = 2
  /\ scenes = [i \in 1..2 |-> [Hole EXCEPT !.made = i]]
  /\ setLayers = <<>> /\ freeLayers = <<>> /\ nextGeneration = 1
  /\ issued = {} /\ kept = {}

SceneSetNext ==
  \/ AddScene
  \/ \E index \in DOMAIN scenes : RemoveScene(index)
  \/ \E n \in 1..MaxCopies :
       \E targets \in [1..n -> DOMAIN scenes] : AddSetLayer(targets)
  \/ \E handle \in issued : RemoveSetLayer(handle)

-----------------------------------------------------------------------------
(* partition.rs: the commits of a frame, each a set of scenes' indexes.     *)

\* Scenes are [isHole, wantsModeset].
PartitionForPolicy(slots, policy) ==
  LET engaged  == {i \in DOMAIN slots : ~slots[i].isHole}
      modesets == {i \in engaged : slots[i].wantsModeset}
      groups   == IF policy = "Combined" THEN <<engaged>>
                  ELSE IF policy = "AutoOnModeset" THEN <<modesets, engaged \ modesets>>
                  ELSE [i \in DOMAIN slots |-> engaged \cap {i}]
  IN SelectSeq(groups, LAMBDA g : g # {})

-----------------------------------------------------------------------------
(* Properties.                                                             *)

\* "Removing it removes every copy", and no one else's: a layer that was not
\* removed by its own handle has its copy in each of its scenes that is still
\* there, and what is in a scene is a copy of such a layer, however slots,
\* handles and indexes were reused.
MirrorsStand ==
  /\ \A g \in kept :
       \E i \in DOMAIN setLayers :
         /\ setLayers[i].generation = g
         /\ \A n \in DOMAIN setLayers[i].copies :
              LET copy == setLayers[i].copies[n]
              IN scenes[copy.scene].made = copy.made =>
                   /\ Resolves(scenes[copy.scene], copy.handle)
                   /\ scenes[copy.scene].owners[copy.handle.slot] = g
  /\ \A i \in DOMAIN scenes : ToSet(scenes[i].owners) \subseteq kept \cup {0}

=============================================================================
