------------------------------- MODULE KeyRemap -------------------------------
(***************************************************************************)
(* KeyRemapEngine: which scancode a scancode of a remote keyboard is        *)
(* emulated as.  Modifiers are sticky: the release of a modifier goes to    *)
(* what its press was mapped to, even if the configuration has changed.     *)
(* Remapped Modifiers bit masks are not part of this module.                *)
(***************************************************************************)
EXTENDS Integers, Sequences, FiniteSets

CONSTANTS
  Keys,          \* scancodes
  Modifiers,     \* those of modifier keys
  Configs        \* KeyRemapConfig values, see Config

\* The scancode pairs of a configuration, as two functions: those that come from
\* the modifier roles, and those of single keys.
Config(modifier_remap, key_remap) ==
  [modifier_remap |-> modifier_remap, key_remap |-> key_remap]

ASSUME RemapAssumption ==
  /\ Modifiers \subseteq Keys
  /\ \A c \in Configs :
       /\ c = Config(c.modifier_remap, c.key_remap)
       /\ DOMAIN c.modifier_remap \subseteq Modifiers
       /\ \A k \in DOMAIN c.modifier_remap : c.modifier_remap[k] \in Modifiers
       /\ DOMAIN c.key_remap \subseteq Keys
       /\ \A k \in DOMAIN c.key_remap : c.key_remap[k] \in Keys

\* scancode_map: a role mapped to itself is skipped, roles come before keys.
ScancodeMap(c) ==
  LET roles == {k \in DOMAIN c.modifier_remap : c.modifier_remap[k] # k}
  IN [k \in roles \cup DOMAIN c.key_remap |->
        IF k \in roles THEN c.modifier_remap[k] ELSE c.key_remap[k]]

Mapped(map, k) == IF k \in DOMAIN map THEN map[k] ELSE k

\* An engine: its map, and the modifiers that are down with what they became.
Engine(map, pressed) == [map |-> map, pressed |-> pressed]
NonePressed == [m \in {} |-> m]

\* Mutant: from and to are swapped.
ReversedEngine(c) ==
  LET map == ScancodeMap(c)
  IN Engine([to \in {map[k] : k \in DOMAIN map} |-> CHOOSE k \in DOMAIN map : map[k] = to],
            NonePressed)

NewEngine(c) == Engine(ScancodeMap(c), NonePressed)

Pressed(engine) == DOMAIN engine.pressed

\* remap_key: the scancode, and the engine afterwards.
RemapPress(engine, k) ==
  LET to == Mapped(engine.map, k)
      now == [m \in Pressed(engine) \cup ({k} \cap Modifiers) |->
                IF m = k THEN to ELSE engine.pressed[m]]
  IN [key |-> to, engine |-> Engine(engine.map, now)]

\* Mutant: the release of an ordinary key is not mapped as its press was.
ReleaseUnmapped(engine, k) ==
  [key |-> IF k \in Pressed(engine) THEN engine.pressed[k] ELSE k,
   engine |-> Engine(engine.map, [m \in Pressed(engine) \ {k} |-> engine.pressed[m]])]

RemapRelease(engine, k) ==
  [key |-> IF k \in Pressed(engine) THEN engine.pressed[k] ELSE Mapped(engine.map, k),
   engine |-> Engine(engine.map, [m \in Pressed(engine) \ {k} |-> engine.pressed[m]])]

RemapKey(engine, k, down) ==
  IF down THEN RemapPress(engine, k) ELSE RemapRelease(engine, k)

\* reset
Reset(engine) == Engine(engine.map, NonePressed)

\* Mutant: what is down is forgotten.
DrainedNone(engine) == {}

\* drain_pressed, as the set of remapped scancodes.
Drained(engine) == {engine.pressed[m] : m \in Pressed(engine)}
==============================================================================
