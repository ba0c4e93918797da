------------------------------ MODULE MCEmulation ------------------------------
EXTENDS Emulation, TLC

CONSTANTS ctrl, meta, esc

\* Nothing is remapped; ctrl becomes meta, as modifiers do; esc, which is none, becomes
\* meta.
Plain == Config(<<>>, <<>>)
CtrlToMeta == Config(ctrl :> meta, <<>>)
EscToMeta == Config(<<>>, esc :> meta)

ModifierConfigs == {Plain, CtrlToMeta}
KeyConfigs == {Plain, EscToMeta}

\* Devices are interchangeable.
Symmetry == Permutations(Addrs)
==============================================================================
