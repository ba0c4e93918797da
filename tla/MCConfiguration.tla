---------------------------- MODULE MCConfiguration ----------------------------
(***************************************************************************)
(* A configuration file of two clients, one key and a few mappings on       *)
(* small instances: a role under two names, a key of it, names that are     *)
(* refused, and --remap that replaces them, is an identity or is refused.   *)
(***************************************************************************)
EXTENDS Configuration, TLC

CONSTANTS Ctrl, Alt, Meta, ctrl, control, alt, meta, KeyA, LeftCtrl, bogus

RoleOf == (ctrl :> Ctrl) @@ (control :> Ctrl) @@ (alt :> Alt) @@ (meta :> Meta)
KeysOfRoles == [r \in {Ctrl, Alt, Meta} |-> IF r = Ctrl THEN {LeftCtrl} ELSE {}]
Strings == {ctrl, control, alt, meta, KeyA, LeftCtrl, bogus}
FromString == [n \in Strings |-> IF n \in DOMAIN RoleOf THEN RoleOf[n] ELSE None]

Tables(modifiers, keys) == [modifiers |-> modifiers, keys |-> keys]
FileRemaps ==
  {NoRemap,
   Tables((ctrl :> meta) @@ (control :> alt), (KeyA :> LeftCtrl) @@ (LeftCtrl :> KeyA)),
   Tables(ctrl :> bogus, KeyA :> bogus)}

Entry(from, to) == [from |-> from, to |-> to]
Overrides ==
  {<<>>,
   <<Entry(ctrl, meta), Entry(ctrl, alt)>>,
   <<Entry(control, control), Entry(KeyA, bogus)>>,
   <<Entry(KeyA, KeyA), Entry(ctrl, LeftCtrl)>>}
==============================================================================
