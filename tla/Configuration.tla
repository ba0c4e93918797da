----------------------------- MODULE Configuration -----------------------------
(***************************************************************************)
(* The configuration file and what the service makes of it: clients and    *)
(* keys of devices, which it loads at its start and writes back with every  *)
(* change, and the key remapping, which it also loads again when the file   *)
(* changes under it, unless it has done so or saved within 250 ms.          *)
(*                                                                         *)
(* The other hand on the file is an editor.  The service may crash at any   *)
(* time, also between truncating the file and writing it.                   *)
(***************************************************************************)
EXTENDS Naturals, Sequences, FiniteSetsExt

CONSTANTS
  None,
  FileClients,       \* clients that can be configured
  FileKeys,          \* fingerprints that can be authorized
  Names,             \* in the file and after --remap
  Roles,             \* of modifiers
  FromConfigStr,     \* the role of a name; aliases have one, and some names None
  KeyNames,          \* names of scancodes
  RoleKeys,          \* the scancodes of a role, by name
  Remaps,            \* [key_remap]: its tables of modifiers and keys, names to names
  CliRemaps,         \* what --remap says, the entries in their order
  Unreadable,        \* no file, or one that toml cannot parse
  MaxNotices,        \* of the watcher that are kept apart
  MaxEdits, MaxRestarts

VARIABLES
  disk,              \* the file: Unreadable, or what it says
  config_toml,       \* None without a file
  clients,           \* of the client manager
  authorized_keys,
  remap,             \* remap_modifiers, remap_keys: what frontends are shown
  applied,           \* the last configuration sent to emulation, as an engine takes it
  args,              \* --remap of this start
  watched,           \* there is a watcher
  config_change,     \* notices of the watcher in the channel
  recent,            \* last_config_reload was less than 250 ms ago
  phase,             \* "running", "writing", "panicked", "down"
  own,               \* history: the file is as the last save left it, complete
  edits, restarts

fileVars == <<disk, own, edits>>
serviceVars == <<config_toml, clients, authorized_keys, remap, applied, args>>
watchVars == <<watched, config_change, recent>>
configVars == <<fileVars, serviceVars, watchVars, phase, restarts>>

NoRemap == [modifiers |-> <<>>, keys |-> <<>>]
Empty == [clients |-> {}, authorized_fingerprints |-> {}, key_remap |-> NoRemap]
Toml == [clients : SUBSET FileClients, authorized_fingerprints : SUBSET FileKeys,
         key_remap : Remaps]

ASSUME ConfigurationAssumption ==
  /\ {None, Unreadable} \cap Toml = {}
  /\ None \notin Roles /\ FromConfigStr \in [Names -> Roles \cup {None}]
  /\ \A k \in KeyNames : k \in Names /\ FromConfigStr[k] = None
  /\ RoleKeys \in [Roles -> SUBSET KeyNames]
  /\ NoRemap \in Remaps
  /\ \A m \in Remaps :
       /\ m = [modifiers |-> m.modifiers, keys |-> m.keys]
       /\ DOMAIN m.modifiers \subseteq Names /\ m.modifiers \in [DOMAIN m.modifiers -> Names]
       /\ DOMAIN m.keys \subseteq Names /\ m.keys \in [DOMAIN m.keys -> Names]
  /\ CliRemaps \subseteq Seq([from : Names, to : Names])
  /\ MaxNotices \in Nat /\ MaxEdits \in Nat /\ MaxRestarts \in Nat

\* What the file says; an empty one is a configuration, too.
Loaded == IF disk = Unreadable THEN None ELSE disk
OrEmpty(toml) == IF toml = None THEN Empty ELSE toml

------------------------------------------------------------------------------
\* An entry is of modifier roles, of keys, or refused with a warning; the engine leaves
\* out roles that are mapped to themselves.
RoleEntry(e) == FromConfigStr[e.from] # None /\ FromConfigStr[e.to] # None
KeyEntry(e) == e.from \in KeyNames /\ e.to \in KeyNames
Remapping(e, r) ==
  RoleEntry(e) /\ FromConfigStr[e.from] = r /\ FromConfigStr[e.to] # r

Entries(table) == {[from |-> n, to |-> table[n]] : n \in DOMAIN table}

\* table once the entries of cli at I have been inserted, one after the other.
Inserted(table, cli, I) ==
  LET names == {cli[i].from : i \in I}
  IN [n \in DOMAIN table \cup names |->
        IF n \in names THEN cli[Max({i \in I : cli[i].from = n})].to ELSE table[n]]

\* What a table of modifiers maps a role to, under all of its names.
Targets(mods, r) == {FromConfigStr[e.to] : e \in {x \in Entries(mods) : Remapping(x, r)}}

\* What the last --remap of a role maps it to.
Override(cli, r) ==
  LET I == {i \in DOMAIN cli : Remapping(cli[i], r)}
  IN IF I = {} THEN {} ELSE {FromConfigStr[cli[Max(I)].to]}

\* Mutant: what the file says comes after --remap.
FileFirst(mods, cli, r) == IF Targets(mods, r) # {} THEN Targets(mods, r) ELSE Override(cli, r)

\* A table is a HashMap: of several names of a role, any may come last.
RoleTargets(mods, cli, r) == IF Override(cli, r) # {} THEN Override(cli, r) ELSE Targets(mods, r)

KeysOf(R) == UNION {RoleKeys[r] : r \in R}

\* parse_key_remap_toml and apply_remap_override, and what an engine makes of it: the
\* scancodes of a role that is mapped go with their role.
KeyRemapConfigs(m, cli) ==
  LET roles == {r \in Roles : RoleTargets(m.modifiers, cli, r) # {}}
      valid == {n \in DOMAIN m.keys : KeyEntry([from |-> n, to |-> m.keys[n]])}
      keys == Inserted([n \in valid |-> m.keys[n]], cli, {i \in DOMAIN cli : KeyEntry(cli[i])})
  IN [modifier_remap : {f \in [roles -> Roles] :
                          \A r \in roles : f[r] \in RoleTargets(m.modifiers, cli, r)},
      key_remap : {[n \in DOMAIN keys \ KeysOf(roles) |-> keys[n]]}]

NothingApplied == [modifier_remap |-> <<>>, key_remap |-> <<>>]

\* merge_cli_remap_strings: what is no mapping of roles is shown among the keys, and
\* refused entries are shown as well.
Merged(m, cli) ==
  LET I == {i \in DOMAIN cli : RoleEntry(cli[i])}
  IN [modifiers |-> Inserted(m.modifiers, cli, I),
      keys |-> Inserted(m.keys, cli, DOMAIN cli \ I)]

------------------------------------------------------------------------------
\* Config::new and Service::new
Start(cli) ==
  /\ phase' = "running"
  /\ args' = cli
  /\ config_toml' = Loaded
  /\ clients' = OrEmpty(Loaded).clients
  /\ authorized_keys' = OrEmpty(Loaded).authorized_fingerprints
  /\ remap' = Merged(OrEmpty(Loaded).key_remap, cli)
  /\ applied' \in KeyRemapConfigs(OrEmpty(Loaded).key_remap, cli)
  /\ watched' \in IF disk = Unreadable THEN BOOLEAN ELSE {TRUE}
  /\ config_change' = 0 /\ recent' = TRUE

ConfigInit ==
  /\ disk \in Toml \cup {Unreadable}
  /\ phase = "down"
  /\ config_toml = None /\ clients = {} /\ authorized_keys = {}
  /\ remap = NoRemap /\ applied = NothingApplied /\ args = <<>>
  /\ watched = FALSE /\ config_change = 0 /\ recent = FALSE
  /\ own = FALSE
  /\ edits = 0 /\ restarts = 0

Restart ==
  /\ phase \in {"down", "panicked"}
  /\ restarts < MaxRestarts
  /\ \E cli \in CliRemaps : Start(cli)
  /\ restarts' = restarts + 1
  /\ UNCHANGED fileVars

Crash ==
  /\ phase \in {"running", "writing"}
  /\ phase' = "down"
  /\ UNCHANGED <<fileVars, serviceVars, watchVars, restarts>>

------------------------------------------------------------------------------
\* The watcher puts a notice in the channel.
Noticed ==
  config_change' = IF watched /\ config_change < MaxNotices THEN config_change + 1
                                                          ELSE config_change

\* Mutant: clients that are there are kept.
SetFirstClients(toml, C) ==
  IF C = {} \/ OrEmpty(toml).clients # {} THEN toml ELSE [OrEmpty(toml) EXCEPT !.clients = C]

\* set_clients keeps the clients there are if it is given none.
SetClients(toml, C) == IF C = {} THEN toml ELSE [OrEmpty(toml) EXCEPT !.clients = C]

\* set_authorized_keys, too, and has no configuration to set them in if there is none.
SetAuthorizedKeys(toml, K) ==
  IF K = {} THEN toml ELSE [toml EXCEPT !.authorized_fingerprints = K]

NoConfig(toml, K) == K # {} /\ toml = None

\* save_config, up to where write_back truncates the file.
Save(C, K) ==
  LET toml == SetClients(config_toml, C)
  IN /\ clients' = C /\ authorized_keys' = K
     /\ UNCHANGED <<remap, applied, args, watched, edits, restarts>>
     /\ \/ /\ NoConfig(toml, K)               \* expect("config")
           /\ phase' = "panicked"
           /\ UNCHANGED <<disk, own, config_change, recent>>
           /\ config_toml' = toml
        \/ /\ ~NoConfig(toml, K)
           /\ config_toml' = SetAuthorizedKeys(toml, K)
           /\ phase' = "writing"
           /\ disk' = Empty /\ own' = FALSE
           /\ Noticed /\ UNCHANGED recent
        \/ /\ ~NoConfig(toml, K)              \* the file cannot be created
           /\ config_toml' = SetAuthorizedKeys(toml, K)
           /\ recent' = TRUE
           /\ own' = FALSE
           /\ UNCHANGED <<disk, config_change, phase>>

\* Requests of frontends that save; SaveConfiguration, and those that change only the
\* settings of a client, save the clients and keys there are.
CreateClient == \E c \in FileClients \ clients : Save(clients \cup {c}, authorized_keys)
DeleteClient == \E c \in clients : Save(clients \ {c}, authorized_keys)
AuthorizeKey == \E k \in FileKeys : Save(clients, authorized_keys \cup {k})
RemoveAuthorizedKey == \E k \in authorized_keys : Save(clients, authorized_keys \ {k})
SaveConfiguration == Save(clients, authorized_keys)

Request ==
  /\ phase = "running"
  /\ CreateClient \/ DeleteClient \/ AuthorizeKey \/ RemoveAuthorizedKey \/ SaveConfiguration

\* write_all and the end of save_config.  It fails halfway, which may leave a file that
\* cannot be parsed, or goes to one that an editor has replaced.
Written ==
  /\ phase = "writing"
  /\ phase' = "running"
  /\ \/ disk' = OrEmpty(config_toml) /\ own' = TRUE
     \/ disk' \in {disk, Unreadable} /\ own' = FALSE
  /\ Noticed
  /\ recent' = TRUE
  /\ UNCHANGED <<serviceVars, watched, edits, restarts>>

\* SetKeyRemap, ResetKeyRemap: kept for the next save.  --remap does not count any more.
SetKeyRemap(m) ==
  /\ phase = "running"
  /\ config_toml' = [OrEmpty(config_toml) EXCEPT !.key_remap = m]
  /\ remap' = m
  /\ applied' \in KeyRemapConfigs(m, <<>>)
  /\ UNCHANGED <<fileVars, clients, authorized_keys, args, watchVars, phase, restarts>>

\* handle_config_change: what it reads is shown and sent to emulation.
Reload ==
  /\ recent' = TRUE
  /\ \/ disk = Unreadable /\ remap' = NoRemap /\ applied' = NothingApplied
     \/ /\ disk # Unreadable
        /\ remap' = Merged(disk.key_remap, args)
        /\ applied' \in KeyRemapConfigs(disk.key_remap, args)

ConfigChange ==
  /\ phase = "running" /\ config_change > 0
  /\ config_change' = config_change - 1
  /\ \/ recent /\ UNCHANGED <<remap, applied, recent>>
     \/ ~recent /\ Reload
  /\ UNCHANGED <<fileVars, config_toml, clients, authorized_keys, args, watched,
                 phase, restarts>>

TimePasses ==
  /\ phase = "running" /\ recent
  /\ recent' = FALSE
  /\ UNCHANGED <<fileVars, serviceVars, watched, config_change, phase, restarts>>

\* External: an editor truncates, writes, breaks or removes the file.
Edit ==
  /\ edits < MaxEdits
  /\ edits' = edits + 1
  /\ \E content \in ({Unreadable} \cup Toml) \ {disk} : disk' = content
  /\ own' = FALSE
  /\ IF phase \in {"running", "writing"} THEN Noticed ELSE UNCHANGED config_change
  /\ UNCHANGED <<serviceVars, watched, recent, phase, restarts>>

ConfigNext ==
  \/ Restart \/ Crash \/ Request \/ Written
  \/ \E m \in Remaps : SetKeyRemap(m)
  \/ ConfigChange \/ TimePasses \/ Edit

ConfigSpec == ConfigInit /\ [][ConfigNext]_configVars

------------------------------------------------------------------------------
\* --remap maps the role to itself, or the key to what is none.
SelfMapped(r) ==
  \E i \in DOMAIN args : /\ RoleEntry(args[i])
                         /\ FromConfigStr[args[i].from] = r /\ FromConfigStr[args[i].to] = r
Refused(k) == \E i \in DOMAIN args : args[i].from = k /\ ~KeyEntry(args[i])

\* "Merge --remap CLI entries into string maps so IPC state reflects CLI overrides":
\* what is in effect is shown to frontends, and what they are shown that is not refused
\* is in effect, wherever the last mapping came from; of several names of a role, one,
\* and of a key and the role it belongs to, the role.  But a --remap that has no effect
\* hides what the file says all the same.
ShownIsApplied ==
  /\ \A r \in Roles :
       LET shown == Targets(remap.modifiers, r)
           now == applied.modifier_remap
       IN /\ r \in DOMAIN now => now[r] \in shown \/ SelfMapped(r)
          /\ shown # {} => r \in DOMAIN now
  /\ \A k \in KeyNames :
       LET shown == remap.keys
           now == applied.key_remap
           same == k \in DOMAIN now /\ k \in DOMAIN shown /\ now[k] = shown[k]
       IN /\ k \in DOMAIN now => same \/ Refused(k)
          /\ k \in DOMAIN shown /\ shown[k] \in KeyNames =>
               same \/ k \in KeysOf(DOMAIN applied.modifier_remap)

\* A start from a file that a save has completed and no one has touched since brings
\* back the clients and keys there were, whenever the service went down; but it brings
\* back deleted ones if those that went last were all there were.
RestartKeeps ==
  [][phase = "down" /\ phase' = "running" /\ own =>
       /\ clients' = clients \/ clients = {}
       /\ authorized_keys' = authorized_keys \/ authorized_keys = {}]_configVars
==============================================================================
