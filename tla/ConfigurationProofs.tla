------------------------- MODULE ConfigurationProofs -------------------------
(***************************************************************************)
(* What frontends are shown is in effect, and a complete save survives, for *)
(* any clients, keys, mappings and numbers of edits and restarts.           *)
(***************************************************************************)
EXTENDS Configuration, WellFoundedInduction, TLAPS

------------------------------------------------------------------------------
\* The last of some places in a sequence.
LEMMA LastPlace ==
  ASSUME NEW n \in Nat, NEW I \in SUBSET (1..n), I # {}
  PROVE  Max(I) \in I /\ \A j \in I : j <= Max(I)
<1> DEFINE R == OpToRel(<, Nat)
           T == {n - i : i \in I}
<1>1. PICK x \in T : \A y \in T : <<y, x>> \notin R
  <2>1. IsWellFoundedOn(R, Nat)
    BY NatLessThanWellFounded
  <2>2. T \subseteq Nat /\ T # {}
    <3>1. \A i \in I : n - i \in Nat
      OBVIOUS
    <3> QED BY <3>1
  <2> HIDE DEF R, T
  <2> QED BY <2>1, <2>2, WFMin
<1>2. PICK m \in I : x = n - m
  OBVIOUS
<1>3. ASSUME NEW j \in I PROVE j <= m
  <2>1. n - j \in T /\ n - j \in Nat /\ n - m \in Nat
    OBVIOUS
  <2>2. <<n - j, n - m>> \notin R
    BY <1>1, <1>2, <2>1
  <2>3. ~ (n - j < n - m)
    BY <2>1, <2>2 DEF OpToRel
  <2> QED BY <2>1, <2>3
<1>4. \E k \in I : \A j \in I : k >= j
  <2>1. \A j \in I : m >= j
    BY <1>3
  <2> QED BY <2>1
<1>5. Max(I) \in I /\ \A j \in I : Max(I) >= j
  BY <1>4 DEF Max
<1> QED BY <1>5

Froms(cli, I) == {cli[i].from : i \in I}
LastFrom(cli, I, n, to) ==
  \E j \in I : cli[j].from = n /\ to = cli[j].to /\ \A k \in I : cli[k].from = n => k <= j

InsertedLast(table, cli, I, b) ==
  /\ DOMAIN b = DOMAIN table \cup Froms(cli, I)
  /\ \A n \in Froms(cli, I) : LastFrom(cli, I, n, b[n])
  /\ \A n \in DOMAIN table : n \notin Froms(cli, I) => b[n] = table[n]

\* Of the entries inserted under a name, the last counts.
LEMMA InsertedIs ==
  ASSUME NEW table, NEW cli \in Seq([from : Names, to : Names]), NEW I, I \subseteq DOMAIN cli
  PROVE  InsertedLast(table, cli, I, Inserted(table, cli, I))
<1> DEFINE b == Inserted(table, cli, I)
<1>1. /\ DOMAIN b = DOMAIN table \cup Froms(cli, I)
      /\ \A n \in DOMAIN table : n \notin Froms(cli, I) => b[n] = table[n]
  BY DEF Inserted, Froms
<1>2. ASSUME NEW f \in Froms(cli, I)
      PROVE  LastFrom(cli, I, f, b[f])
  <2> DEFINE J == {k \in I : cli[k].from = f}
  <2>1. PICK n \in Nat : DOMAIN cli = 1..n
    OBVIOUS
  <2>2. J \in SUBSET (1..n) /\ J # {}
    BY <2>1 DEF Froms
  <2> HIDE DEF J
  <2>3. Max(J) \in J /\ \A k \in J : k <= Max(J)
    BY <2>2, LastPlace
  <2>4. b[f] = cli[Max(J)].to
    BY DEF Inserted, J, Froms
  <2> QED BY <2>3, <2>4 DEF J, LastFrom
<1> QED BY <1>1, <1>2 DEF InsertedLast

\* Each of them comes from one entry of the table.
LEMMA TargetsAre ==
  ASSUME NEW mods, NEW r, NEW t
  PROVE  t \in Targets(mods, r)
           <=> \E n \in DOMAIN mods : /\ Remapping([from |-> n, to |-> mods[n]], r)
                                     /\ t = FromConfigStr[mods[n]]
<1> DEFINE E(n) == [from |-> n, to |-> mods[n]]
<1>1. \A e : e \in Entries(mods) <=> \E n \in DOMAIN mods : e = E(n)
  BY DEF Entries
<1>2. \A n : E(n).to = mods[n]
  OBVIOUS
<1> HIDE DEF E
<1>3. t \in Targets(mods, r) <=> \E n \in DOMAIN mods : Remapping(E(n), r) /\ t = FromConfigStr[E(n).to]
  BY <1>1 DEF Targets
<1> QED BY <1>2, <1>3 DEF E

SelfMaps(cli, r) ==
  \E i \in DOMAIN cli : RoleEntry(cli[i]) /\ FromConfigStr[cli[i].from] = r
                                         /\ FromConfigStr[cli[i].to] = r

\* What a role may become is shown, unless --remap maps it to itself; a role that is
\* shown to be mapped is.
LEMMA RolesAgree ==
  ASSUME NEW mods, NEW cli \in Seq([from : Names, to : Names]), NEW r \in Roles, NEW b,
         b = Inserted(mods, cli, {i \in DOMAIN cli : RoleEntry(cli[i])})
  PROVE  /\ \A t \in RoleTargets(mods, cli, r) : t \in Targets(b, r) \/ SelfMaps(cli, r)
         /\ Targets(b, r) # {} => RoleTargets(mods, cli, r) # {}
<1> DEFINE I == {i \in DOMAIN cli : RoleEntry(cli[i])}
           J == {i \in DOMAIN cli : Remapping(cli[i], r)}
           froms == Froms(cli, I)
<1>1. /\ DOMAIN b = DOMAIN mods \cup froms
      /\ \A n \in froms : LastFrom(cli, I, n, b[n])
      /\ \A n \in DOMAIN mods : n \notin froms => b[n] = mods[n]
  <2>1. I \subseteq DOMAIN cli
    OBVIOUS
  <2>2. b = Inserted(mods, cli, I)
    OBVIOUS
  <2> HIDE DEF I
  <2>3. InsertedLast(mods, cli, I, Inserted(mods, cli, I))
    BY <2>1, InsertedIs
  <2> QED BY <2>2, <2>3 DEF InsertedLast
<1>2. J \subseteq I
  BY DEF Remapping
<1>3. \A i \in DOMAIN cli : i \in Nat
  OBVIOUS
<1>4. ASSUME J # {}
      PROVE  /\ RoleTargets(mods, cli, r) # {}
             /\ \A t \in RoleTargets(mods, cli, r) : t \in Targets(b, r) \/ SelfMaps(cli, r)
  <2>1. PICK l \in J : l = Max(J) /\ \A k \in J : k <= l
    <3>1. PICK n \in Nat : DOMAIN cli = 1..n
      OBVIOUS
    <3>2. J \in SUBSET (1..n)
      BY <3>1
    <3> HIDE DEF J
    <3> QED BY <1>4, <3>2, LastPlace
  <2>2. RoleTargets(mods, cli, r) = {FromConfigStr[cli[l].to]}
    BY <1>4, <2>1 DEF RoleTargets, Override
  <2>3. PICK j \in I : /\ cli[j].from = cli[l].from /\ b[cli[l].from] = cli[j].to
                       /\ l <= j
    <3>1. cli[l].from \in froms
      BY <1>2, <2>1 DEF Froms
    <3> QED BY <1>1, <1>2, <2>1, <3>1 DEF LastFrom
  <2>4. RoleEntry(cli[j]) /\ FromConfigStr[cli[j].from] = r
    BY <2>1, <2>3 DEF Remapping
  <2>5. CASE FromConfigStr[cli[j].to] = r
    BY <2>2, <2>4, <2>5 DEF SelfMaps
  <2>6. CASE FromConfigStr[cli[j].to] # r
    <3>1. j \in J /\ j \in Nat /\ l \in Nat
      BY <1>3, <2>4, <2>6 DEF Remapping
    <3>2. j <= l /\ l <= j
      BY <2>1, <2>3, <3>1
    <3>3. j = l
      BY <3>1, <3>2
    <3>4. cli[l].from \in DOMAIN b /\ b[cli[l].from] = cli[l].to
      BY <1>1, <1>2, <2>1, <2>3, <3>3 DEF Froms
    <3>5. Remapping([from |-> cli[l].from, to |-> cli[l].to], r)
      BY <2>1 DEF Remapping, RoleEntry
    <3> QED BY <2>2, <3>4, <3>5, TargetsAre
  <2> QED BY <2>2, <2>5, <2>6
<1>5. ASSUME J = {}
      PROVE  /\ \A t \in RoleTargets(mods, cli, r) : t \in Targets(b, r) \/ SelfMaps(cli, r)
             /\ Targets(b, r) # {} => RoleTargets(mods, cli, r) # {}
  <2>1. RoleTargets(mods, cli, r) = Targets(mods, r)
    BY <1>5 DEF RoleTargets, Override
  <2>2. ASSUME NEW n \in froms, FromConfigStr[n] = r
        PROVE  SelfMaps(cli, r) /\ FromConfigStr[b[n]] = r
    <3>1. PICK j \in I : cli[j].from = n /\ b[n] = cli[j].to
      BY <1>1 DEF LastFrom
    <3> QED BY <1>5, <2>2, <3>1 DEF Remapping, SelfMaps
  <2>3. ASSUME NEW t \in Targets(mods, r) PROVE t \in Targets(b, r) \/ SelfMaps(cli, r)
    <3>1. PICK n \in DOMAIN mods : Remapping([from |-> n, to |-> mods[n]], r)
                                   /\ t = FromConfigStr[mods[n]]
      BY <2>3, TargetsAre
    <3>2. FromConfigStr[n] = r
      BY <3>1 DEF Remapping
    <3>3. CASE n \notin froms
      BY <1>1, <3>1, <3>3, TargetsAre
    <3> QED BY <2>2, <3>2, <3>3
  <2>4. ASSUME NEW t \in Targets(b, r) PROVE Targets(mods, r) # {}
    <3>1. PICK n \in DOMAIN b : Remapping([from |-> n, to |-> b[n]], r)
      BY <2>4, TargetsAre
    <3>2. FromConfigStr[n] = r /\ FromConfigStr[b[n]] # r
      BY <3>1 DEF Remapping
    <3>3. n \in DOMAIN mods /\ b[n] = mods[n]
      BY <1>1, <2>2, <3>2
    <3> QED BY <3>1, <3>3, TargetsAre
  <2> QED BY <2>1, <2>3, <2>4
<1> QED BY <1>4, <1>5

ValidKeys(table) ==
  [n \in {x \in DOMAIN table : KeyEntry([from |-> x, to |-> table[x]])} |-> table[n]]
KeyPlaces(cli) == {i \in DOMAIN cli : KeyEntry(cli[i])}
OtherPlaces(cli) == DOMAIN cli \ {i \in DOMAIN cli : RoleEntry(cli[i])}

KeyAgrees(cli, k, now, shown) ==
  /\ k \in DOMAIN now => \/ k \in DOMAIN shown /\ now[k] = shown[k]
                         \/ \E i \in DOMAIN cli : cli[i].from = k /\ ~KeyEntry(cli[i])
  /\ k \in DOMAIN shown /\ shown[k] \in KeyNames => k \in DOMAIN now /\ now[k] = shown[k]

\* A key is mapped as it is shown, unless --remap maps it to what is none.
LEMMA KeysAgree ==
  ASSUME NEW table, NEW cli \in Seq([from : Names, to : Names]), NEW k \in KeyNames
  PROVE  KeyAgrees(cli, k, Inserted(ValidKeys(table), cli, KeyPlaces(cli)),
                   Inserted(table, cli, OtherPlaces(cli)))
<1> DEFINE a == Inserted(ValidKeys(table), cli, KeyPlaces(cli))
           b == Inserted(table, cli, OtherPlaces(cli))
           valid == ValidKeys(table)
           I == KeyPlaces(cli)
           J == OtherPlaces(cli)
           IK == {i \in I : cli[i].from = k}
           JK == {i \in J : cli[i].from = k}
<1>1. I \subseteq J /\ IK \subseteq JK
  BY ConfigurationAssumption DEF KeyEntry, RoleEntry, KeyPlaces, OtherPlaces
<1>2. /\ DOMAIN valid = {x \in DOMAIN table : KeyEntry([from |-> x, to |-> table[x]])}
      /\ \A n \in DOMAIN valid : valid[n] = table[n]
  BY DEF ValidKeys
<1>3. /\ k \in DOMAIN a <=> k \in DOMAIN valid \/ IK # {}
      /\ IK # {} => a[k] = cli[Max(IK)].to
      /\ IK = {} /\ k \in DOMAIN valid => a[k] = valid[k]
  <2>1. a = Inserted(valid, cli, I)
    OBVIOUS
  <2>2. k \in {cli[i].from : i \in I} <=> IK # {}
    OBVIOUS
  <2>3. /\ DOMAIN a = DOMAIN valid \cup {cli[i].from : i \in I}
        /\ k \in DOMAIN a =>
             a[k] = IF k \in {cli[i].from : i \in I} THEN cli[Max(IK)].to ELSE valid[k]
    <3> HIDE DEF valid, I
    <3> QED BY <2>1 DEF Inserted
  <2> HIDE DEF valid, I, IK
  <2> QED BY <2>2, <2>3
<1>4. /\ k \in DOMAIN b <=> k \in DOMAIN table \/ JK # {}
      /\ JK # {} => b[k] = cli[Max(JK)].to
      /\ JK = {} /\ k \in DOMAIN table => b[k] = table[k]
  <2>1. b = Inserted(table, cli, J)
    OBVIOUS
  <2>2. k \in {cli[i].from : i \in J} <=> JK # {}
    OBVIOUS
  <2>3. /\ DOMAIN b = DOMAIN table \cup {cli[i].from : i \in J}
        /\ k \in DOMAIN b =>
             b[k] = IF k \in {cli[i].from : i \in J} THEN cli[Max(JK)].to ELSE table[k]
    <3> HIDE DEF J
    <3> QED BY <2>1 DEF Inserted
  <2> HIDE DEF J, JK
  <2> QED BY <2>2, <2>3
<1>5. k \in DOMAIN valid <=> k \in DOMAIN table /\ table[k] \in KeyNames
  BY <1>2 DEF KeyEntry
<1>6. ASSUME k \in DOMAIN a, \A i \in DOMAIN cli : cli[i].from = k => KeyEntry(cli[i])
      PROVE  k \in DOMAIN b /\ a[k] = b[k]
  <2>1. IK = JK
    BY <1>1, <1>6 DEF KeyPlaces, OtherPlaces
  <2> HIDE DEF IK, JK, valid
  <2> QED BY <1>2, <1>3, <1>4, <1>5, <1>6, <2>1
<1>7. ASSUME k \in DOMAIN b, b[k] \in KeyNames
      PROVE  k \in DOMAIN a /\ a[k] = b[k]
  <2>1. PICK n \in Nat : DOMAIN cli = 1..n
    OBVIOUS
  <2>2. JK \in SUBSET (1..n) /\ IK \in SUBSET (1..n)
    BY <2>1 DEF KeyPlaces, OtherPlaces
  <2>3. CASE JK # {}
    <3>1. Max(JK) \in JK /\ \A i \in JK : i <= Max(JK)
      <4> HIDE DEF JK
      <4> QED BY <2>2, <2>3, LastPlace
    <3>2. Max(JK) \in IK
      BY <1>4, <1>7, <3>1 DEF KeyEntry, KeyPlaces, OtherPlaces
    <3>3. Max(IK) \in IK /\ \A i \in IK : i <= Max(IK)
      <4> HIDE DEF IK, JK
      <4> QED BY <2>2, <3>2, LastPlace
    <3>4. Max(IK) = Max(JK)
      <4>1. Max(IK) \in Nat /\ Max(JK) \in Nat
        <5>1. IK \subseteq Nat /\ JK \subseteq Nat
          BY <2>2
        <5> HIDE DEF IK, JK
        <5> QED BY <3>1, <3>3, <5>1
      <4>2. Max(IK) <= Max(JK) /\ Max(JK) <= Max(IK)
        <5> HIDE DEF IK, JK
        <5> QED BY <1>1, <3>1, <3>2, <3>3
      <4> HIDE DEF IK, JK
      <4> QED BY <4>1, <4>2
    <3> QED BY <1>3, <1>4, <2>3, <3>2, <3>4
  <2>4. CASE JK = {}
    <3> HIDE DEF IK, JK, valid
    <3> QED BY <1>1, <1>2, <1>3, <1>4, <1>5, <1>7, <2>4
  <2> QED BY <2>3, <2>4
<1> QED BY <1>6, <1>7 DEF KeyAgrees

\* Both together, for what is parsed of and what is merged from the same table and entries.
LEMMA MergeAgrees ==
  ASSUME NEW m, args' \in Seq([from : Names, to : Names]),
         NEW cli \in Seq([from : Names, to : Names]), cli = args' \/ cli = <<>>,
         remap' = Merged(m, cli), applied' \in KeyRemapConfigs(m, cli)
  PROVE  ShownIsApplied'
<1>1. ASSUME NEW r \in Roles
      PROVE  LET shown == Targets(remap'.modifiers, r)
                 now == applied'.modifier_remap
             IN /\ r \in DOMAIN now => now[r] \in shown \/ SelfMaps(cli, r)
                /\ shown # {} => r \in DOMAIN now
  <2> DEFINE b == remap'.modifiers
             now == applied'.modifier_remap
             roles == {x \in Roles : RoleTargets(m.modifiers, cli, x) # {}}
  <2>1. b = Inserted(m.modifiers, cli, {i \in DOMAIN cli : RoleEntry(cli[i])})
    BY DEF Merged
  <2>2. now \in {f \in [roles -> Roles] : \A x \in roles : f[x] \in RoleTargets(m.modifiers, cli, x)}
    BY DEF KeyRemapConfigs
  <2>3. /\ \A t \in RoleTargets(m.modifiers, cli, r) : t \in Targets(b, r) \/ SelfMaps(cli, r)
        /\ Targets(b, r) # {} => RoleTargets(m.modifiers, cli, r) # {}
    BY <2>1, RolesAgree
  <2> QED BY <2>2, <2>3
<1>2. ASSUME NEW k \in KeyNames
      PROVE  LET shown == remap'.keys
                 now == applied'.key_remap
                 same == k \in DOMAIN now /\ k \in DOMAIN shown /\ now[k] = shown[k]
             IN /\ k \in DOMAIN now =>
                     same \/ \E i \in DOMAIN cli : cli[i].from = k /\ ~KeyEntry(cli[i])
                /\ k \in DOMAIN shown /\ shown[k] \in KeyNames =>
                     same \/ k \in KeysOf(DOMAIN applied'.modifier_remap)
  <2> DEFINE shown == remap'.keys
             now == applied'.key_remap
             keys == Inserted(ValidKeys(m.keys), cli, KeyPlaces(cli))
             taken == KeysOf(DOMAIN applied'.modifier_remap)
  <2>1. shown = Inserted(m.keys, cli, OtherPlaces(cli))
    BY DEF Merged, OtherPlaces
  <2>2. now = [n \in DOMAIN keys \ taken |-> keys[n]]
    BY DEF KeyRemapConfigs, ValidKeys, KeyPlaces
  <2> HIDE DEF shown, now, keys, taken
  <2>3. KeyAgrees(cli, k, keys, shown)
    BY <2>1, KeysAgree DEF keys
  <2>4. /\ k \in DOMAIN now <=> k \in DOMAIN keys /\ k \notin taken
        /\ k \in DOMAIN now => now[k] = keys[k]
    BY <2>2
  <2> QED BY <2>3, <2>4 DEF shown, now, taken, KeyAgrees
<1>3. \A r \in Roles : SelfMaps(cli, r) => SelfMapped(r)'
  BY DEF SelfMaps, SelfMapped
<1>4. \A k \in KeyNames : (\E i \in DOMAIN cli : cli[i].from = k /\ ~KeyEntry(cli[i])) => Refused(k)'
  BY DEF Refused
<1> QED BY <1>1, <1>2, <1>3, <1>4 DEF ShownIsApplied

\* Without --remap, a table is shown as it is.
LEMMA MergeNothing ==
  ASSUME NEW table, NEW I, I \subseteq {}, table = [n \in DOMAIN table |-> table[n]]
  PROVE  Inserted(table, <<>>, I) = table
BY DEF Inserted

\* An empty table maps no role.
LEMMA NoTargets == \A r : Targets(<<>>, r) = {}
BY DEF Targets, Entries

\* Nothing is in effect and nothing is shown of a file that cannot be read.
LEMMA NothingAgrees ==
  ASSUME remap' = NoRemap, applied' = NothingApplied
  PROVE  ShownIsApplied'
BY NoTargets DEF NoRemap, NothingApplied, ShownIsApplied

\* Wherever the mapping in effect came from, the start, a reload or a frontend, it is the
\* one frontends are shown, but for names that are refused, keys that follow their role,
\* and what a --remap without effect hides.
THEOREM ShownApplied == ConfigSpec => []ShownIsApplied
<1> DEFINE Inv == ShownIsApplied /\ args \in Seq([from : Names, to : Names])
<1>1. ConfigInit => Inv
  BY NoTargets DEF ConfigInit, ShownIsApplied, NoRemap, NothingApplied
<1>2. ASSUME Inv, [ConfigNext]_configVars
      PROVE  Inv'
  <2> USE DEF serviceVars
  <2>1. CASE UNCHANGED <<remap, applied, args>>
    BY <1>2, <2>1 DEF ShownIsApplied, SelfMapped, Refused
  <2>2. CASE Restart
    <3>1. PICK cli \in CliRemaps : Start(cli)
      BY <2>2 DEF Restart
    <3>2. cli \in Seq([from : Names, to : Names])
      BY ConfigurationAssumption
    <3> QED BY <3>1, <3>2, MergeAgrees DEF Start
  <2>3. CASE Crash \/ Written \/ TimePasses \/ Edit
    BY <2>1, <2>3 DEF Crash, Written, TimePasses, Edit
  <2>4. CASE Request
    <3>1. ASSUME NEW C, NEW K, Save(C, K) PROVE UNCHANGED <<remap, applied, args>>
      BY <3>1 DEF Save
    <3> QED BY <2>1, <2>4, <3>1 DEF Request, CreateClient, DeleteClient, AuthorizeKey,
                                    RemoveAuthorizedKey, SaveConfiguration
  <2>5. ASSUME NEW m \in Remaps, SetKeyRemap(m) PROVE Inv'
    <3>1. /\ remap' = m /\ args' = args
          /\ applied' \in KeyRemapConfigs(m, <<>>)
      BY <2>5 DEF SetKeyRemap
    <3>2. Merged(m, <<>>) = m
      BY <2>5, ConfigurationAssumption, MergeNothing DEF Merged
    <3>3. remap' = Merged(m, <<>>) /\ <<>> \in Seq([from : Names, to : Names])
      BY <3>1, <3>2
    <3> QED BY <1>2, <3>1, <3>3, MergeAgrees
  <2>6. CASE ConfigChange
    <3>1. args' = args /\ (Reload \/ UNCHANGED <<remap, applied>>)
      BY <2>6 DEF ConfigChange
    <3>2. CASE Reload
      BY <1>2, <3>1, <3>2, MergeAgrees, NothingAgrees DEF Reload
    <3> QED BY <2>1, <3>1, <3>2
  <2>7. CASE UNCHANGED configVars
    BY <2>1, <2>7 DEF configVars
  <2> QED BY <1>2, <2>2, <2>3, <2>4, <2>5, <2>6, <2>7 DEF ConfigNext
<1> QED BY <1>1, <1>2, PTL DEF ConfigSpec

------------------------------------------------------------------------------
\* What toml says of clients and keys is what the service has; none of either are not
\* written down.
Keeps(toml) ==
  /\ clients = toml.clients \/ clients = {}
  /\ authorized_keys = toml.authorized_fingerprints \/ authorized_keys = {}

SavedType ==
  /\ disk \in Toml \cup {Unreadable}
  /\ config_toml \in Toml \cup {None}
  /\ clients \in SUBSET FileClients
  /\ authorized_keys \in SUBSET FileKeys

\* A complete save is what the service had, until it changes that, which it does only
\* along with the next save; what is being written is what it has.
SavedInv ==
  /\ SavedType
  /\ own => phase # "writing" /\ disk \in Toml
  /\ own /\ phase # "panicked" => Keeps(disk)
  /\ phase = "writing" => Keeps(OrEmpty(config_toml))

\* An empty file is a configuration; none, or one that cannot be read, is not.
LEMMA EmptyToml == Empty \in Toml /\ None \notin Toml /\ Unreadable \notin Toml
BY ConfigurationAssumption DEF Empty, Toml

\* What a save makes of the configuration, and that it keeps what it is given.
LEMMA SetBoth ==
  ASSUME NEW toml \in Toml \cup {None}, NEW C \in SUBSET FileClients, NEW K \in SUBSET FileKeys,
         NEW t, t = SetClients(toml, C)
  PROVE  /\ t \in Toml \cup {None}
         /\ ~NoConfig(t, K) =>
              LET u == SetAuthorizedKeys(t, K)
              IN /\ u \in Toml \cup {None}
                 /\ C = OrEmpty(u).clients \/ C = {}
                 /\ K = OrEmpty(u).authorized_fingerprints \/ K = {}
<1> DEFINE u == SetAuthorizedKeys(t, K)
<1>1. OrEmpty(toml) \in Toml
  BY EmptyToml DEF OrEmpty
<1>2. t \in Toml \cup {None} /\ (t.clients = C \/ C = {}) /\ (C # {} => t \in Toml)
  BY <1>1 DEF SetClients, Toml
<1>3. ASSUME ~NoConfig(t, K), K = {}
      PROVE  u \in Toml \cup {None} /\ (C = OrEmpty(u).clients \/ C = {})
  BY <1>2, <1>3, EmptyToml DEF SetAuthorizedKeys, OrEmpty
<1>4. ASSUME ~NoConfig(t, K), K # {}
      PROVE  /\ u \in Toml
             /\ C = OrEmpty(u).clients \/ C = {}
             /\ K = OrEmpty(u).authorized_fingerprints
  <2>1. t \in Toml
    BY <1>2, <1>4 DEF NoConfig
  <2>2. u \in Toml /\ u.clients = t.clients /\ u.authorized_fingerprints = K
    BY <2>1, <1>4 DEF SetAuthorizedKeys, Toml
  <2> QED BY <1>2, <2>2, EmptyToml DEF OrEmpty
<1> QED BY <1>2, <1>3, <1>4

\* A save leaves the file empty and keeps what it was given, to be written.
LEMMA SaveKeeps ==
  ASSUME SavedInv, phase = "running",
         NEW C \in SUBSET FileClients, NEW K \in SUBSET FileKeys, Save(C, K)
  PROVE  SavedInv'
<1> DEFINE t == SetClients(config_toml, C)
           u == SetAuthorizedKeys(t, K)
<1>1. clients' = C /\ authorized_keys' = K /\ config_toml \in Toml \cup {None}
  BY DEF Save, SavedInv, SavedType
<1>2. t \in Toml \cup {None}
  BY <1>1, SetBoth
<1>3. CASE NoConfig(t, K) /\ phase' = "panicked" /\ UNCHANGED <<disk, own>> /\ config_toml' = t
  BY <1>1, <1>2, <1>3 DEF SavedInv, SavedType
<1>4. ASSUME ~NoConfig(t, K)
      PROVE  /\ u \in Toml \cup {None}
             /\ C = OrEmpty(u).clients \/ C = {}
             /\ K = OrEmpty(u).authorized_fingerprints \/ K = {}
  BY <1>1, <1>4, SetBoth
<1>5. CASE ~NoConfig(t, K) /\ config_toml' = u /\ disk' \in {Empty, disk} /\ own' = FALSE
  <2>1. SavedType'
    BY <1>1, <1>4, <1>5, EmptyToml DEF SavedInv, SavedType
  <2>2. Keeps(OrEmpty(config_toml))'
    BY <1>1, <1>4, <1>5 DEF Keeps, OrEmpty
  <2> QED BY <1>5, <2>1, <2>2 DEF SavedInv
<1> QED BY <1>3, <1>5 DEF Save

\* At a start from a complete save nothing is lost but what was not written down.
LEMMA StartKeeps ==
  ASSUME SavedInv, NEW cli, Start(cli), UNCHANGED fileVars
  PROVE  SavedInv' /\ (own => clients' = disk.clients
                              /\ authorized_keys' = disk.authorized_fingerprints)
<1>1. Loaded \in Toml \cup {None} /\ OrEmpty(Loaded) \in Toml
  BY EmptyToml DEF SavedInv, SavedType, Loaded, OrEmpty
<1>2. own => OrEmpty(Loaded) = disk
  BY EmptyToml DEF SavedInv, Loaded, OrEmpty
<1>3. SavedType'
  <2>1. OrEmpty(Loaded).clients \in SUBSET FileClients
        /\ OrEmpty(Loaded).authorized_fingerprints \in SUBSET FileKeys
    BY <1>1 DEF Toml
  <2> QED BY <1>1, <2>1 DEF Start, SavedInv, SavedType, fileVars
<1>4. own => clients' = disk.clients /\ authorized_keys' = disk.authorized_fingerprints
  BY <1>2 DEF Start
<1> QED BY <1>3, <1>4 DEF Start, SavedInv, Keeps, fileVars

\* Every step keeps what is known of the last save.
LEMMA SavedStep == SavedInv /\ [ConfigNext]_configVars => SavedInv'
<1> SUFFICES ASSUME SavedInv, [ConfigNext]_configVars
             PROVE  SavedInv'
  OBVIOUS
<1>1. CASE Restart
  BY <1>1, StartKeeps DEF Restart
<1>2. CASE Crash
  BY <1>2 DEF Crash, fileVars, serviceVars, SavedInv, SavedType, Keeps
<1>3. CASE Request
  BY <1>3, SaveKeeps DEF Request, CreateClient, DeleteClient, AuthorizeKey,
     RemoveAuthorizedKey, SaveConfiguration, SavedInv, SavedType
<1>4. CASE Written
  <2>1. SavedType'
    BY <1>4, EmptyToml DEF Written, serviceVars, SavedInv, SavedType, OrEmpty
  <2>2. own' => disk' \in Toml /\ Keeps(disk)'
    BY <1>4, EmptyToml DEF Written, serviceVars, SavedInv, SavedType, OrEmpty, Keeps
  <2> QED BY <1>4, <2>1, <2>2 DEF Written, SavedInv
<1>5. ASSUME NEW m \in Remaps, SetKeyRemap(m) PROVE SavedInv'
  <2>1. OrEmpty(config_toml) \in Toml
    BY EmptyToml DEF SavedInv, SavedType, OrEmpty
  <2>2. config_toml' \in Toml
    BY <1>5, <2>1 DEF SetKeyRemap, Toml
  <2> QED BY <1>5, <2>2 DEF SetKeyRemap, fileVars, SavedInv, SavedType, Keeps
<1>6. CASE ConfigChange \/ TimePasses \/ UNCHANGED configVars
  BY <1>6 DEF ConfigChange, TimePasses, configVars, fileVars, serviceVars,
     SavedInv, SavedType, Keeps, OrEmpty
<1>7. CASE Edit
  BY <1>7 DEF Edit, serviceVars, SavedInv, SavedType, Keeps, OrEmpty
<1> QED BY <1>1, <1>2, <1>3, <1>4, <1>5, <1>6, <1>7 DEF ConfigNext

\* A start from a file that a save has completed and no one has touched since brings
\* back the clients and keys there were, whenever the service went down.
THEOREM RestartKept == ConfigSpec => RestartKeeps
<1> DEFINE Kept == phase = "down" /\ phase' = "running" /\ own =>
                     /\ clients' = clients \/ clients = {}
                     /\ authorized_keys' = authorized_keys \/ authorized_keys = {}
<1>1. ConfigInit => SavedInv
  BY DEF ConfigInit, SavedInv, SavedType
<1>2. SavedInv /\ [ConfigNext]_configVars => [Kept]_configVars
  <2> SUFFICES ASSUME SavedInv, ConfigNext, phase = "down", phase' = "running", own
               PROVE  Kept
    OBVIOUS
  <2>1. Restart
    BY DEF ConfigNext, Crash, Request, Written, SetKeyRemap, ConfigChange, TimePasses, Edit
  <2>2. clients' = disk.clients /\ authorized_keys' = disk.authorized_fingerprints
    BY <2>1, StartKeeps DEF Restart
  <2> QED BY <2>2 DEF SavedInv, Keeps
<1> QED BY <1>1, <1>2, SavedStep, PTL DEF ConfigSpec, RestartKeeps
==============================================================================
