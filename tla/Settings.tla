------------------------------- MODULE Settings -------------------------------
(***************************************************************************)
(* The configuration of the rules: the golangci-lint plugin                *)
(* (plugin/plugin.go), the constructors of the configurable rules and the  *)
(* flags of their instances (internal/pathmatch, List.Set).                *)
(*                                                                         *)
(* A list of package patterns is a Go slice: a window on an array that     *)
(* several slices may share.  memory holds the arrays; a slice is an array *)
(* and a length, and its capacity is the length of the array.              *)
(***************************************************************************)
EXTENDS Integers, Sequences, FiniteSets, SequencesExt

CONSTANTS
  Registry,   (* antislop.Analyzers(): the rules, in order                 *)
  OptIn,      (* optInRules                                                *)
  Key,        (* the settings that hold lists of package patterns          *)
  ReadBy,     (* ReadBy[rule]: the keys the constructor of the rule takes  *)
  Pattern,
  Plugin,     (* the plugin values, one for each golangci-lint run         *)
  Blocks,     (* the settings blocks that configuration files may hold     *)
  Values,     (* what one occurrence of a flag may add                     *)
  None,       (* no settings, no result                                    *)
  MaxList,    (* bound on the patterns of a list of the settings           *)
  DecodedCap, (* DecodedCap[n]: the capacity of a list of n, decoded       *)
  MaxBuilds,  (* bound on the calls of BuildAnalyzers for one plugin       *)
  MaxSets     (* bound on the flags that are set                           *)

Rule == Range(Registry)
Configurable == {r \in Rule : ReadBy[r] # {}}

ASSUME SettingsAssumption ==
  /\ Registry \in Seq(Rule) /\ IsInjective(Registry)
  /\ OptIn \subseteq Rule /\ ReadBy \in [Rule -> SUBSET Key] /\ IsFiniteSet(Key)
  /\ \A b \in Blocks : /\ b.lists \in [Key -> Seq(Pattern)]
                       /\ \A k \in Key : Len(b.lists[k]) <= MaxList
  /\ Values \subseteq Seq(Pattern) \ {<<>>}
  /\ MaxList \in Nat /\ DecodedCap \in [0..MaxList -> Nat]
  /\ \A n \in 0..MaxList : DecodedCap[n] >= n
  /\ "module" \notin Plugin
  /\ MaxBuilds \in Nat /\ MaxSets \in Nat

(* None is none of the errors.                                             *)
ASSUME NoneAssumption ==
  None \notin {"enable: unknown rule", "enable: on by default", "disable: unknown rule"}

VARIABLES
  memory,     (* the arrays of the program, in order of allocation         *)
  cells,      (* cells[c]: the config value c, the lists of one instance   *)
  analyzers,  (* analyzers[h]: the config values of the analyzers h holds  *)
  settings,   (* settings[p]: what the plugin p decoded                    *)
  results,    (* results[p]: what each call of BuildAnalyzers returned     *)
  sets,       (* bound: the flags set so far                               *)
  given       (* history: the patterns that each holder gave its analyzers *)

settingsVars == <<memory, cells, analyzers, settings, results, sets, given>>

Nil == [array |-> 0, len |-> 0]

(* A holder has an analyzer: the module itself, or a call of a plugin.     *)
Module == <<"module", 1>>
Holder == {Module} \cup (Plugin \X (1..MaxBuilds))

(* A config value is known by the holder that had it made, and the rule.   *)
Cell == Holder \X Rule
-------------------------------------------------------------------------------
(* Slices.                                                                 *)

Contents(mem, s) == IF s.array = 0 THEN <<>> ELSE SubSeq(mem[s.array], 1, s.len)

Cap(mem, s) == IF s.array = 0 THEN 0 ELSE Len(mem[s.array])

Blank == [array |-> 0]
Filled(seq, cap) == seq \o [i \in 1..(cap - Len(seq)) |-> Blank]

GrownCap(old, need) == IF need > 2 * old THEN need ELSE 2 * old

(* append(s, new...): in place while the array has room, else in another.  *)
AppendTo(mem, s, new) ==
  LET n == s.len + Len(new) IN
  IF n <= Cap(mem, s)
  THEN [mem   |-> [mem EXCEPT ![s.array] =
                     [i \in 1..Len(@) |-> IF i \in (s.len + 1)..n THEN new[i - s.len] ELSE @[i]]],
        slice |-> [array |-> s.array, len |-> n]]
  ELSE [mem   |-> Append(mem, Filled(Contents(mem, s) \o new, GrownCap(Cap(mem, s), n))),
        slice |-> [array |-> Len(mem) + 1, len |-> n]]

(* encoding/json gives each list of a block an array of its own.           *)
Decode(mem, lists) ==
  LET keys == SetToSeq(Key) IN
  [mem   |-> mem \o [i \in 1..Len(keys) |-> Filled(lists[keys[i]], DecodedCap[Len(lists[keys[i]])])],
   lists |-> [k \in Key |-> [array |-> Len(mem) + CHOOSE i \in 1..Len(keys) : keys[i] = k,
                             len   |-> Len(lists[k])]]]
-------------------------------------------------------------------------------
(* The plugin.                                                             *)

Error(kind) == [error |-> kind, rules |-> <<>>]

(* The loop over the rules, in order, that keeps those of a set.           *)
Chosen(wanted) ==
  LET out[n \in 0..Len(Registry)] ==
        IF n = 0 THEN <<>>
        ELSE IF Registry[n] \in wanted THEN Append(out[n - 1], Registry[n]) ELSE out[n - 1] IN
  out[Len(Registry)]

(* Mutant: enable is read before disable.                                  *)
EnableWins(s) == Chosen(Range(s.enable) \cup ((Rule \ OptIn) \ Range(s.disable)))

Kept(s) == Chosen({r \in Rule : /\ r \notin Range(s.disable)
                                /\ r \in OptIn => r \in Range(s.enable)})

SelectAnalyzers(s) ==
  IF ~(Range(s.enable) \subseteq Rule) THEN Error("enable: unknown rule")
  ELSE IF ~(Range(s.enable) \subseteq OptIn) THEN Error("enable: on by default")
  ELSE IF ~(Range(s.disable) \subseteq Rule) THEN Error("disable: unknown rule")
  ELSE [error |-> None, rules |-> Kept(s)]

(* Mutant: the settings go into the analyzer values of the module.         *)
ConfiguredInPlace(h, s) ==
  [cells |-> [c \in Cell |-> [k \in Key |->
                IF c[1] = Module /\ c[2] \in Configurable THEN s.lists[k] ELSE cells[c][k]]],
   made  |-> analyzers[Module]]

(* configured(): a rule that reads a setting gets a new instance, which    *)
(* takes the slices of the settings as they are; the others keep theirs.   *)
Configured(h, s) ==
  [cells |-> [c \in Cell |-> [k \in Key |->
                IF c[1] = h /\ k \in ReadBy[c[2]] THEN s.lists[k] ELSE cells[c][k]]],
   made  |-> [r \in Rule |-> IF r \in Configurable THEN <<h, r>> ELSE analyzers[Module][r]]]

(* New: the settings block of a configuration file is decoded.             *)
New(p, block) ==
  /\ settings[p] = None
  /\ LET decoded == Decode(memory, block.lists) IN
     /\ memory' = decoded.mem
     /\ settings' = [settings EXCEPT ![p] = [lists   |-> decoded.lists,
                                             enable  |-> block.enable,
                                             disable |-> block.disable]]
  /\ UNCHANGED <<cells, analyzers, results, sets, given>>

BuildAnalyzers(p) ==
  /\ settings[p] # None
  /\ Len(results[p]) < MaxBuilds
  /\ LET h == <<p, Len(results[p]) + 1>>
         built == Configured(h, settings[p]) IN
     /\ cells' = built.cells
     /\ analyzers' = [analyzers EXCEPT ![h] = built.made]
     /\ given' = [given EXCEPT ![h] =
                    [r \in Rule |-> [k \in Key |->
                       IF k \in ReadBy[r] THEN Contents(memory, settings[p].lists[k]) ELSE <<>>]]]
     /\ results' = [results EXCEPT ![p] = Append(@, SelectAnalyzers(settings[p]))]
  /\ UNCHANGED <<memory, settings, sets>>

(* The holder h can reach the analyzer of the rule r.                      *)
Reaches(h, r) ==
  \/ h = Module
  \/ /\ h[1] \in Plugin /\ h[2] <= Len(results[h[1]])
     /\ r \in Range(results[h[1]][h[2]].rules)

(* a.Flags.Set on the list k of an instance: List.Set appends.             *)
SetFlag(h, r, k, value) ==
  /\ sets < MaxSets
  /\ Reaches(h, r) /\ k \in ReadBy[r]
  /\ LET c == analyzers[h][r]
         appended == AppendTo(memory, cells[c][k], value) IN
     /\ memory' = appended.mem
     /\ cells' = [cells EXCEPT ![c][k] = appended.slice]
  /\ given' = [given EXCEPT ![h][r][k] = @ \o value]
  /\ sets' = sets + 1
  /\ UNCHANGED <<analyzers, settings, results>>

SettingsInit ==
  /\ memory = <<>>
  /\ cells = [c \in Cell |-> [k \in Key |-> Nil]]
  /\ analyzers = [h \in Holder |-> [r \in Rule |-> <<Module, r>>]]
  /\ settings = [p \in Plugin |-> None]
  /\ results = [p \in Plugin |-> <<>>]
  /\ sets = 0
  /\ given = [h \in Holder |-> [r \in Rule |-> [k \in Key |-> <<>>]]]

SettingsNext ==
  \/ \E p \in Plugin, block \in Blocks : New(p, block)
  \/ \E p \in Plugin : BuildAnalyzers(p)
  \/ \E h \in Holder, r \in Rule, k \in Key, value \in Values : SetFlag(h, r, k, value)

SettingsSpec == SettingsInit /\ [][SettingsNext]_settingsVars
-------------------------------------------------------------------------------
(* The list that the flags of h for the rule r and the key k go behind.    *)
Home(h, k) == IF h = Module THEN Nil ELSE settings[h[1]].lists[k]

(* The holder h set the flag for the key k on its analyzer of the rule r.  *)
Flagged(h, r, k) == k \in ReadBy[r] /\ Len(given[h][r][k]) > Home(h, k).len

(* Flags of h and of another holder, or for another rule, went behind one  *)
(* list of the settings, in an array that had room for them.               *)
Contended(h, r, k) ==
  /\ h # Module /\ Home(h, k).len < Cap(memory, Home(h, k))
  /\ Flagged(h, r, k)
  /\ \E g \in Holder \ {Module}, q \in Rule :
       g[1] = h[1] /\ <<g, q>> # <<h, r>> /\ Flagged(g, q, k)

(* "Every instance carries its own configuration, so two callers never     *)
(* share one" (docs/spec/003-implementation.md), as far as the code goes:  *)
(* an analyzer reads the patterns of the settings it was built from and    *)
(* then those of the flags its own holder set, whatever other holders do   *)
(* in between; only where the array of the settings has room, and another  *)
(* instance of the same settings took a flag too, are the patterns of the  *)
(* flags in doubt, and never their number, nor what the settings say.      *)
Isolated ==
  \A h \in Holder, r \in Rule, k \in Key :
    Reaches(h, r) =>
      LET read == Contents(memory, cells[analyzers[h][r]][k])
          len == Home(h, k).len IN
      /\ Len(read) = Len(given[h][r][k])
      /\ k \in ReadBy[r] => SubSeq(read, 1, len) = SubSeq(given[h][r][k], 1, len)
      /\ read = given[h][r][k] \/ Contended(h, r, k)

(* A name that does nothing is an error: of the calls that return no       *)
(* error, an opt-in rule runs exactly where the block turns it on and does *)
(* not turn it off, every other rule where the block does not turn it off, *)
(* and the rules keep the order of the registry.                           *)
Selects ==
  \A p \in Plugin : \A i \in DOMAIN results[p] :
    LET got == results[p][i]
        on == Range(settings[p].enable)
        off == Range(settings[p].disable) IN
    IF on \subseteq OptIn /\ off \subseteq Rule
    THEN /\ got.error = None
         /\ Range(got.rules) = ((Rule \ OptIn) \cup on) \ off
         /\ \A j \in 1..(Len(got.rules) - 1) :
              \E m, n \in DOMAIN Registry :
                m < n /\ Registry[m] = got.rules[j] /\ Registry[n] = got.rules[j + 1]
    ELSE got.error # None /\ got.rules = <<>>
===============================================================================
