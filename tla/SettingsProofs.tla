--------------------------- MODULE SettingsProofs ---------------------------
(***************************************************************************)
(* Theorems about what administrators and the auto-pilot set: the settings *)
(* and their rows (Console), the modes and suggestions (AutoPilot), the    *)
(* overrides (Adaptive).                                                   *)
(***************************************************************************)
EXTENDS Console, AutoPilot, Adaptive, Lemmas, SequenceTheorems

(***************************************************************************)
(* Console.  What a start makes of rows is, field by field, the row where  *)
(* there is a positive one and the environment where there is none, or the *)
(* environment alone if the rows do not go with it.                        *)
(***************************************************************************)
LEMMA UsableByChecked ==
  ASSUME NEW c, NEW d, \A f \in Checked : c[f] = d[f]
  PROVE  Usable(c) <=> Usable(d)
<1>1. {"default", "max"} \subseteq Checked
  BY DEF Checked, Fields
<1>2. c["default"] = d["default"] /\ c["max"] = d["max"]
  BY <1>1
<1>3. QED
  BY <1>2 DEF Usable

LEMMA LoadedFields ==
  ASSUME NEW e, NEW t
  PROVE  /\ Accepts(e, SchedulerRows(t)) => Loaded(e, t) = Merge(e, t)
         /\ ~Accepts(e, SchedulerRows(t)) => \A f \in Checked : Loaded(e, t)[f] = e[f]
         /\ Loaded(e, t)["mh"] = Merge(e, t)["mh"]
         /\ DOMAIN Loaded(e, t) = Fields
         /\ \A f \in Checked : Merge(e, SchedulerRows(t))[f] = Merge(e, t)[f]
<1> DEFINE mh == Restrict(t, DOMAIN t \cap {"mh"})
<1>1. Checked \subseteq Fields /\ "mh" \in Fields /\ Fields = Checked \cup {"mh"} /\ "mh" \notin Checked
  BY DEF Checked, Fields
<1>2. \A c, p : \A f \in Fields : Merge(c, p)[f] = IF f \in DOMAIN p /\ p[f] > 0 THEN p[f] ELSE c[f]
  BY DEF Merge
<1>3. /\ \A f \in Checked : /\ f \in DOMAIN SchedulerRows(t) <=> f \in DOMAIN t
                            /\ f \in DOMAIN t => SchedulerRows(t)[f] = t[f]
                            /\ f \notin DOMAIN mh
      /\ "mh" \notin DOMAIN SchedulerRows(t)
      /\ "mh" \in DOMAIN mh <=> "mh" \in DOMAIN t
      /\ "mh" \in DOMAIN t => mh["mh"] = t["mh"]
  BY <1>1 DEF SchedulerRows, Restrict
<1>4. Loaded(e, t) = Merge(IF Accepts(e, SchedulerRows(t)) THEN Merge(e, SchedulerRows(t)) ELSE e, mh)
  BY DEF Loaded
<1> HIDE DEF mh
<1>5. \A f \in Checked : Merge(e, SchedulerRows(t))[f] = Merge(e, t)[f]
  BY <1>1, <1>2, <1>3
<1>6. ASSUME Accepts(e, SchedulerRows(t)) PROVE Loaded(e, t) = Merge(e, t)
  <2>1. Loaded(e, t) = Merge(Merge(e, SchedulerRows(t)), mh)
    BY <1>4, <1>6
  <2>2. \A f \in Checked : Merge(Merge(e, SchedulerRows(t)), mh)[f] = Merge(e, t)[f]
    BY <1>1, <1>2, <1>3, <1>5
  <2>3. Merge(Merge(e, SchedulerRows(t)), mh)["mh"] = Merge(e, t)["mh"]
    BY <1>1, <1>2, <1>3
  <2>4. QED
    BY <1>1, <2>1, <2>2, <2>3 DEF Merge
<1>7. ASSUME ~Accepts(e, SchedulerRows(t))
      PROVE  /\ \A f \in Checked : Loaded(e, t)[f] = e[f]
             /\ Loaded(e, t)["mh"] = Merge(e, t)["mh"]
  <2>1. Loaded(e, t) = Merge(e, mh)
    BY <1>4, <1>7
  <2>2. QED
    BY <1>1, <1>2, <1>3, <2>1
<1>8. DOMAIN Loaded(e, t) = Fields
  BY <1>4 DEF Merge
<1>9. QED
  BY <1>5, <1>6, <1>7, <1>8

LEMMA UsableIsPositive ==
  ASSUME NEW c, Usable(c)
  PROVE  /\ c["default"] > 0 /\ c["max"] >= c["default"]
         /\ \A f \in Checked : c[f] # 0
<1>1. "default" \in Checked
  BY DEF Checked, Fields
<1>2. \A f \in Checked : c[f] > 0
  BY DEF Usable
<1>3. \A f \in Checked : c[f] # 0
  BY <1>2
<1>4. QED
  BY <1>1, <1>2, <1>3 DEF Usable

(* Neither rows nor requests take the configuration out of what is usable  *)
(* (UpdateConfig, validate): a merged patch is refused as a whole.         *)
THEOREM ConfigurationStaysUsable == ConsoleSpec => []ConfigurationIsUsable
<1>1. ConsoleInit => ConfigurationIsUsable
  BY DEF ConsoleInit, ConfigurationIsUsable, Starts
<1>2. ConfigurationIsUsable /\ [ConsoleNext]_consoleVars => ConfigurationIsUsable'
  <2> SUFFICES ASSUME ConfigurationIsUsable, [ConsoleNext]_consoleVars
               PROVE  ConfigurationIsUsable'
    OBVIOUS
  <2>1. ASSUME NEW c, Accepts(config, c), config' = Merge(config, c)
        PROVE  ConfigurationIsUsable'
    <3>1. Usable(config')
      BY <2>1 DEF Accepts
    <3>2. QED
      BY <3>1, UsableIsPositive DEF ConfigurationIsUsable
  <2>2. ASSUME UNCHANGED <<env, config>> PROVE ConfigurationIsUsable'
    BY <2>2 DEF ConfigurationIsUsable
  <2>3. ASSUME NEW a \in Admins, NEW p \in Patches, PutSettings(a, p) PROVE ConfigurationIsUsable'
    BY <2>1, <2>3 DEF PutSettings
  <2>4. ASSUME NEW a \in Admins, NEW s \in DOMAIN Presets, PutStrategy(a, s)
        PROVE  ConfigurationIsUsable'
    BY <2>1, <2>2, <2>4 DEF PutStrategy
  <2>5. ASSUME NEW a \in Admins, WriteRow(a) \/ WriteFails(a) PROVE ConfigurationIsUsable'
    BY <2>2, <2>5 DEF WriteRow, WriteFails
  <2>6. ASSUME NEW e \in Environments, GatewayStarts(e) PROVE ConfigurationIsUsable'
    <3> PICK read \in SUBSET DOMAIN table : config' = Loaded(e, Restrict(table, read))
      BY <2>6 DEF GatewayStarts
    <3> DEFINE rows == Restrict(table, read)
    <3>1. Starts(e) /\ env' = e /\ config' = Loaded(e, rows)
      BY <2>6 DEF GatewayStarts
    <3>2. {"default", "max"} \subseteq Checked
      BY DEF Checked, Fields
    <3> HIDE DEF rows
    <3>3. CASE Accepts(e, SchedulerRows(rows))
      <4>1. Usable(Merge(e, SchedulerRows(rows))) /\ config' = Merge(e, rows)
        BY <3>1, <3>3, LoadedFields DEF Accepts
      <4>2. \A f \in Checked : Merge(e, SchedulerRows(rows))[f] = config'[f]
        BY <4>1, LoadedFields
      <4>3. Usable(config')
        BY <4>1, <4>2, UsableByChecked
      <4>4. QED
        BY <4>3, UsableIsPositive DEF ConfigurationIsUsable
    <3>4. CASE ~Accepts(e, SchedulerRows(rows))
      <4>1. \A f \in Checked : config'[f] = e[f]
        BY <3>1, <3>4, LoadedFields
      <4>2. QED
        BY <3>1, <3>2, <4>1 DEF ConfigurationIsUsable, Starts
    <3>5. QED
      BY <3>3, <3>4
  <2>7. CASE UNCHANGED consoleVars
    BY <2>2, <2>7 DEF consoleVars
  <2>8. QED
    BY <2>3, <2>4, <2>5, <2>6, <2>7 DEF ConsoleNext
<1>3. QED
  BY <1>1, <1>2, PTL DEF ConsoleSpec

(* Memory c, s is that of a process that starts in environment e with      *)
(* table t; where c is not usable, t has nothing to do with that.          *)
Reloading(c, s, e, t) ==
  /\ c = Merge(e, t) /\ s = LoadedStrategy(t)
  /\ Usable(c) \/ \A f \in DOMAIN t \cap Checked : ~(t[f] > 0)

(* As long as requests came one by one, memory is what a start would make  *)
(* of the table and the rows still to be written.                          *)
SavedInv ==
  /\ ConsoleTypeOK
  /\ faithful =>
       /\ \A a, b \in Admins : Idle(a) \/ Idle(b) \/ a = b
       /\ Quiet => Reloading(config, strategy, env, table)
       /\ \A a \in Admins : ~Idle(a) => Reloading(config, strategy, env, Over(table, put[a]))

SameRows(t, u) == DOMAIN t = DOMAIN u /\ \A f \in DOMAIN t : t[f] = u[f]

LEMMA FieldNames ==
  /\ Checked \subseteq Fields /\ Fields = Checked \cup {"mh"} /\ "strategy" \notin Fields
  /\ {"threshold", "cooldown"} \subseteq Fields
BY DEF Checked, Fields

LEMMA ReloadingSame ==
  ASSUME NEW c, NEW s, NEW e, NEW t, NEW u, Reloading(c, s, e, t), SameRows(t, u)
  PROVE  Reloading(c, s, e, u)
<1>1. Merge(e, t) = Merge(e, u)
  <2>1. \A f \in Fields : (IF f \in DOMAIN t /\ t[f] > 0 THEN t[f] ELSE e[f])
                          = (IF f \in DOMAIN u /\ u[f] > 0 THEN u[f] ELSE e[f])
    BY DEF SameRows
  <2>2. QED
    BY <2>1 DEF Merge
<1>2. LoadedStrategy(t) = LoadedStrategy(u)
  BY DEF SameRows, LoadedStrategy
<1>3. QED
  BY <1>1, <1>2 DEF Reloading, SameRows

(* What Loaded makes of rows that memory agrees with is that memory.       *)
LEMMA ReloadingLoads ==
  ASSUME NEW c, NEW s, NEW e \in [Fields -> Nat], NEW t, Reloading(c, s, e, t)
  PROVE  c = Loaded(e, t)
<1>1. c = Merge(e, t) /\ \A f \in Checked : Merge(e, SchedulerRows(t))[f] = c[f]
  BY LoadedFields DEF Reloading
<1>2. CASE Accepts(e, SchedulerRows(t))
  BY <1>1, <1>2, LoadedFields
<1>3. CASE ~Accepts(e, SchedulerRows(t))
  <2>1. ~Usable(c)
    BY <1>1, <1>3, UsableByChecked DEF Accepts
  <2>2. \A f \in Checked : c[f] = e[f]
    BY <1>1, <2>1, FieldNames DEF Reloading, Merge
  <2>3. /\ \A f \in Checked : Loaded(e, t)[f] = c[f]
        /\ Loaded(e, t)["mh"] = c["mh"]
        /\ DOMAIN Loaded(e, t) = Fields
    BY <1>1, <1>3, <2>2, LoadedFields
  <2>4. c = [f \in Fields |-> c[f]] /\ Loaded(e, t) = [f \in Fields |-> Loaded(e, t)[f]]
    BY <1>1 DEF Loaded, Merge
  <2>5. \A f \in Fields : Loaded(e, t)[f] = c[f]
    BY <2>3, FieldNames
  <2>6. QED
    BY <2>4, <2>5
<1>4. QED
  BY <1>2, <1>3

(* A start that takes its rows agrees with them.                           *)
LEMMA LoadedReloading ==
  ASSUME NEW e, NEW t, Accepts(e, SchedulerRows(t))
  PROVE  Reloading(Loaded(e, t), LoadedStrategy(t), e, t)
<1>1. Loaded(e, t) = Merge(e, t) /\ \A f \in Checked : Merge(e, SchedulerRows(t))[f] = Merge(e, t)[f]
  BY LoadedFields
<1>2. Usable(Merge(e, t))
  BY <1>1, UsableByChecked DEF Accepts
<1>3. QED
  BY <1>1, <1>2 DEF Reloading

(* A request whose values are all positive.                                *)
LEMMA ReloadingAfter ==
  ASSUME NEW c, NEW s, NEW e, NEW t, Reloading(c, s, e, t),
         NEW p, NEW rows, Accepts(c, p),
         \A f \in Fields : /\ f \in DOMAIN p <=> f \in DOMAIN rows
                           /\ f \in DOMAIN p => rows[f] = p[f] /\ p[f] > 0
  PROVE  Reloading(Merge(c, p), LoadedStrategy(Over(t, rows)), e, Over(t, rows))
<1>1. \A f \in Fields : Merge(c, p)[f] = IF f \in DOMAIN p /\ p[f] > 0 THEN p[f] ELSE c[f]
  BY DEF Merge
<1>2. \A f \in Fields : c[f] = IF f \in DOMAIN t /\ t[f] > 0 THEN t[f] ELSE e[f]
  BY DEF Reloading, Merge
<1>3. \A f : /\ f \in DOMAIN Over(t, rows) <=> f \in DOMAIN t \/ f \in DOMAIN rows
             /\ f \in DOMAIN rows => Over(t, rows)[f] = rows[f]
             /\ f \in DOMAIN t /\ f \notin DOMAIN rows => Over(t, rows)[f] = t[f]
  BY DEF Over
<1>4. \A f \in Fields :
        (IF f \in DOMAIN Over(t, rows) /\ Over(t, rows)[f] > 0 THEN Over(t, rows)[f] ELSE e[f])
        = Merge(c, p)[f]
  BY <1>1, <1>2, <1>3
<1>5. Merge(e, Over(t, rows)) = Merge(c, p)
  BY <1>4 DEF Merge
<1>6. Usable(Merge(c, p))
  BY DEF Accepts
<1>7. QED
  BY <1>5, <1>6 DEF Reloading

LEMMA RowsAreRows ==
  /\ AreRows(NoRows)
  /\ \A t, rows : AreRows(t) /\ AreRows(rows) => AreRows(Over(t, rows))
  /\ \A rows : \A S \in SUBSET DOMAIN rows : AreRows(rows) => AreRows(Restrict(rows, S))
  /\ \A p \in Patches : AreRows(Saved(p)) /\ \A f \in DOMAIN p : p[f] \in Nat
  /\ \A s \in DOMAIN Presets : AreRows(SavedStrategy(s))
<1>1. AreRows(NoRows)
  BY DEF NoRows, AreRows
<1>2. ASSUME NEW t, NEW rows, AreRows(t), AreRows(rows) PROVE AreRows(Over(t, rows))
  BY <1>2 DEF AreRows, Over
<1>3. ASSUME NEW rows, AreRows(rows), NEW S \in SUBSET DOMAIN rows PROVE AreRows(Restrict(rows, S))
  BY <1>3 DEF AreRows, Restrict
<1>4. ASSUME NEW p \in Patches PROVE AreRows(Saved(p)) /\ \A f \in DOMAIN p : p[f] \in Nat
  <2>1. DOMAIN p \subseteq Fields /\ \A f \in DOMAIN p : p[f] \in Nat
    BY ConsoleAssumption
  <2>2. QED
    BY <2>1, FieldNames DEF AreRows, Saved, Restrict
<1>5. ASSUME NEW s \in DOMAIN Presets PROVE AreRows(SavedStrategy(s))
  <2>1. Presets[s] \in [{"threshold", "cooldown"} -> Nat \ {0}]
    BY ConsoleAssumption
  <2>2. AreRows(Presets[s])
    BY <2>1, FieldNames DEF AreRows
  <2>3. AreRows([f \in {"strategy"} |-> s])
    BY DEF AreRows
  <2>4. QED
    BY <1>2, <2>2, <2>3 DEF SavedStrategy
<1>6. QED
  BY <1>1, <1>2, <1>3, <1>4, <1>5

LEMMA MergedIsNumbers ==
  ASSUME NEW c \in [Fields -> Nat], NEW p, \A f \in DOMAIN p \cap Fields : p[f] \in Nat
  PROVE  Merge(c, p) \in [Fields -> Nat]
BY DEF Merge

LEMMA LoadedIsNumbers ==
  ASSUME NEW e \in [Fields -> Nat], NEW t, AreRows(t)
  PROVE  Loaded(e, t) \in [Fields -> Nat] /\ LoadedStrategy(t) \in DOMAIN Presets
<1>1. \A f \in DOMAIN t \cap Fields : t[f] \in Nat
  BY FieldNames DEF AreRows
<1>2. Merge(e, SchedulerRows(t)) \in [Fields -> Nat]
  BY <1>1, MergedIsNumbers, FieldNames DEF SchedulerRows, Restrict
<1>3. Merge(IF Accepts(e, SchedulerRows(t)) THEN Merge(e, SchedulerRows(t)) ELSE e,
            Restrict(t, DOMAIN t \cap {"mh"})) \in [Fields -> Nat]
  BY <1>1, <1>2, MergedIsNumbers, FieldNames DEF Restrict
<1>4. LoadedStrategy(t) \in DOMAIN Presets
  BY ConsoleAssumption DEF LoadedStrategy, AreRows
<1>5. QED
  BY <1>3, <1>4 DEF Loaded

LEMMA ConsoleTypes ==
  ConsoleTypeOK => /\ env \in [Fields -> Nat] /\ config \in [Fields -> Nat]
                   /\ AreRows(table) /\ DOMAIN put = Admins
                   /\ \A a \in Admins : AreRows(put[a])
<1>1. \A e \in Environments : e \in [Fields -> Nat]
  BY ConsoleAssumption
<1>2. QED
  BY <1>1 DEF ConsoleTypeOK

(* Settings: a request that is counted as faithful writes what it merges.  *)
LEMMA PutSettingsStep ==
  ASSUME SavedInv, NEW a \in Admins, NEW p \in Patches, PutSettings(a, p)
  PROVE  SavedInv'
<1>1. /\ ConsoleTypeOK /\ Idle(a) /\ Accepts(config, p) /\ config' = Merge(config, p)
      /\ faithful' = (faithful /\ Quiet /\ \A f \in DOMAIN p : p[f] > 0)
      /\ UNCHANGED <<env, strategy, table>>
  BY DEF SavedInv, PutSettings
<1>2. /\ put' = [put EXCEPT ![a] = Saved(p)] /\ DOMAIN put = Admins
      /\ put'[a] = Saved(p) /\ \A b \in Admins : b # a => put'[b] = put[b]
  BY <1>1, ConsoleTypes DEF PutSettings
<1>3. ConsoleTypeOK'
  <2>1. config' \in [Fields -> Nat]
    BY <1>1, ConsoleTypes, MergedIsNumbers, RowsAreRows
  <2>2. DOMAIN put' = Admins /\ \A b \in Admins : AreRows(put'[b])
    BY <1>1, <1>2, ConsoleTypes, RowsAreRows
  <2>3. faithful' \in BOOLEAN
    BY <1>1
  <2>4. QED
    BY <1>1, <2>1, <2>2, <2>3 DEF ConsoleTypeOK
<1>4. ASSUME faithful'
      PROVE  /\ \A b, c \in Admins : Idle(b)' \/ Idle(c)' \/ b = c
             /\ Quiet' => Reloading(config, strategy, env, table)'
             /\ \A b \in Admins : ~Idle(b)' => Reloading(config', strategy', env', Over(table', put'[b]))
  <2>1. faithful /\ Quiet /\ (\A f \in DOMAIN p : p[f] > 0) /\ Reloading(config, strategy, env, table)
    BY <1>1, <1>4 DEF SavedInv
  <2>2. \A b \in Admins : b # a => Idle(b)'
    BY <1>2, <2>1 DEF Quiet, Idle
  <2>3. \A f \in Fields : /\ f \in DOMAIN p <=> f \in DOMAIN Saved(p)
                          /\ f \in DOMAIN p => Saved(p)[f] = p[f] /\ p[f] > 0
    BY <2>1 DEF Saved, Restrict
  <2>4. LoadedStrategy(Over(table, Saved(p))) = strategy
    <3>1. "strategy" \notin DOMAIN Saved(p)
      <4>1. DOMAIN p \subseteq Fields
        BY ConsoleAssumption
      <4>2. QED
        BY <4>1, FieldNames DEF Saved, Restrict
    <3>2. QED
      BY <2>1, <3>1 DEF Reloading, LoadedStrategy, Over
  <2>5. Reloading(config', strategy', env', Over(table', put'[a]))
    BY <1>1, <1>2, <2>1, <2>3, <2>4, ReloadingAfter
  <2>6. ASSUME Quiet' PROVE Reloading(config', strategy', env', table')
    <3>1. DOMAIN put'[a] = {}
      BY <2>6 DEF Quiet, Idle
    <3>2. SameRows(Over(table', put'[a]), table')
      BY <3>1 DEF SameRows, Over
    <3>3. QED
      BY <2>5, <3>2, ReloadingSame
  <2>7. QED
    BY <2>2, <2>5, <2>6
<1>5. QED
  BY <1>3, <1>4 DEF SavedInv

LEMMA PutStrategyStep ==
  ASSUME SavedInv, NEW a \in Admins, NEW s \in DOMAIN Presets, PutStrategy(a, s)
  PROVE  SavedInv'
<1>1. /\ ConsoleTypeOK /\ Idle(a) /\ strategy' = s /\ UNCHANGED <<env, table>>
      /\ Presets[s] \in [{"threshold", "cooldown"} -> Nat \ {0}]
  BY ConsoleAssumption DEF SavedInv, PutStrategy
<1>2. CASE ~Accepts(config, Presets[s])
  <2>1. faithful' = FALSE /\ UNCHANGED <<config, put>>
    BY <1>2 DEF PutStrategy
  <2>2. ConsoleTypeOK'
    BY <1>1, <2>1 DEF ConsoleTypeOK, AreRows
  <2>3. QED
    BY <2>1, <2>2 DEF SavedInv
<1>3. CASE Accepts(config, Presets[s])
  <2>1. /\ config' = Merge(config, Presets[s]) /\ faithful' = (faithful /\ Quiet)
        /\ put' = [put EXCEPT ![a] = SavedStrategy(s)] /\ DOMAIN put = Admins
        /\ put'[a] = SavedStrategy(s) /\ \A b \in Admins : b # a => put'[b] = put[b]
    BY <1>1, <1>3, ConsoleTypes DEF PutStrategy
  <2>2. ConsoleTypeOK'
    <3>1. config' \in [Fields -> Nat]
      BY <1>1, <2>1, ConsoleTypes, MergedIsNumbers
    <3>2. DOMAIN put' = Admins /\ \A b \in Admins : AreRows(put'[b])
      BY <1>1, <2>1, ConsoleTypes, RowsAreRows
    <3>3. faithful' \in BOOLEAN
      BY <2>1
    <3>4. QED
      BY <1>1, <3>1, <3>2, <3>3 DEF ConsoleTypeOK
  <2>3. ASSUME faithful'
        PROVE  /\ \A b, c \in Admins : Idle(b)' \/ Idle(c)' \/ b = c
               /\ ~Quiet'
               /\ \A b \in Admins : ~Idle(b)' => Reloading(config', strategy', env', Over(table', put'[b]))
    <3>1. faithful /\ Quiet /\ Reloading(config, strategy, env, table)
      BY <2>1, <2>3 DEF SavedInv
    <3>2. \A b \in Admins : b # a => Idle(b)'
      BY <2>1, <3>1 DEF Quiet, Idle
    <3>3. /\ DOMAIN SavedStrategy(s) = {"strategy", "threshold", "cooldown"}
          /\ \A f \in {"threshold", "cooldown"} : SavedStrategy(s)[f] = Presets[s][f]
          /\ SavedStrategy(s)["strategy"] = s
      BY <1>1 DEF SavedStrategy, Over
    <3>4. \A f \in Fields : /\ f \in DOMAIN Presets[s] <=> f \in DOMAIN SavedStrategy(s)
                            /\ f \in DOMAIN Presets[s] =>
                                 SavedStrategy(s)[f] = Presets[s][f] /\ Presets[s][f] > 0
      BY <1>1, <3>3, FieldNames
    <3>5. LoadedStrategy(Over(table, SavedStrategy(s))) = s
      BY <3>3 DEF LoadedStrategy, Over
    <3>6. Reloading(config', strategy', env', Over(table', put'[a]))
      BY <1>1, <1>3, <2>1, <3>1, <3>4, <3>5, ReloadingAfter
    <3>7. ~Quiet'
      BY <2>1, <3>3 DEF Quiet, Idle
    <3>8. QED
      BY <3>2, <3>6, <3>7
  <2>4. QED
    BY <2>2, <2>3 DEF SavedInv
<1>4. QED
  BY <1>2, <1>3

(* A row that is written is taken from one side of Over to the other.      *)
LEMMA WriteRowStep ==
  ASSUME SavedInv, NEW a \in Admins, WriteRow(a)
  PROVE  SavedInv'
<1>1. PICK f \in DOMAIN put[a] :
        /\ table' = Over(table, Restrict(put[a], {f}))
        /\ put' = [put EXCEPT ![a] = Restrict(put[a], DOMAIN put[a] \ {f})]
  BY DEF WriteRow
<1>2. ConsoleTypeOK /\ UNCHANGED <<env, config, strategy, faithful>>
  BY DEF SavedInv, WriteRow
<1>3. /\ DOMAIN put = Admins /\ put'[a] = Restrict(put[a], DOMAIN put[a] \ {f})
      /\ \A b \in Admins : b # a => put'[b] = put[b]
  BY <1>1, <1>2, ConsoleTypes
<1>4. ConsoleTypeOK'
  <2>1. AreRows(put[a]) /\ AreRows(table) /\ {f} \in SUBSET DOMAIN put[a]
        /\ DOMAIN put[a] \ {f} \in SUBSET DOMAIN put[a]
    BY <1>2, ConsoleTypes
  <2>2. AreRows(put'[a]) /\ AreRows(table')
    BY <1>1, <1>3, <2>1, RowsAreRows
  <2>3. DOMAIN put' = Admins /\ \A b \in Admins : AreRows(put'[b])
    BY <1>1, <1>2, <1>3, <2>2, ConsoleTypes
  <2>4. QED
    BY <1>2, <2>2, <2>3 DEF ConsoleTypeOK
<1>5. SameRows(Over(table, put[a]), Over(table', put'[a]))
  BY <1>1, <1>3 DEF SameRows, Over, Restrict
<1>6. ASSUME faithful'
      PROVE  /\ \A b, c \in Admins : Idle(b)' \/ Idle(c)' \/ b = c
             /\ Quiet' => Reloading(config, strategy, env, table)'
             /\ \A b \in Admins : ~Idle(b)' => Reloading(config', strategy', env', Over(table', put'[b]))
  <2>1. faithful /\ ~Idle(a)
    BY <1>2, <1>6 DEF Idle
  <2>2. \A b \in Admins : b # a => Idle(b)'
    BY <1>3, <2>1 DEF SavedInv, Idle
  <2>3. Reloading(config', strategy', env', Over(table', put'[a]))
    <3>1. Reloading(config, strategy, env, Over(table, put[a]))
      BY <2>1 DEF SavedInv
    <3>2. QED
      BY <1>2, <1>5, <3>1, ReloadingSame
  <2>4. ASSUME Quiet' PROVE Reloading(config', strategy', env', table')
    <3>1. DOMAIN put'[a] = {}
      BY <2>4 DEF Quiet, Idle
    <3>2. SameRows(Over(table', put'[a]), table')
      BY <3>1 DEF SameRows, Over
    <3>3. QED
      BY <2>3, <3>2, ReloadingSame
  <2>5. QED
    BY <2>2, <2>3, <2>4
<1>7. QED
  BY <1>4, <1>6 DEF SavedInv

LEMMA WriteFailsStep ==
  ASSUME SavedInv, NEW a \in Admins, WriteFails(a)
  PROVE  SavedInv'
<1>1. PICK f \in DOMAIN put[a] :
        put' \in {[put EXCEPT ![a] = NoRows],
                  [put EXCEPT ![a] = Restrict(put[a], DOMAIN put[a] \ {f})]}
  BY DEF WriteFails
<1>2. ConsoleTypeOK /\ faithful' = FALSE /\ UNCHANGED <<env, config, strategy, table>>
  BY DEF SavedInv, WriteFails
<1>3. AreRows(NoRows) /\ AreRows(Restrict(put[a], DOMAIN put[a] \ {f}))
  BY <1>2, ConsoleTypes, RowsAreRows
<1>4. DOMAIN put' = Admins /\ \A b \in Admins : AreRows(put'[b])
  BY <1>1, <1>2, <1>3, ConsoleTypes
<1>5. ConsoleTypeOK'
  BY <1>2, <1>4 DEF ConsoleTypeOK, AreRows
<1>6. QED
  BY <1>2, <1>5 DEF SavedInv

(* A start may miss rows, but then it does not count as faithful.          *)
LEMMA GatewayStartsStep ==
  ASSUME SavedInv, NEW e \in Environments, GatewayStarts(e)
  PROVE  SavedInv'
<1> PICK read \in SUBSET DOMAIN table :
      /\ config' = Loaded(e, Restrict(table, read))
      /\ strategy' = LoadedStrategy(Restrict(table, read))
      /\ faithful' = (read = DOMAIN table /\ Accepts(e, SchedulerRows(table)))
  BY DEF GatewayStarts
<1> DEFINE rows == Restrict(table, read)
<1>1. /\ ConsoleTypeOK /\ env' = e /\ table' = table
      /\ put' = [a \in Admins |-> NoRows]
  BY DEF SavedInv, GatewayStarts
<1>2. e \in [Fields -> Nat]
  BY ConsoleAssumption
<1>3. ConsoleTypeOK'
  <2>1. AreRows(rows)
    BY <1>1, ConsoleTypes, RowsAreRows
  <2>2. config' \in [Fields -> Nat] /\ strategy' \in DOMAIN Presets
    BY <1>2, <2>1, LoadedIsNumbers
  <2>3. DOMAIN put' = Admins /\ \A b \in Admins : AreRows(put'[b])
    BY <1>1, RowsAreRows
  <2>4. AreRows(table') /\ faithful' \in BOOLEAN
    BY <1>1, ConsoleTypes
  <2>5. QED
    BY <1>1, <2>2, <2>3, <2>4 DEF ConsoleTypeOK
<1>4. \A b \in Admins : Idle(b)'
  BY <1>1 DEF Idle, NoRows
<1>5. ASSUME faithful' PROVE Reloading(config', strategy', env', table')
  <2>1. read = DOMAIN table /\ Accepts(e, SchedulerRows(table))
    BY <1>5
  <2>2. SameRows(rows, table)
    BY <2>1 DEF SameRows, Restrict
  <2>3. SchedulerRows(rows) = SchedulerRows(table)
    BY <2>2 DEF SameRows, SchedulerRows, Restrict
  <2>4. Reloading(Loaded(e, rows), LoadedStrategy(rows), e, rows)
    BY <2>1, <2>3, LoadedReloading
  <2>5. Reloading(config', strategy', env', rows)
    BY <1>1, <2>4
  <2>6. QED
    BY <1>1, <2>2, <2>5, ReloadingSame
<1>6. QED
  BY <1>3, <1>4, <1>5 DEF SavedInv

LEMMA ConsoleInitially == ConsoleInit => SavedInv
<1> SUFFICES ASSUME ConsoleInit
             PROVE  SavedInv
  OBVIOUS
<1>1. env \in [Fields -> Nat] /\ env \in Environments
  BY ConsoleAssumption DEF ConsoleInit
<1>2. ConsoleTypeOK
  <2>1. DefaultPreset \in DOMAIN Presets
    BY ConsoleAssumption
  <2>2. AreRows(NoRows)
    BY RowsAreRows
  <2>3. QED
    BY <1>1, <2>1, <2>2 DEF ConsoleInit, ConsoleTypeOK
<1>3. \A a \in Admins : Idle(a)
  BY DEF ConsoleInit, Idle, NoRows
<1>4. Reloading(config, strategy, env, table)
  <2>1. DOMAIN table = {} /\ config = env /\ strategy = DefaultPreset
    BY DEF ConsoleInit, NoRows
  <2>2. Merge(env, table) = env /\ LoadedStrategy(table) = strategy
    BY <1>1, <2>1 DEF Merge, LoadedStrategy
  <2>3. QED
    BY <2>1, <2>2 DEF Reloading
<1>5. QED
  BY <1>2, <1>3, <1>4 DEF SavedInv

LEMMA ConsoleStep == SavedInv /\ [ConsoleNext]_consoleVars => SavedInv'
<1> SUFFICES ASSUME SavedInv, [ConsoleNext]_consoleVars
             PROVE  SavedInv'
  OBVIOUS
<1>1. ASSUME NEW a \in Admins, NEW p \in Patches, PutSettings(a, p) PROVE SavedInv'
  BY <1>1, PutSettingsStep
<1>2. ASSUME NEW a \in Admins, NEW s \in DOMAIN Presets, PutStrategy(a, s) PROVE SavedInv'
  BY <1>2, PutStrategyStep
<1>3. ASSUME NEW a \in Admins, WriteRow(a) \/ WriteFails(a) PROVE SavedInv'
  BY <1>3, WriteRowStep, WriteFailsStep
<1>4. ASSUME NEW e \in Environments, GatewayStarts(e) PROVE SavedInv'
  BY <1>4, GatewayStartsStep
<1>5. CASE UNCHANGED consoleVars
  <2>1. UNCHANGED <<env, config, strategy, table, put, faithful>>
    BY <1>5 DEF consoleVars
  <2>2. QED
    BY <2>1 DEF SavedInv, ConsoleTypeOK, AreRows, Idle, Quiet
<1>6. QED
  BY <1>1, <1>2, <1>3, <1>4, <1>5 DEF ConsoleNext

(* Requests that came one by one leave memory and rows in agreement        *)
(* (putSettings, persistSettings, putStrategy and the LoadPersisted        *)
(* functions), at every moment between two rows too.                       *)
THEOREM ConsoleInvariance == ConsoleSpec => []SavedInv
<1>1. QED
  BY ConsoleInitially, ConsoleStep, PTL DEF ConsoleSpec

(* For all environments, patches and presets: what was accepted and        *)
(* written by requests that did not overlap is what a restart loads.       *)
THEOREM RestartsBringBack == ConsoleSpec => []SavedIsReloaded
<1>1. SavedInv => SavedIsReloaded
  <2> SUFFICES ASSUME SavedInv, faithful, Quiet
               PROVE  config = Loaded(env, table) /\ strategy = LoadedStrategy(table)
    BY DEF SavedIsReloaded
  <2>1. Reloading(config, strategy, env, table) /\ env \in [Fields -> Nat]
    BY ConsoleTypes DEF SavedInv
  <2>2. QED
    BY <2>1, ReloadingLoads DEF Reloading
<1>2. QED
  BY <1>1, ConsoleInvariance, PTL

-------------------------------------------------------------------------------
(***************************************************************************)
(* AutoPilot.  A suggestion that never was in two hands is there as long   *)
(* as it may be carried out, and its row outlives its execution only while *)
(* the handler that is going to delete it has it.                          *)
(***************************************************************************)
Has(h, s) == h.at \in {"execute", "delete", "drop"} /\ h.on = s

(* Handlers, as long as w suggestions were written.                        *)
HandlersAt(w) == [at : {"idle"}, on : {0}] \cup [at : {"save"}, on : Modes]
                   \cup [at : {"execute", "delete", "drop"}, on : 1..w]

Settling(pend, hand, ran, done, cont) ==
  /\ \A s \in pend \ cont :
       /\ s \notin done
       /\ ran[s] = 0 \/ \E o \in Operators : Has(hand[o], s) /\ hand[o].at = "delete"
  /\ \A o \in Operators : hand[o].at = "execute" /\ hand[o].on \notin cont => hand[o].on \in pend
  /\ \A o, p \in Operators, s \in Suggestions \ cont :
       Has(hand[o], s) /\ Has(hand[p], s) => o = p

PilotInv ==
  /\ AutoPilotTypeOK
  /\ tick.at = "applying" => tick.todo # <<>>
  /\ \A s \in Suggestions : s > written => runs[s] = 0
  /\ Settling(pending, operator, runs, settled, contested)

LEMMA PilotNumbers ==
  /\ MaxSuggestions \in Nat /\ 0 \in 0..MaxSuggestions
  /\ \A w \in 0..MaxSuggestions : w \in Nat /\ w <= MaxSuggestions
  /\ \A s \in Suggestions : s \in Nat /\ s >= 1 /\ s <= MaxSuggestions
<1>1. MaxSuggestions \in Nat
  BY AutoPilotAssumption
<1>2. QED
  BY <1>1 DEF Suggestions

LEMMA PilotTypes ==
  ASSUME AutoPilotTypeOK
  PROVE  /\ written \in Nat /\ written <= MaxSuggestions /\ 1..written \subseteq Suggestions
         /\ operator \in [Operators -> HandlersAt(written)]
         /\ \A o \in Operators : \A s : Has(operator[o], s) => s \in 1..written
         /\ \A s : InHand(s) = {o \in Operators : Has(operator[o], s)}
<1>1. written \in Nat /\ written <= MaxSuggestions
  BY PilotNumbers DEF AutoPilotTypeOK
<1>2. 1..written \subseteq Suggestions
  BY <1>1, PilotNumbers DEF Suggestions
<1>3. operator \in [Operators -> HandlersAt(written)]
  BY DEF AutoPilotTypeOK, HandlersAt
<1>4. \A h \in HandlersAt(written) : \A s : Has(h, s) => s \in 1..written
  BY DEF HandlersAt, Has
<1>5. \A s : InHand(s) = {o \in Operators : Has(operator[o], s)}
  BY DEF InHand, Has
<1>6. QED
  BY <1>1, <1>2, <1>3, <1>4, <1>5

(* A handler ends, or goes on to something that is no suggestion.          *)
LEMMA HandlerLetsGo ==
  ASSUME PilotInv, NEW o \in Operators, NEW h, h.at \notin {"execute", "delete", "drop"},
         operator' = [operator EXCEPT ![o] = h], operator[o].at # "delete",
         UNCHANGED <<pending, runs, settled, contested>>
  PROVE  Settling(pending', operator', runs', settled', contested')
<1>1. operator'[o] = h /\ \A p \in Operators : p # o => operator'[p] = operator[p]
  BY PilotTypes DEF PilotInv
<1>2. \A p \in Operators : \A s : Has(operator'[p], s) => p # o /\ Has(operator[p], s)
  BY <1>1 DEF Has
<1>3. \A p \in Operators : \A s : Has(operator[p], s) /\ operator[p].at = "delete" => Has(operator'[p], s) /\ operator'[p].at = "delete"
  BY <1>1 DEF Has
<1>4. \A p \in Operators : operator'[p].at = "execute" => operator'[p] = operator[p]
  BY <1>1
<1>5. \A s \in pending' \ contested' :
        /\ s \notin settled'
        /\ runs'[s] = 0 \/ \E p \in Operators : Has(operator'[p], s) /\ operator'[p].at = "delete"
  BY <1>3 DEF PilotInv, Settling
<1>6. ASSUME NEW p \in Operators, operator'[p].at = "execute", operator'[p].on \notin contested'
      PROVE  operator'[p].on \in pending'
  BY <1>4, <1>6 DEF PilotInv, Settling
<1>7. ASSUME NEW p \in Operators, NEW q \in Operators, NEW s \in Suggestions \ contested',
             Has(operator'[p], s), Has(operator'[q], s)
      PROVE  p = q
  BY <1>2, <1>7 DEF PilotInv, Settling
<1>8. QED
  BY <1>5, <1>6, <1>7 DEF Settling

(* A handler takes a suggestion in hand, to carry it out if it is there.   *)
LEMMA HandlerTakes ==
  ASSUME PilotInv, NEW o \in Operators, NEW s \in 1..written, NEW h,
         h.on = s, h.at = "drop" \/ (h.at = "execute" /\ s \in pending),
         operator[o].at = "idle", operator' = [operator EXCEPT ![o] = h], Took(s),
         UNCHANGED <<pending, runs, settled>>
  PROVE  Settling(pending', operator', runs', settled', contested')
<1>1. operator'[o] = h /\ \A p \in Operators : p # o => operator'[p] = operator[p]
  BY PilotTypes DEF PilotInv
<1>2. s \in contested' \/ (contested' = contested /\ \A p \in Operators : ~Has(operator[p], s))
  BY PilotTypes DEF Took, PilotInv
<1>3. contested \subseteq contested' /\ \A r : r \in contested' => r \in contested \/ r = s
  BY DEF Took
<1>4. ASSUME NEW p \in Operators, NEW r, Has(operator'[p], r)
      PROVE  (p = o /\ r = s) \/ (p # o /\ Has(operator[p], r))
  <2>1. CASE p = o
    BY <1>1, <1>4, <2>1 DEF Has
  <2>2. CASE p # o
    BY <1>1, <1>4, <2>2
  <2>3. QED
    BY <2>1, <2>2
<1>5. \A p \in Operators : \A r : Has(operator[p], r) /\ operator[p].at = "delete"
                              => Has(operator'[p], r) /\ operator'[p].at = "delete"
  BY <1>1 DEF Has
<1>6. \A r \in pending' \ contested' :
        /\ r \notin settled'
        /\ runs'[r] = 0 \/ \E p \in Operators : Has(operator'[p], r) /\ operator'[p].at = "delete"
  BY <1>3, <1>5 DEF PilotInv, Settling
<1>7. ASSUME NEW p \in Operators, operator'[p].at = "execute", operator'[p].on \notin contested'
      PROVE  operator'[p].on \in pending'
  BY <1>1, <1>3, <1>7 DEF PilotInv, Settling
<1>8. ASSUME NEW p \in Operators, NEW q \in Operators, NEW r \in Suggestions \ contested',
             Has(operator'[p], r), Has(operator'[q], r)
      PROVE  p = q
  <2>1. r \notin contested /\ r \in Suggestions
    BY <1>3
  <2>2. CASE r = s
    <3>1. \A t \in Operators : ~Has(operator[t], s)
      BY <1>2, <2>2
    <3>2. QED
      BY <1>4, <1>8, <2>2, <3>1
  <2>3. CASE r # s
    <3>1. Has(operator[p], r) /\ Has(operator[q], r)
      BY <1>4, <1>8, <2>3
    <3>2. QED
      BY <2>1, <3>1 DEF PilotInv, Settling
  <2>4. QED
    BY <2>2, <2>3
<1>9. QED
  BY <1>6, <1>7, <1>8 DEF Settling

(* The handler that carries a suggestion out was the only one to have it,  *)
(* and nobody carried it out before; or it is contested.                   *)
LEMMA ExecutedIsFresh ==
  ASSUME PilotInv, NEW o \in Operators, operator[o].at = "execute",
         operator[o].on \notin contested
  PROVE  /\ operator[o].on \in pending /\ runs[operator[o].on] = 0
         /\ operator[o].on \notin settled
<1> DEFINE s == operator[o].on
<1>1. s \in pending /\ s \notin settled
  BY DEF PilotInv, Settling
<1>2. s \in Suggestions /\ Has(operator[o], s)
  BY PilotTypes DEF Has, PilotInv
<1>3. \A p \in Operators : Has(operator[p], s) => p = o
  BY <1>2 DEF PilotInv, Settling
<1>4. runs[s] = 0
  BY <1>1, <1>3 DEF PilotInv, Settling
<1>5. QED
  BY <1>1, <1>4

LEMMA PilotArithmetic ==
  /\ \A n \in 0..2 : (IF n < 2 THEN n + 1 ELSE n) \in 0..2
  /\ \A w, s \in Nat : s > w => s \notin 1..w
  /\ Len(<<>>) = 0
OBVIOUS

Tick == [at : {"idle", "deciding", "applying"}, mode : Modes, todo : Seq(Decisions)]

(* The loop's own steps: new suggestions have numbers nobody had before.   *)
LEMMA LoopStep ==
  ASSUME PilotInv, tick' \in Tick, tick'.at = "applying" => tick'.todo # <<>>,
         damage' \subseteq Modes \X Decisions,
         UNCHANGED <<mode, modeRow, operator, runs, settled, contested>>,
         \/ UNCHANGED <<written, pending>>
         \/ /\ written < MaxSuggestions
            /\ written' = written + 1 /\ pending' = pending \cup {written + 1}
  PROVE  PilotInv'
<1>1. AutoPilotTypeOK /\ written \in Nat /\ written <= MaxSuggestions /\ MaxSuggestions \in Nat
  BY PilotTypes, PilotNumbers DEF PilotInv
<1>2. /\ written' \in Nat /\ written' >= written /\ written' <= MaxSuggestions
      /\ \A s \in pending' : s \in pending \/ s = written'
      /\ \A s \in pending' : s \in pending \/ (s = written' /\ written' > written)
      /\ pending \subseteq pending'
  BY <1>1
<1>3. AutoPilotTypeOK'
  <2>1. 1..written \subseteq 1..written' /\ written' \in 0..MaxSuggestions
    BY <1>1, <1>2
  <2>2. pending' \subseteq 1..written'
    <3>1. pending \subseteq 1..written
      BY <1>1 DEF AutoPilotTypeOK
    <3>2. CASE UNCHANGED <<written, pending>>
      BY <3>1, <3>2
    <3>3. CASE written' = written + 1 /\ pending' = pending \cup {written + 1}
      <4>1. written + 1 \in 1..(written + 1)
        BY <1>1
      <4>2. pending' \subseteq 1..(written + 1)
        BY <2>1, <3>1, <3>3, <4>1
      <4>3. QED
        BY <3>3, <4>2
    <3>4. QED
      BY <3>2, <3>3
  <2>3. settled' \subseteq 1..written'
    BY <1>1, <2>1 DEF AutoPilotTypeOK
  <2>4. operator' \in [Operators -> HandlersAt(written')]
    <3>1. HandlersAt(written) \subseteq HandlersAt(written')
      BY <2>1 DEF HandlersAt
    <3>2. operator \in [Operators -> HandlersAt(written)]
      BY <1>1, PilotTypes
    <3>3. QED
      BY <3>1, <3>2
  <2>5. mode' \in Modes /\ modeRow' \in Modes \cup {""} /\ runs' \in [Suggestions -> 0..2]
    BY <1>1 DEF AutoPilotTypeOK
  <2>6. QED
    BY <2>1, <2>2, <2>3, <2>4, <2>5 DEF AutoPilotTypeOK, Tick, HandlersAt
<1>4. \A s \in Suggestions : s > written' => runs'[s] = 0
  <2>1. \A s \in Suggestions : s > written' => s > written
    BY <1>1, <1>2, PilotNumbers
  <2>2. QED
    BY <2>1 DEF PilotInv
<1>5. \A s \in pending' : s \in pending \/ (s \notin settled /\ runs[s] = 0)
  <2>1. ASSUME written' > written PROVE written' \notin settled /\ runs[written'] = 0
    <3>1. written' \in Suggestions /\ written' \notin 1..written
      BY <1>1, <1>2, <2>1 DEF Suggestions
    <3>2. QED
      BY <1>1, <2>1, <3>1 DEF PilotInv, AutoPilotTypeOK
  <2>2. QED
    BY <1>2, <2>1
<1>6. Settling(pending', operator', runs', settled', contested')
  BY <1>2, <1>5 DEF PilotInv, Settling
<1>7. QED
  BY <1>3, <1>4, <1>6 DEF PilotInv

LEMMA TickStep ==
  ASSUME PilotInv, TickTakesMode \/ EngineDecides \/ ApplyNext
  PROVE  PilotInv'
<1>1. tick \in Tick /\ mode \in Modes /\ damage \subseteq Modes \X Decisions
  BY DEF PilotInv, AutoPilotTypeOK, Tick
<1>2. CASE TickTakesMode
  <2>1. tick' = [tick EXCEPT !.at = "deciding", !.mode = mode]
    BY <1>2 DEF TickTakesMode
  <2>2. tick' \in Tick /\ tick'.at # "applying"
    BY <1>1, <2>1 DEF Tick
  <2>3. QED
    BY <1>1, <1>2, <2>2, LoopStep DEF TickTakesMode
<1>3. CASE EngineDecides
  <2>1. PICK n \in 0..MaxBatch : \E todo \in [1..n -> Decisions] :
          tick' = [tick EXCEPT !.at = IF n = 0 THEN "idle" ELSE "applying", !.todo = todo]
    BY <1>3 DEF EngineDecides
  <2>2. PICK todo \in [1..n -> Decisions] :
          tick' = [tick EXCEPT !.at = IF n = 0 THEN "idle" ELSE "applying", !.todo = todo]
    BY <2>1
  <2>3. n \in Nat
    BY AutoPilotAssumption
  <2>4. todo \in Seq(Decisions) /\ (n # 0 => todo # <<>>)
    BY <2>3
  <2>5. tick' \in Tick /\ tick'.todo = todo /\ (tick'.at = "applying" => n # 0)
    BY <1>1, <2>2, <2>4 DEF Tick
  <2>6. QED
    BY <1>1, <1>3, <2>4, <2>5, LoopStep DEF EngineDecides
<1>4. CASE ApplyNext
  <2> DEFINE todo == tick.todo
  <2>1. tick.at = "applying" /\ todo \in Seq(Decisions) /\ todo # <<>> /\ tick.mode \in Modes
    BY <1>1, <1>4 DEF ApplyNext, PilotInv, Tick
  <2>2. Head(todo) \in Decisions /\ Tail(todo) \in Seq(Decisions) /\ Len(Tail(todo)) = Len(todo) - 1
        /\ Len(todo) \in Nat
    BY <2>1, HeadTailProperties
  <2>3. Len(todo) # 1 => Tail(todo) # <<>>
    <3>1. Len(todo) # 1 => Len(Tail(todo)) # 0
      BY <2>2
    <3>2. Tail(todo) = <<>> => Len(Tail(todo)) = 0
      BY ONLY PilotArithmetic
    <3>3. QED
      BY <3>1, <3>2
  <2>4. tick' = [tick EXCEPT !.todo = Tail(todo), !.at = IF Len(todo) = 1 THEN "idle" ELSE tick.at]
    BY <1>4 DEF ApplyNext
  <2> HIDE DEF todo
  <2>5. tick' \in Tick /\ (tick'.at = "applying" => tick'.todo # <<>>)
    BY <1>1, <2>1, <2>2, <2>3, <2>4 DEF Tick
  <2>6. damage' \subseteq Modes \X Decisions
    <3>1. damage' = damage \/ damage' = damage \cup {<<tick.mode, Head(todo)>>}
      BY <1>4 DEF ApplyNext, todo
    <3>2. QED
      BY <1>1, <2>1, <2>2, <3>1
  <2>7. \/ UNCHANGED <<written, pending>>
        \/ /\ written < MaxSuggestions
           /\ written' = written + 1 /\ pending' = pending \cup {written + 1}
    BY <1>4 DEF ApplyNext
  <2>8. QED
    BY <1>4, <2>5, <2>6, <2>7, LoopStep DEF ApplyNext
<1>5. QED
  BY <1>2, <1>3, <1>4

(* What handlers do leaves the loop alone.                                 *)
LEMMA HandlerStep ==
  ASSUME PilotInv, UNCHANGED <<tick, written, damage>>,
         mode' \in Modes, modeRow' \in Modes \cup {""}, pending' \subseteq pending,
         operator' \in [Operators -> HandlersAt(written)],
         \/ runs' = runs
         \/ \E s \in 1..written : runs' = [runs EXCEPT ![s] = IF @ < 2 THEN @ + 1 ELSE @],
         settled' \subseteq 1..written,
         Settling(pending', operator', runs', settled', contested')
  PROVE  PilotInv'
<1>1. AutoPilotTypeOK /\ written \in Nat /\ 1..written \subseteq Suggestions
  BY PilotTypes DEF PilotInv
<1>2. runs \in [Suggestions -> 0..2]
  BY <1>1 DEF AutoPilotTypeOK
<1>3. /\ runs' \in [Suggestions -> 0..2]
      /\ \A s \in Suggestions : s \notin 1..written => runs'[s] = runs[s]
  <2>1. CASE runs' = runs
    BY <1>2, <2>1
  <2>2. CASE \E s \in 1..written : runs' = [runs EXCEPT ![s] = IF @ < 2 THEN @ + 1 ELSE @]
    <3>1. PICK s \in 1..written : runs' = [runs EXCEPT ![s] = IF runs[s] < 2 THEN runs[s] + 1 ELSE runs[s]]
      BY <2>2
    <3>2. s \in Suggestions /\ (IF runs[s] < 2 THEN runs[s] + 1 ELSE runs[s]) \in 0..2
      BY <1>1, <1>2, PilotArithmetic
    <3>3. QED
      BY <1>2, <3>1, <3>2
  <2>3. QED
    BY <2>1, <2>2
<1>4. \A s \in Suggestions : s > written' => runs'[s] = 0
  <2>1. ASSUME NEW s \in Suggestions, s > written PROVE s \notin 1..written
    <3>1. s \in Nat
      BY PilotNumbers
    <3>2. QED
      BY ONLY <1>1, <2>1, <3>1, PilotArithmetic
  <2>2. QED
    BY <1>3, <2>1 DEF PilotInv
<1>5. AutoPilotTypeOK'
  BY <1>1, <1>3 DEF AutoPilotTypeOK, HandlersAt
<1>6. QED
  BY <1>4, <1>5 DEF PilotInv

LEMMA HandlersSet ==
  ASSUME AutoPilotTypeOK, NEW o \in Operators, NEW h \in HandlersAt(written),
         operator' = [operator EXCEPT ![o] = h]
  PROVE  operator' \in [Operators -> HandlersAt(written)]
BY PilotTypes

LEMMA NoHandlerIsOne == NoHandler \in HandlersAt(written) /\ NoHandler.at = "idle"
BY DEF NoHandler, HandlersAt

LEMMA ModesStep ==
  ASSUME PilotInv, NEW o \in Operators, (\E m \in Modes : SetMode(o, m)) \/ SaveMode(o)
  PROVE  PilotInv'
<1>1. AutoPilotTypeOK /\ operator[o] \in HandlersAt(written) /\ settled \subseteq 1..written
      /\ mode \in Modes /\ modeRow \in Modes \cup {""}
  BY PilotTypes DEF PilotInv, AutoPilotTypeOK
<1>2. ASSUME NEW m \in Modes, SetMode(o, m) PROVE PilotInv'
  <2> DEFINE h == [at |-> "save", on |-> m]
  <2>1. h \in HandlersAt(written) /\ h.at = "save"
    BY DEF HandlersAt
  <2>2. operator[o].at = "idle" /\ operator' = [operator EXCEPT ![o] = h]
    BY <1>2 DEF SetMode
  <2> HIDE DEF h
  <2>3. /\ mode' = m
        /\ UNCHANGED <<modeRow, tick, written, pending, damage, runs, settled, contested>>
    BY <1>2 DEF SetMode
  <2>4. Settling(pending', operator', runs', settled', contested')
    BY <2>1, <2>2, <2>3, HandlerLetsGo
  <2>5. operator' \in [Operators -> HandlersAt(written)]
    BY <1>1, <2>1, <2>2, HandlersSet
  <2>6. QED
    BY <1>1, <2>3, <2>4, <2>5, HandlerStep
<1>3. CASE SaveMode(o)
  <2>1. /\ operator[o].at = "save" /\ operator' = [operator EXCEPT ![o] = NoHandler]
        /\ modeRow' \in {operator[o].on, modeRow}
        /\ UNCHANGED <<mode, tick, written, pending, damage, runs, settled, contested>>
    BY <1>3 DEF SaveMode
  <2>2. operator[o].on \in Modes
    BY <1>1, <2>1 DEF HandlersAt
  <2>3. Settling(pending', operator', runs', settled', contested')
    BY <2>1, NoHandlerIsOne, HandlerLetsGo
  <2>4. operator' \in [Operators -> HandlersAt(written)]
    BY <1>1, <2>1, NoHandlerIsOne, HandlersSet
  <2>5. mode' \in Modes /\ modeRow' \in Modes \cup {""}
    BY <1>1, <2>1, <2>2
  <2>6. QED
    BY <1>1, <2>1, <2>3, <2>4, <2>5, HandlerStep
<1>4. QED
  BY <1>2, <1>3

LEMMA TakesStep ==
  ASSUME PilotInv, NEW o \in Operators, NEW s \in Suggestions,
         ApprovePending(o, s) \/ RejectPending(o, s)
  PROVE  PilotInv'
<1>1. AutoPilotTypeOK /\ settled \subseteq 1..written
      /\ mode \in Modes /\ modeRow \in Modes \cup {""} /\ pending \subseteq 1..written
  BY DEF PilotInv, AutoPilotTypeOK
<1>2. PICK at \in {"execute", "drop"} :
        /\ at = "execute" => s \in pending
        /\ operator' = [operator EXCEPT ![o] = [at |-> at, on |-> s]]
  BY DEF ApprovePending, RejectPending
<1>3. /\ operator[o].at = "idle" /\ s \in 1..written /\ Took(s)
      /\ UNCHANGED <<mode, modeRow, tick, written, pending, damage, runs, settled>>
  BY <1>1 DEF ApprovePending, RejectPending
<1> DEFINE h == [at |-> at, on |-> s]
<1>4. h \in HandlersAt(written) /\ h.at = at /\ h.on = s
  BY <1>3 DEF HandlersAt
<1>5. operator' = [operator EXCEPT ![o] = h]
  BY <1>2
<1> HIDE DEF h
<1>6. Settling(pending', operator', runs', settled', contested')
  BY <1>2, <1>3, <1>4, <1>5, HandlerTakes
<1>7. operator' \in [Operators -> HandlersAt(written)]
  BY <1>1, <1>4, <1>5, HandlersSet
<1>8. QED
  BY <1>1, <1>3, <1>6, <1>7, HandlerStep

LEMMA ExecuteStep ==
  ASSUME PilotInv, NEW o \in Operators, ExecuteApproved(o)
  PROVE  PilotInv'
<1>1. AutoPilotTypeOK /\ settled \subseteq 1..written /\ operator[o] \in HandlersAt(written)
      /\ mode \in Modes /\ modeRow \in Modes \cup {""}
      /\ DOMAIN operator = Operators /\ runs \in [Suggestions -> 0..2] /\ 1..written \subseteq Suggestions
  BY PilotTypes DEF PilotInv, AutoPilotTypeOK
<1>2. /\ operator[o].at = "execute"
      /\ UNCHANGED <<mode, modeRow, tick, written, pending, damage, settled, contested>>
  BY DEF ExecuteApproved
<1>3. PICK s \in 1..written : operator[o] = [at |-> "execute", on |-> s]
  BY <1>1, <1>2 DEF HandlersAt
<1>4. CASE operator' = [operator EXCEPT ![o] = NoHandler] /\ runs' = runs
  <2>1. Settling(pending', operator', runs', settled', contested')
    BY <1>2, <1>4, NoHandlerIsOne, HandlerLetsGo
  <2>2. operator' \in [Operators -> HandlersAt(written)]
    BY <1>1, <1>4, NoHandlerIsOne, HandlersSet
  <2>3. QED
    BY <1>1, <1>2, <1>4, <2>1, <2>2, HandlerStep
<1>5. CASE /\ runs' = [runs EXCEPT ![operator[o].on] = IF @ < 2 THEN @ + 1 ELSE @]
           /\ operator' = [operator EXCEPT ![o].at = "delete"]
  <2> DEFINE h == [at |-> "delete", on |-> s]
  <2>1. h \in HandlersAt(written) /\ h.at = "delete" /\ Has(h, s) /\ Has(operator[o], s)
    BY <1>3 DEF HandlersAt, Has
  <2>2. operator' = [operator EXCEPT ![o] = h]
    <3>1. [operator[o] EXCEPT !.at = "delete"] = h
      BY <1>3
    <3>2. operator' = [operator EXCEPT ![o] = [operator[o] EXCEPT !.at = "delete"]]
      BY <1>5
    <3>3. QED
      BY <3>1, <3>2
  <2>3. \A t : Has(h, t) => t = s
    BY DEF Has
  <2> HIDE DEF h
  <2>4. operator'[o] = h /\ \A p \in Operators : p # o => operator'[p] = operator[p]
    BY <1>1, <2>2
  <2>5. runs' = [runs EXCEPT ![s] = IF runs[s] < 2 THEN runs[s] + 1 ELSE runs[s]]
    BY <1>3, <1>5
  <2>6. \A t \in Suggestions : t # s => runs'[t] = runs[t]
    BY <1>1, <2>5
  <2>7. Settling(pending', operator', runs', settled', contested')
    <3>1. ASSUME NEW t \in pending \ contested
          PROVE  /\ t \notin settled
                 /\ runs'[t] = 0 \/ \E p \in Operators : Has(operator'[p], t) /\ operator'[p].at = "delete"
      <4>1. t \in Suggestions
        BY <1>1 DEF AutoPilotTypeOK
      <4>2. CASE t = s
        BY <2>1, <2>4, <3>1, <4>2 DEF PilotInv, Settling
      <4>3. CASE t # s
        <5>1. ASSUME NEW p \in Operators, Has(operator[p], t)
              PROVE  operator'[p] = operator[p]
          <6>1. p # o
            BY <1>3, <4>3, <5>1 DEF Has
          <6>2. QED
            BY <2>4, <6>1
        <5>2. QED
          BY <2>6, <3>1, <4>1, <4>3, <5>1 DEF PilotInv, Settling
      <4>4. QED
        BY <4>2, <4>3
    <3>2. \A p \in Operators : operator'[p].at = "execute" => operator'[p] = operator[p]
      BY <2>1, <2>4
    <3>3. \A p \in Operators : \A t : Has(operator'[p], t) => Has(operator[p], t)
      <4>1. ASSUME NEW p \in Operators, NEW t, Has(operator'[p], t) PROVE Has(operator[p], t)
        <5>1. CASE p = o
          <6>1. t = s
            BY <2>3, <2>4, <4>1, <5>1
          <6>2. QED
            BY <2>1, <5>1, <6>1
        <5>2. CASE p # o
          BY <2>4, <4>1, <5>2
        <5>3. QED
          BY <5>1, <5>2
      <4>2. QED
        BY <4>1
    <3>4. \A p \in Operators : operator'[p].at = "execute" /\ operator'[p].on \notin contested
                               => operator'[p].on \in pending
      BY <3>2 DEF PilotInv, Settling
    <3>5. \A p, q \in Operators, t \in Suggestions \ contested :
            Has(operator'[p], t) /\ Has(operator'[q], t) => p = q
      BY <3>3 DEF PilotInv, Settling
    <3>6. QED
      BY <1>2, <3>1, <3>4, <3>5 DEF Settling
  <2>8. operator' \in [Operators -> HandlersAt(written)]
    BY <1>1, <2>1, <2>2, HandlersSet
  <2>9. \E t \in 1..written : runs' = [runs EXCEPT ![t] = IF @ < 2 THEN @ + 1 ELSE @]
    BY <2>5
  <2>10. QED
    BY <1>1, <1>2, <2>7, <2>8, <2>9, HandlerStep
<1>6. QED
  BY <1>4, <1>5 DEF ExecuteApproved

LEMMA DeleteRowStep ==
  ASSUME PilotInv, NEW o \in Operators, DeleteRow(o)
  PROVE  PilotInv'
<1>1. AutoPilotTypeOK /\ settled \subseteq 1..written /\ operator[o] \in HandlersAt(written)
      /\ mode \in Modes /\ modeRow \in Modes \cup {""} /\ DOMAIN operator = Operators
  BY PilotTypes DEF PilotInv, AutoPilotTypeOK
<1>2. /\ operator[o].at \in {"delete", "drop"}
      /\ operator' = [operator EXCEPT ![o] = NoHandler]
      /\ UNCHANGED <<mode, modeRow, tick, written, damage, runs>>
  BY DEF DeleteRow
<1>3. PICK s \in 1..written : operator[o].on = s
  BY <1>1, <1>2 DEF HandlersAt
<1>4. \/ pending' = pending \ {s} /\ settled' = settled \cup {s} /\ contested' = contested
      \/ pending' = pending /\ settled' = settled /\ contested' = contested \cup {s}
  BY <1>3 DEF DeleteRow
<1>5. operator'[o] = NoHandler /\ \A p \in Operators : p # o => operator'[p] = operator[p]
  BY <1>1, <1>2
<1>6. Has(operator[o], s) /\ \A t : Has(operator[o], t) => t = s
  BY <1>2, <1>3 DEF Has
<1>7. \A p \in Operators : \A t : Has(operator'[p], t) => p # o /\ Has(operator[p], t)
  BY <1>5, NoHandlerIsOne DEF Has
<1>8. \A t : t \in pending' \ contested' => t \in pending \ contested /\ t # s /\ t \notin settled' \ settled
  BY <1>4
<1>9. Settling(pending', operator', runs', settled', contested')
  <2>1. ASSUME NEW t \in pending' \ contested'
        PROVE  /\ t \notin settled'
               /\ runs'[t] = 0 \/ \E p \in Operators : Has(operator'[p], t) /\ operator'[p].at = "delete"
    <3>1. t \in pending \ contested /\ t # s /\ t \notin settled' \ settled
      BY <1>8, <2>1
    <3>2. \A p \in Operators : Has(operator[p], t) => operator'[p] = operator[p]
      BY <1>5, <1>6, <3>1
    <3>3. QED
      BY <1>2, <3>1, <3>2 DEF PilotInv, Settling
  <2>2. ASSUME NEW p \in Operators, operator'[p].at = "execute", operator'[p].on \notin contested'
        PROVE  operator'[p].on \in pending'
    <3>1. p # o /\ operator'[p] = operator[p]
      BY <1>5, <2>2, NoHandlerIsOne
    <3>2. operator[p].on \notin contested /\ contested \subseteq contested'
      BY <1>4, <2>2, <3>1
    <3>3. operator[p].on \in pending
      BY <2>2, <3>1, <3>2 DEF PilotInv, Settling
    <3>4. operator[p].on # s \/ s \in contested'
      <4>1. CASE operator[p].on = s /\ s \notin contested
        <5>1. Has(operator[p], s) /\ s \in Suggestions
          BY <2>2, <3>1, <4>1, PilotTypes, <1>1 DEF Has
        <5>2. QED
          BY <1>6, <3>1, <4>1, <5>1 DEF PilotInv, Settling
      <4>2. QED
        BY <3>2, <4>1
    <3>5. QED
      BY <1>4, <2>2, <3>1, <3>3, <3>4
  <2>3. \A p, q \in Operators, t \in Suggestions \ contested' :
          Has(operator'[p], t) /\ Has(operator'[q], t) => p = q
    BY <1>4, <1>7 DEF PilotInv, Settling
  <2>4. QED
    BY <2>1, <2>2, <2>3 DEF Settling
<1>10. operator' \in [Operators -> HandlersAt(written)]
  BY <1>1, <1>2, NoHandlerIsOne, HandlersSet
<1>11. pending' \subseteq pending /\ settled' \subseteq 1..written
  BY <1>1, <1>3, <1>4
<1>12. QED
  BY <1>1, <1>2, <1>9, <1>10, <1>11, HandlerStep

(* A restart: whatever was in hand is contested from then on.              *)
LEMMA RestartStep ==
  ASSUME PilotInv, PilotRestarts
  PROVE  PilotInv'
<1>1. /\ AutoPilotTypeOK /\ written \in Nat
      /\ \A t \in Suggestions \ contested' : \A p \in Operators : ~Has(operator[p], t)
      /\ contested \subseteq contested'
  <2>1. \A t : InHand(t) = {p \in Operators : Has(operator[p], t)}
    BY PilotTypes DEF PilotInv
  <2>2. contested' = contested \cup {t \in Suggestions : InHand(t) # {}}
    BY DEF PilotRestarts
  <2>3. QED
    BY <2>1, <2>2, PilotTypes DEF PilotInv
<1>2. /\ tick' = NoTick /\ operator' = [o \in Operators |-> NoHandler]
      /\ mode' = IF modeRow = "" THEN "assisted" ELSE modeRow
      /\ UNCHANGED <<modeRow, written, pending, damage, runs, settled>>
  BY DEF PilotRestarts
<1>3. tick' \in Tick /\ tick'.at # "applying"
  <2>1. <<>> \in Seq(Decisions)
    OBVIOUS
  <2>2. QED
    BY <1>2, <2>1 DEF NoTick, Tick, Modes
<1>4. AutoPilotTypeOK'
  <2>1. mode' \in Modes /\ modeRow' \in Modes \cup {""}
    BY <1>1, <1>2 DEF AutoPilotTypeOK, Modes
  <2>2. operator' \in [Operators -> HandlersAt(written')]
    BY <1>2, NoHandlerIsOne
  <2>3. /\ written' \in 0..MaxSuggestions /\ pending' \subseteq 1..written'
        /\ damage' \subseteq Modes \X Decisions /\ runs' \in [Suggestions -> 0..2]
        /\ settled' \subseteq 1..written'
    BY <1>1, <1>2 DEF AutoPilotTypeOK
  <2>4. QED
    BY <1>3, <2>1, <2>2, <2>3 DEF AutoPilotTypeOK, Tick, HandlersAt
<1>5. Settling(pending', operator', runs', settled', contested')
  <2>1. \A p \in Operators : operator'[p].at = "idle" /\ \A t : ~Has(operator'[p], t)
    BY <1>2, NoHandlerIsOne DEF Has
  <2>2. \A t \in pending \ contested' : t \notin settled /\ runs[t] = 0
    <3>1. pending \subseteq Suggestions
      BY <1>1, PilotTypes DEF AutoPilotTypeOK
    <3>2. QED
      BY <1>1, <3>1 DEF PilotInv, Settling
  <2>3. QED
    BY <1>2, <2>1, <2>2 DEF Settling
<1>6. QED
  BY <1>2, <1>3, <1>4, <1>5 DEF PilotInv

LEMMA PilotStep == PilotInv /\ [AutoPilotNext]_autoPilotVars => PilotInv'
<1> SUFFICES ASSUME PilotInv, [AutoPilotNext]_autoPilotVars
             PROVE  PilotInv'
  OBVIOUS
<1>1. CASE TickTakesMode \/ EngineDecides \/ ApplyNext
  BY <1>1, TickStep
<1>2. ASSUME NEW o \in Operators, (\E m \in Modes : SetMode(o, m)) \/ SaveMode(o) PROVE PilotInv'
  BY <1>2, ModesStep
<1>3. ASSUME NEW o \in Operators, NEW s \in Suggestions, ApprovePending(o, s) \/ RejectPending(o, s)
      PROVE  PilotInv'
  BY <1>3, TakesStep
<1>4. ASSUME NEW o \in Operators, ExecuteApproved(o) \/ DeleteRow(o) PROVE PilotInv'
  BY <1>4, ExecuteStep, DeleteRowStep
<1>5. CASE PilotRestarts
  BY <1>5, RestartStep
<1>6. CASE UNCHANGED autoPilotVars
  <2>1. UNCHANGED <<mode, modeRow, tick, written, pending, operator, damage, runs, settled, contested>>
    BY <1>6 DEF autoPilotVars
  <2>2. QED
    BY <2>1 DEF PilotInv, AutoPilotTypeOK
<1>7. QED
  BY <1>1, <1>2, <1>3, <1>4, <1>5, <1>6 DEF AutoPilotNext

LEMMA PilotInitially == AutoPilotInit => PilotInv
<1> SUFFICES ASSUME AutoPilotInit
             PROVE  PilotInv
  OBVIOUS
<1>1. /\ tick = NoTick /\ operator = [o \in Operators |-> NoHandler] /\ written = 0
      /\ pending = {} /\ settled = {} /\ contested = {} /\ damage = {}
      /\ runs = [s \in Suggestions |-> 0] /\ mode = "assisted" /\ modeRow = ""
  BY DEF AutoPilotInit
<1>2. NoTick \in Tick /\ NoTick.at = "idle"
  <2>1. <<>> \in Seq(Decisions)
    OBVIOUS
  <2>2. QED
    BY <2>1 DEF NoTick, Tick, Modes
<1>3. AutoPilotTypeOK
  <2>1. operator \in [Operators -> HandlersAt(written)]
    BY <1>1, NoHandlerIsOne
  <2>2. written \in 0..MaxSuggestions /\ runs \in [Suggestions -> 0..2]
    <3>1. 0 \in 0..MaxSuggestions
      BY PilotNumbers
    <3>2. 0 \in 0..2
      OBVIOUS
    <3>3. QED
      BY <1>1, <3>1, <3>2
  <2>3. mode \in Modes /\ tick \in Tick
    BY <1>1, <1>2 DEF Modes
  <2>4. QED
    BY <1>1, <2>1, <2>2, <2>3 DEF AutoPilotTypeOK, Tick, HandlersAt
<1>4. Settling(pending, operator, runs, settled, contested)
  BY <1>1, NoHandlerIsOne DEF Settling, Has
<1>5. QED
  BY <1>1, <1>2, <1>3, <1>4 DEF PilotInv

(* Handlers of suggestions, the loop and restarts, in any order            *)
(* (ApprovePending, RejectPending, Apply, Start).                          *)
THEOREM AutoPilotInvariance == AutoPilotSpec => []PilotInv
<1>1. QED
  BY PilotInitially, PilotStep, PTL DEF AutoPilotSpec

(* For any number of handlers and suggestions: one that was not in two     *)
(* hands at once is carried out once at most, and not after its rejection. *)
THEOREM SettledOnce == AutoPilotSpec => SuggestionsAreSettledOnce
<1>1. PilotInv /\ [AutoPilotNext]_autoPilotVars =>
        [\A s \in Suggestions : runs'[s] # runs[s] =>
           s \in contested' \/ (runs[s] = 0 /\ s \notin settled)]_autoPilotVars
  <2> SUFFICES ASSUME PilotInv, AutoPilotNext, NEW s \in Suggestions, runs'[s] # runs[s],
                      s \notin contested'
               PROVE  runs[s] = 0 /\ s \notin settled
    OBVIOUS
  <2>1. PICK o \in Operators : ExecuteApproved(o)
    BY DEF AutoPilotNext, TickTakesMode, EngineDecides, ApplyNext, SetMode, SaveMode,
           ApprovePending, RejectPending, DeleteRow, PilotRestarts
  <2>2. /\ operator[o].at = "execute" /\ contested' = contested
        /\ runs' = runs \/ runs' = [runs EXCEPT ![operator[o].on] = IF @ < 2 THEN @ + 1 ELSE @]
    BY <2>1 DEF ExecuteApproved
  <2>3. s = operator[o].on
    BY <2>2 DEF PilotInv, AutoPilotTypeOK
  <2>4. QED
    BY <2>2, <2>3, ExecutedIsFresh
<1>2. QED
  BY <1>1, AutoPilotInvariance, PTL DEF AutoPilotSpec, SuggestionsAreSettledOnce

-------------------------------------------------------------------------------
(***************************************************************************)
(* Adaptive.  Whatever the engines reckon is a number, and what execute    *)
(* makes of a number is positive.                                          *)
(***************************************************************************)
Pid == [used : BOOLEAN, ewma : Int, err : Int, integral : Int, output : Int]

AdaptiveInv == AdaptiveTypeOK /\ pid \in Pid

LEMMA AdaptiveNumbers ==
  /\ DefaultAtStart \in Nat /\ DefaultAtStart >= 1 /\ MaxAtStart \in Nat
  /\ MaxAtStart >= DefaultAtStart /\ MaxTicks \in Nat
BY AdaptiveAssumption

LEMMA ClampsAreNumbers ==
  /\ \A v, lo, hi \in Int : Clamp(v, lo, hi) \in Int
  /\ \A a, b \in Int : Least(a, b) \in Int
BY DEF Clamp, Least

LEMMA SumsAreNumbers ==
  ASSUME NEW rate \in [PilotKeys -> Nat]
  PROVE  Sums(rate)[PilotKeys] \in Nat
<1> DEFINE Step(f) == [S \in SUBSET PilotKeys |->
                         IF S = {} THEN 0 ELSE LET k == CHOOSE k \in S : TRUE
                                               IN  rate[k] + f[S \ {k}]]
<1>1. IsFiniteSet(PilotKeys)
  BY AdaptiveAssumption
<1>2. PICK f \in [SUBSET PilotKeys -> Nat] :
        \A S \in SUBSET PilotKeys : f[S] = Summed(f, rate, S)
  BY <1>1, SumsExist
<1>3. \A S \in SUBSET PilotKeys : f[S] = Step(f)[S]
  BY <1>2 DEF Summed, Some
<1>4. f = Step(f)
  BY <1>2, <1>3
<1>5. Sums(rate) = CHOOSE g : g = Step(g)
  BY DEF Sums
<1> DEFINE g == Sums(rate)
<1>6. g = Step(g)
  <2> HIDE DEF Step
  <2>1. g = CHOOSE h : h = Step(h)
    BY <1>5
  <2>2. QED
    BY <1>4, <2>1
<1> HIDE DEF g
<1>7. \A S \in SUBSET PilotKeys : g[S] = Summed(g, rate, S)
  BY <1>6 DEF Summed, Some
<1>8. g[PilotKeys] \in Nat
  BY <1>1, <1>7, SummedIsNumber
<1>9. QED
  BY <1>8 DEF g

LEMMA KeysAreCounted ==
  /\ Cardinality(PilotKeys) \in Nat /\ Cardinality(PilotKeys) >= 1
  /\ \A S \in SUBSET PilotKeys : Cardinality(S) \in Nat
<1>1. IsFiniteSet(PilotKeys) /\ PilotKeys # {}
  BY AdaptiveAssumption
<1>2. Cardinality(PilotKeys) \in Nat /\ Cardinality(PilotKeys) # 0
  BY <1>1, FS_CardinalityType, FS_EmptySet
<1>3. \A S \in SUBSET PilotKeys : Cardinality(S) \in Nat
  BY <1>1, FS_Subset, FS_CardinalityType
<1>4. QED
  BY <1>2, <1>3

LEMMA QuotientsAreNumbers == \A a \in Int, b \in Nat \ {0} : a \div b \in Int
OBVIOUS

(* A snapshot's rates, and what the engines take them for.                 *)
LEMMA RatesAreNumbers ==
  ASSUME NEW s \in Snapshots
  PROVE  /\ GlobalRate(s.rate) \in Int /\ Measured(GlobalRate(s.rate)) \in Int
         /\ s.inflight \in Nat
         /\ Cardinality(ActiveKeys(s)) \in Nat /\ Cardinality(Counted(s)) \in Nat
<1>1. s.rate \in [PilotKeys -> Measurements] /\ s.inflight \in Inflights
  BY DEF Snapshots
<1>2. Measurements \subseteq Nat /\ Inflights \subseteq Nat
  BY AdaptiveAssumption
<1>3. s.rate \in [PilotKeys -> Nat]
  BY <1>1, <1>2
<1>4. Sums(s.rate)[PilotKeys] \in Nat
  BY <1>3, SumsAreNumbers
<1>5. Sums(s.rate)[PilotKeys] \div Cardinality(PilotKeys) \in Int
  BY <1>4, KeysAreCounted, QuotientsAreNumbers
<1>6. GlobalRate(s.rate) \in Int
  BY <1>5 DEF GlobalRate
<1>7. Measured(GlobalRate(s.rate)) \in Int
  BY <1>6 DEF Measured
<1>8. /\ s.inflight \in Nat /\ Cardinality(ActiveKeys(s)) \in Nat
      /\ Cardinality(Counted(s)) \in Nat
  BY <1>1, <1>2, KeysAreCounted DEF ActiveKeys, Counted
<1>9. QED
  BY <1>1, <1>6, <1>7, <1>8

LEMMA ClampsClamp ==
  /\ \A v, lo, hi \in Int : lo <= hi => Clamp(v, lo, hi) \in lo..hi
  /\ \A a, b \in Int : Least(a, b) <= a /\ Least(a, b) <= b
BY DEF Clamp, Least

LEMMA ByKeysIsNumber ==
  ASSUME NEW tier, NEW n \in Nat
  PROVE  ByKeys(tier, n) \in 1..MaxAtStart
<1> DEFINE m == CASE tier = "low"  -> Least(n, 5)      [] tier = "mid"  -> Least(n, 10)
                  [] tier = "high" -> Least(2 * n, 50) [] tier = "peak" -> Least(4 * n, 100)
                  [] OTHER -> n
<1>1. m \in Int
  <2>1. /\ Least(n, 5) \in Int /\ Least(n, 10) \in Int /\ Least(2 * n, 50) \in Int
        /\ Least(4 * n, 100) \in Int
    <3>1. {n, 5, 10, 50, 100, 2 * n, 4 * n} \subseteq Int
      OBVIOUS
    <3>2. QED
      BY <3>1, ClampsAreNumbers
  <2>2. QED
    BY <2>1
<1> HIDE DEF m
<1>2. Clamp(m, 1, MaxAtStart) \in 1..MaxAtStart
  BY <1>1, AdaptiveNumbers, ClampsClamp
<1>3. 1 \in 1..MaxAtStart
  BY AdaptiveNumbers
<1>4. QED
  BY <1>2, <1>3 DEF ByKeys, m

LEMMA BaselineIsNumber ==
  ASSUME NEW s \in Snapshots
  PROVE  Baseline(s) \in Int
<1>1. ByKeys(ClassifyTier(s.inflight), Cardinality(ActiveKeys(s))) \in Int
  BY RatesAreNumbers, ByKeysIsNumber
<1>2. QED
  BY <1>1, AdaptiveNumbers DEF Baseline

LEMMA UpdatedIsPid ==
  ASSUME NEW p \in Pid, NEW rate \in Int
  PROVE  Updated(p, rate) \in Pid
<1> DEFINE ewma == IF p.used THEN (3 * rate + 7 * p.ewma) \div 10 ELSE rate
           err  == 990 - ewma
           int  == Clamp(p.integral + err, -10000, 10000)
           out  == 50 * err + 5 * int + 20 * (err - p.err)
<1>1. p.ewma \in Int /\ p.err \in Int /\ p.integral \in Int
  BY DEF Pid
<1>2. ewma \in Int
  BY <1>1, QuotientsAreNumbers
<1> HIDE DEF ewma
<1>3. err \in Int
  BY <1>2
<1> HIDE DEF err
<1>4. int \in Int
  <2>1. p.integral + err \in Int /\ -10000 \in Int /\ 10000 \in Int
    BY <1>1, <1>3
  <2>2. QED
    BY <2>1 DEF Clamp
<1> HIDE DEF int
<1>5. out \in Int
  BY <1>1, <1>3, <1>4
<1>6. Updated(p, rate) = [used |-> TRUE, ewma |-> ewma, err |-> err, integral |-> int, output |-> out]
  BY DEF Updated, ewma, err, int
<1> HIDE DEF out
<1>7. QED
  BY <1>2, <1>3, <1>4, <1>5, <1>6 DEF Pid

LEMMA TargetIsNumber ==
  ASSUME NEW p \in Pid, NEW base \in Int
  PROVE  Target(p, base) \in 1..MaxAtStart
<1> DEFINE x == 1000 * base - (p.output * MaxAtStart) \div 200
           y == Clamp(x, 1000, 1000 * MaxAtStart)
<1>1. p.output \in Int /\ MaxAtStart \in Int
  BY AdaptiveNumbers DEF Pid
<1>2. p.output * MaxAtStart \in Int
  BY <1>1
<1>3. (p.output * MaxAtStart) \div 200 \in Int
  BY <1>2, QuotientsAreNumbers
<1>4. x \in Int
  BY <1>3
<1> HIDE DEF x
<1>5. y \in 1000..(1000 * MaxAtStart)
  <2>1. 1000 \in Int /\ 1000 * MaxAtStart \in Int /\ 1000 <= 1000 * MaxAtStart
    BY AdaptiveNumbers
  <2>2. QED
    BY <1>4, <2>1 DEF Clamp
<1> HIDE DEF y
<1>6. (y + 500) \div 1000 \in 1..MaxAtStart
  BY <1>5, AdaptiveNumbers
<1>7. QED
  BY <1>6 DEF Target, x, y

LEMMA CurrentIsNumber == AdaptiveTypeOK => Current \in 0..MaxAtStart
BY AdaptiveNumbers DEF Current, Least, AdaptiveTypeOK

LEMMA ExecutedIsInRange ==
  ASSUME NEW n \in Int, n <= MaxAtStart, Execute(n)
  PROVE  override' \in 0..MaxAtStart
BY AdaptiveNumbers DEF Execute

LEMMA BoostedIsPercent ==
  ASSUME AdaptiveTypeOK, NEW weak, NEW percent \in {0, 10, 100, 200}
  PROVE  Boosted(boost, weak, percent) \in [PilotKeys -> {10, 100, 200}]
<1>1. boost \in [PilotKeys -> {10, 100, 200}]
  BY DEF AdaptiveTypeOK
<1>2. (IF percent <= 0 \/ percent \in 99..101 THEN 100 ELSE percent) \in {10, 100, 200}
  OBVIOUS
<1>3. QED
  BY <1>1, <1>2 DEF Boosted

LEMMA TunedStep ==
  ASSUME AdaptiveInv, Tuned
  PROVE  AdaptiveInv'
<1>1. /\ AdaptiveTypeOK /\ pid \in Pid /\ limits' = limits
      /\ ticks < MaxTicks /\ ticks' = ticks + 1 /\ ticks \in 0..MaxTicks
  BY DEF AdaptiveInv, Tuned, AdaptiveTypeOK
<1>2. ticks' \in 0..MaxTicks
  BY <1>1, AdaptiveNumbers
<1>3. Current \in Int /\ Current <= MaxAtStart
  BY <1>1, CurrentIsNumber, AdaptiveNumbers
<1>4. ASSUME override' \in 0..MaxAtStart, boost' \in [PilotKeys -> {10, 100, 200}], pid' \in Pid
      PROVE  AdaptiveInv'
  BY <1>1, <1>2, <1>4 DEF AdaptiveInv, AdaptiveTypeOK
<1>5. ASSUME NEW s \in Snapshots, AdaptiveTick(s) PROVE AdaptiveInv'
  <2> DEFINE p == Updated(pid, Measured(GlobalRate(s.rate)))
             n == Target(p, Baseline(s))
  <2>1. p \in Pid
    BY <1>1, RatesAreNumbers, UpdatedIsPid
  <2>2. n \in Int /\ n <= MaxAtStart
    <3>1. Target(p, Baseline(s)) \in 1..MaxAtStart
      BY <2>1, BaselineIsNumber, TargetIsNumber
    <3>2. QED
      BY <3>1, AdaptiveNumbers
  <2>3. pid' = p /\ (override' = override \/ Execute(n)) /\ boost' = Boosted(boost, Weak(s), 10)
    BY <1>5 DEF AdaptiveTick
  <2> HIDE DEF p, n
  <2>4. override' \in 0..MaxAtStart
    BY <1>1, <2>2, <2>3, ExecutedIsInRange DEF AdaptiveTypeOK
  <2>5. QED
    BY <1>1, <1>4, <2>1, <2>3, <2>4, BoostedIsPercent
<1>6. ASSUME NEW s \in Snapshots, NEW d \in Demands, ScalesUp(s, d) PROVE AdaptiveInv'
  <2> DEFINE more == ByKeys(ClassifyTier(s.inflight), Cardinality(Counted(s)))
  <2>1. more \in Int /\ more <= MaxAtStart
    <3>1. ByKeys(ClassifyTier(s.inflight), Cardinality(Counted(s))) \in 1..MaxAtStart
      BY RatesAreNumbers, ByKeysIsNumber
    <3>2. QED
      BY <3>1, AdaptiveNumbers
  <2>2. Execute(more) /\ UNCHANGED <<pid, boost, last>>
    BY <1>6 DEF ScalesUp
  <2> HIDE DEF more
  <2>3. override' \in 0..MaxAtStart
    BY <2>1, <2>2, ExecutedIsInRange
  <2>4. QED
    BY <1>1, <1>4, <2>2, <2>3 DEF AdaptiveTypeOK
<1>7. ASSUME NEW s \in Snapshots, NEW d \in Demands, Throttles(s, d) PROVE AdaptiveInv'
  <2> DEFINE room  == Room(s)
             fewer == IF room >= d THEN Current ELSE (2 * Current * room + d) \div (2 * d)
  <2>1. room \in Nat /\ d \in Nat
    <3>1. Cardinality(Counted(s)) \in Nat /\ d \in Nat
      BY RatesAreNumbers, AdaptiveAssumption
    <3>2. QED
      BY <3>1 DEF Room
  <2> HIDE DEF room
  <2>2. fewer \in Int
    <3>1. CASE room >= d
      BY <1>3, <3>1
    <3>2. CASE ~(room >= d)
      <4>1. d \in Nat \ {0} /\ 2 * Current * room + d \in Int /\ 2 * d \in Nat \ {0}
        BY <1>3, <2>1, <3>2
      <4>2. (2 * Current * room + d) \div (2 * d) \in Int
        BY <4>1, QuotientsAreNumbers
      <4>3. QED
        BY <3>2, <4>2
    <3>3. QED
      BY <3>1, <3>2
  <2>3. /\ Execute(fewer) /\ Clamp(fewer, 1, Current) < Current
        /\ UNCHANGED <<pid, boost, last>>
    BY <1>7 DEF Throttles, room
  <2> HIDE DEF fewer
  <2>4. fewer <= MaxAtStart
    BY <1>3, <2>2, <2>3, AdaptiveNumbers DEF Clamp
  <2>5. override' \in 0..MaxAtStart
    BY <2>2, <2>3, <2>4, ExecutedIsInRange
  <2>6. QED
    BY <1>1, <1>4, <2>3, <2>5 DEF AdaptiveTypeOK
<1>8. ASSUME NEW s \in Snapshots, StubTick(s) PROVE AdaptiveInv'
  <2> DEFINE tier == ByKeys(ClassifyTier(s.inflight), Cardinality(ActiveKeys(s)))
  <2>1. tier \in Int
    BY RatesAreNumbers, ByKeysIsNumber
  <2>2. Execute(Least(tier, DefaultAtStart)) /\ UNCHANGED <<pid, boost, last>>
    BY <1>8 DEF StubTick
  <2> HIDE DEF tier
  <2>3. Least(tier, DefaultAtStart) \in Int /\ Least(tier, DefaultAtStart) <= MaxAtStart
    BY <2>1, AdaptiveNumbers DEF Least
  <2>4. override' \in 0..MaxAtStart
    BY <2>2, <2>3, ExecutedIsInRange
  <2>5. QED
    BY <1>1, <1>4, <2>2, <2>4 DEF AdaptiveTypeOK
<1>9. ASSUME NEW n \in Asked, NEW k \in PilotKeys, NEW percent \in {0, 10, 100, 200},
             ModelTick(n, k, percent)
      PROVE  AdaptiveInv'
  <2>1. n \in Int /\ 1 \in Int /\ MaxAtStart \in Int /\ 1 <= MaxAtStart
    BY AdaptiveAssumption, AdaptiveNumbers
  <2>2. Clamp(n, 1, MaxAtStart) \in 1..MaxAtStart
    BY <2>1 DEF Clamp
  <2>3. override' \in 0..MaxAtStart
    BY <1>9, <2>1, <2>2, ExecutedIsInRange DEF ModelTick
  <2>4. boost' \in [PilotKeys -> {10, 100, 200}] /\ pid' = pid
    BY <1>1, <1>9, BoostedIsPercent DEF ModelTick
  <2>5. QED
    BY <1>1, <1>4, <2>3, <2>4
<1>10. QED
  BY <1>5, <1>6, <1>7, <1>8, <1>9 DEF Tuned

LEMMA AdaptiveStep == AdaptiveInv /\ [AdaptiveNext]_adaptiveVars => AdaptiveInv'
<1> SUFFICES ASSUME AdaptiveInv, [AdaptiveNext]_adaptiveVars
             PROVE  AdaptiveInv'
  OBVIOUS
<1>1. CASE Tuned
  BY <1>1, TunedStep
<1>2. ASSUME NEW l \in LimitsLater, LimitsChange(l) PROVE AdaptiveInv'
  BY <1>2 DEF AdaptiveInv, AdaptiveTypeOK, LimitsChange
<1>3. CASE UNCHANGED adaptiveVars
  BY <1>3 DEF AdaptiveInv, AdaptiveTypeOK, adaptiveVars
<1>4. QED
  BY <1>1, <1>2, <1>3 DEF AdaptiveNext

LEMMA AdaptiveInitially == AdaptiveInit => AdaptiveInv
<1> SUFFICES ASSUME AdaptiveInit
             PROVE  AdaptiveInv
  OBVIOUS
<1>1. pid \in Pid
  BY DEF AdaptiveInit, Pid
<1>2. ticks \in 0..MaxTicks
  BY AdaptiveNumbers DEF AdaptiveInit
<1>3. 0 \in 0..MaxAtStart
  BY AdaptiveNumbers
<1>4. QED
  BY <1>1, <1>2, <1>3 DEF AdaptiveInit, AdaptiveInv, AdaptiveTypeOK

(* For all keys, measurements and limits: whichever engine decides and     *)
(* whatever it is told (adaptive.go, forecast.go, llm.go, executor.go),    *)
(* its override stays within the maximum the controller was given.         *)
THEOREM AdaptiveInvariance == AdaptiveSpec => []AdaptiveInv
<1>1. QED
  BY AdaptiveInitially, AdaptiveStep, PTL DEF AdaptiveSpec
=============================================================================
