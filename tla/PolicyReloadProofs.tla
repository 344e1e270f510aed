------------------------- MODULE PolicyReloadProofs -------------------------
(***************************************************************************)
(* Proofs about the runtime policy, for any presets, any layers and any edits*)
(* of policy.yaml.  That the handler follows the file takes the hypothesis *)
(* of one reload at a time; that the evaluator follows the handler takes   *)
(* presets that have runtime Rego besides.                                 *)
(***************************************************************************)
EXTENDS PolicyReload, TLAPS

\* No two reloads run at the same time.
OneReload == \A r, s \in Reloaders : r = s

\* A config, or no config, that names a preset with runtime Rego, or none.
Runs(c) == c # Unparsable => c.preset \in RuntimePresets \cup {None}

\* Every preset that a layer of the policy names has runtime Rego.
NamedPresetsRun ==
  Runs(Overlay) /\ \A c \in Contents \cup StartContents : Runs(c)

\* The evaluator has the handler's preset, or a reload that has swapped the
\* handler's config is about to compile it.
FollowOK ==
  /\ handler.preset \in RuntimePresets
  /\ evalPreset \in RuntimePresets
  /\ \A r \in Reloaders :
       /\ reload[r].pc \in {"loaded", "swap"} => reload[r].new.preset \in RuntimePresets
       /\ reload[r].pc = "swap" => reload[r].old = handler.preset
       /\ reload[r].pc = "compile" => reload[r].new.preset = handler.preset
  /\ (\A r \in Reloaders : reload[r].pc # "compile") => evalPreset = handler.preset

PolicyIInv ==
  /\ TypeOK
  /\ UnloadablePresetRefuses
  /\ NamedPresetsRun => Runs(disk)
  /\ OneReload /\ NamedPresetsRun => FollowOK

ReloadStates ==
  [pc : {"idle", "loaded", "swap", "compile"}, new : Configs, old : Presets]

RequestRecords ==
  [pc : {"idle", "judge", "done"}, override : Presets \cup {None},
   manifest : BOOLEAN, denied : SUBSET RuntimePresets,
   decision : CapActions \cup {"allow"}]

-----------------------------------------------------------------------------
\* The presets and the values that requests and reloads start with.
LEMMA PresetFacts ==
  /\ RuntimePresets \subseteq Presets
  /\ "moderate" \in RuntimePresets /\ "strict" \in RuntimePresets
  /\ None \notin Presets /\ None \notin CapActions
  /\ Unparsable \notin PartialConfigs
  /\ Overlay \in PartialConfigs
  /\ DefaultPolicyConfig \in Configs
  /\ Idle \in ReloadStates /\ Idle.pc = "idle"
  /\ NoRequest \in RequestRecords /\ NoRequest.pc = "idle"
  BY PolicyAssumption
  DEF DefaultPolicyConfig, Configs, CapActions, Idle, ReloadStates, NoRequest, RequestRecords

\* Layering: a config on a config.
LEMMA MergeFacts ==
  ASSUME NEW base \in Configs, NEW over \in PartialConfigs
  PROVE  /\ Merge(base, over) \in Configs
         /\ Merge(base, over).preset = Or(over.preset, base.preset)
         /\ base.preset \in RuntimePresets /\ over.preset \in RuntimePresets \cup {None} =>
              Merge(base, over).preset \in RuntimePresets
  BY PresetFacts DEF Merge, Or, Configs, PartialConfigs

\* The user's file on the defaults.
LEMMA LayerFacts ==
  ASSUME NEW c \in PartialConfigs \cup {Unparsable}
  PROVE  /\ UserLayer(c) \in Configs
         /\ Runs(c) => UserLayer(c).preset \in RuntimePresets
         /\ Layered(c) \in Configs
         /\ Runs(c) /\ Runs(Overlay) => Layered(c).preset \in RuntimePresets
  <1>1. /\ UserLayer(c) \in Configs
        /\ Runs(c) => UserLayer(c).preset \in RuntimePresets
    <2>1. DefaultPolicyConfig.preset \in RuntimePresets
      BY PresetFacts DEF DefaultPolicyConfig
    <2>2. CASE c = Unparsable
      BY <2>1, <2>2, PresetFacts DEF UserLayer
    <2>3. CASE c # Unparsable
      BY <2>1, <2>3, PresetFacts, MergeFacts DEF UserLayer, Runs
    <2> QED BY <2>2, <2>3
  <1>2. Overlay # Unparsable
    BY PresetFacts
  <1> QED BY <1>1, <1>2, PresetFacts, MergeFacts DEF Layered, Runs

\* The handler and the evaluator start with one policy.
LEMMA PolicyInitial == Init => PolicyIInv
  <1> SUFFICES ASSUME Init PROVE PolicyIInv
    OBVIOUS
  <1>1. disk \in PartialConfigs \cup {Unparsable} /\ disk \in StartContents
    BY PolicyAssumption DEF Init
  <1>7. PICK read \in StartContents :
          /\ handler = Layered(read) /\ evalConfig = Layered(read)
          /\ evalPreset = NewEvaluator(Layered(read).preset)
    BY DEF Init
  <1>8. read \in PartialConfigs \cup {Unparsable}
    BY PolicyAssumption
  <1>2. evalPreset \in RuntimePresets \cup {None}
    BY <1>7 DEF NewEvaluator
  <1>3. /\ reload = [r \in Reloaders |-> Idle]
        /\ req = [q \in Requests |-> NoRequest]
    BY DEF Init
  <1>4. TypeOK
    <2>1. /\ reload \in [Reloaders -> ReloadStates]
          /\ req \in [Requests -> RequestRecords]
      BY <1>3, PresetFacts
    <2>2. handler \in Configs /\ evalConfig \in Configs
      BY <1>7, <1>8, LayerFacts
    <2>3. edits \in 0 .. MaxEdits
      BY PolicyAssumption, SMT DEF Init
    <2>4. armed \in BOOLEAN
      BY Zenon DEF Init
    <2> QED BY <1>1, <1>2, <2>1, <2>2, <2>3, <2>4 DEF TypeOK, ReloadStates, RequestRecords
  <1>5. UnloadablePresetRefuses
    BY <1>3, PresetFacts DEF UnloadablePresetRefuses
  <1>6. ASSUME NamedPresetsRun PROVE FollowOK /\ Runs(disk)
    <2>1. Layered(read).preset \in RuntimePresets /\ Runs(disk)
      BY <1>1, <1>6, <1>7, <1>8, LayerFacts DEF NamedPresetsRun
    <2> QED BY <1>3, <1>7, <2>1, PresetFacts DEF FollowOK, NewEvaluator
  <1> QED BY <1>4, <1>5, <1>6 DEF PolicyIInv

-----------------------------------------------------------------------------
\* An edit leaves a file that parses to a config, or does not parse.
LEMMA EditStep ==
  ASSUME PolicyIInv, NEW c \in PartialConfigs \cup {Unparsable}, Edit(c),
         NamedPresetsRun => Runs(c)
  PROVE  PolicyIInv'
  <1>1. TypeOK'
    BY PolicyAssumption DEF PolicyIInv, TypeOK, Edit
  <1>2. UnloadablePresetRefuses'
    BY DEF PolicyIInv, UnloadablePresetRefuses, Edit
  <1>3. ASSUME OneReload, NamedPresetsRun PROVE FollowOK'
    BY <1>3 DEF PolicyIInv, FollowOK, Edit
  <1>4. NamedPresetsRun => Runs(disk)'
    BY DEF Edit, Runs
  <1> QED BY <1>1, <1>2, <1>3, <1>4 DEF PolicyIInv

\* The edits are of that kind.
LEMMA EditsStep ==
  ASSUME PolicyIInv, EditByHand \/ PolicySet \/ PolicyPreset
  PROVE  PolicyIInv'
  <1>1. CASE EditByHand
    BY <1>1, EditStep, PolicyAssumption DEF EditByHand, NamedPresetsRun
  <1>2. disk \in PartialConfigs \cup {Unparsable}
    BY DEF PolicyIInv, TypeOK
  <1>3. UserLayer(disk) \in Configs
    BY <1>2, LayerFacts
  <1>4. CASE PolicySet
    <2>1. PICK a \in CapActions : Edit([UserLayer(disk) EXCEPT !.cap = a])
      BY <1>4 DEF PolicySet
    <2> DEFINE c == [UserLayer(disk) EXCEPT !.cap = a]
    <2>2. c \in PartialConfigs /\ c.preset = UserLayer(disk).preset
      BY <1>3 DEF Configs, PartialConfigs
    <2>3. ASSUME NamedPresetsRun PROVE Runs(c)
      BY <1>2, <2>2, <2>3, LayerFacts DEF Runs, PolicyIInv
    <2> HIDE DEF c
    <2> QED BY <2>1, <2>2, <2>3, EditStep DEF c
  <1>5. CASE PolicyPreset
    <2>1. PICK p \in RuntimePresets : Edit([UserLayer(disk) EXCEPT !.preset = p])
      BY <1>5 DEF PolicyPreset
    <2> DEFINE c == [UserLayer(disk) EXCEPT !.preset = p]
    <2>2. c \in PartialConfigs /\ c.preset = p
      BY <1>3, PresetFacts DEF Configs, PartialConfigs
    <2>3. Runs(c)
      BY <2>2 DEF Runs
    <2> HIDE DEF c
    <2> QED BY <2>1, <2>2, <2>3, EditStep DEF c
  <1> QED BY <1>1, <1>4, <1>5

-----------------------------------------------------------------------------
\* A step of a reload that moves it to x, and leaves files and requests alone.
LEMMA ReloadMoves ==
  ASSUME PolicyIInv, NEW r \in Reloaders, NEW x \in ReloadStates,
         reload' = [reload EXCEPT ![r] = x],
         handler' \in Configs, evalPreset' \in RuntimePresets \cup {None},
         armed' \in BOOLEAN, UNCHANGED << disk, edits, evalConfig, req >>,
         OneReload /\ NamedPresetsRun /\ FollowOK =>
           /\ handler'.preset \in RuntimePresets
           /\ evalPreset' \in RuntimePresets
           /\ x.pc \in {"loaded", "swap"} => x.new.preset \in RuntimePresets
           /\ x.pc = "swap" => x.old = handler'.preset
           /\ x.pc = "compile" => x.new.preset = handler'.preset
           /\ x.pc # "compile" => evalPreset' = handler'.preset
  PROVE  PolicyIInv'
  <1>1. /\ reload \in [Reloaders -> ReloadStates]
    BY DEF PolicyIInv, TypeOK, ReloadStates
  <1>2. reload' \in [Reloaders -> ReloadStates] /\ reload'[r] = x
    BY <1>1
  <1>3. TypeOK'
    BY <1>2 DEF PolicyIInv, TypeOK, ReloadStates
  <1>4. UnloadablePresetRefuses' /\ (NamedPresetsRun => Runs(disk)')
    BY DEF PolicyIInv, UnloadablePresetRefuses, Runs
  <1>5. ASSUME OneReload, NamedPresetsRun PROVE FollowOK'
    <2>1. \A s \in Reloaders : s = r
      BY <1>5 DEF OneReload
    <2> QED BY <1>2, <1>5, <2>1 DEF PolicyIInv, FollowOK
  <1> QED BY <1>3, <1>4, <1>5 DEF PolicyIInv

\* Every step of a reload keeps the evaluator behind the handler.
LEMMA ReloadSteps ==
  ASSUME PolicyIInv, NEW r \in Reloaders, ReloadStep(r)
  PROVE  PolicyIInv'
  <1>1. /\ TypeOK /\ reload \in [Reloaders -> ReloadStates]
        /\ reload[r].new \in Configs /\ reload[r].old \in Presets
        /\ handler \in Configs /\ handler.preset \in Presets /\ armed \in BOOLEAN
        /\ evalPreset \in RuntimePresets \cup {None}
        /\ disk \in PartialConfigs \cup {Unparsable}
    BY DEF PolicyIInv, TypeOK, ReloadStates, Configs
  <1>2. CASE ReadPolicy(r)
    <2>1. CASE disk = Unparsable
      <3>1. UNCHANGED << disk, edits, reload, handler, evalPreset, evalConfig, req >>
            /\ armed' = FALSE
        BY <1>2, <2>1 DEF ReadPolicy
      <3> QED BY <3>1 DEF PolicyIInv, TypeOK, UnloadablePresetRefuses, FollowOK, Runs
    <2>2. CASE disk # Unparsable
      <3> DEFINE x == [pc |-> "loaded", new |-> UserLayer(disk), old |-> "moderate"]
      <3>1. /\ reload[r].pc = "idle" /\ reload' = [reload EXCEPT ![r] = x] /\ armed' = FALSE
            /\ UNCHANGED << disk, edits, handler, evalPreset, evalConfig, req >>
        BY <1>2, <2>2 DEF ReadPolicy
      <3>2. x \in ReloadStates /\ x.pc = "loaded" /\ x.new = UserLayer(disk)
        BY <1>1, LayerFacts, PresetFacts DEF ReloadStates
      <3> HIDE DEF x
      <3>3. OneReload /\ NamedPresetsRun /\ FollowOK =>
              /\ UserLayer(disk).preset \in RuntimePresets
              /\ evalPreset = handler.preset
        BY <1>1, <3>1, LayerFacts DEF PolicyIInv, FollowOK, OneReload
      <3>4. FollowOK => evalPreset \in RuntimePresets /\ handler.preset \in RuntimePresets
        BY DEF FollowOK
      <3> QED BY <1>1, <3>1, <3>2, <3>3, <3>4, ReloadMoves
    <2> QED BY <2>1, <2>2
  <1>3. CASE ReadOld(r)
    <2> DEFINE x == [reload[r] EXCEPT !.pc = "swap", !.old = handler.preset]
    <2>1. /\ reload[r].pc = "loaded" /\ reload' = [reload EXCEPT ![r] = x]
          /\ UNCHANGED << disk, edits, armed, handler, evalPreset, evalConfig, req >>
      BY <1>1, <1>3 DEF ReadOld, ReloadStates
    <2>2. /\ x \in ReloadStates /\ x.pc = "swap" /\ x.old = handler.preset
          /\ x.new = reload[r].new
      BY <1>1 DEF ReloadStates
    <2> HIDE DEF x
    <2>3. OneReload /\ FollowOK =>
            /\ evalPreset \in RuntimePresets /\ evalPreset = handler.preset
            /\ reload[r].new.preset \in RuntimePresets
      BY <2>1 DEF FollowOK, OneReload
    <2> QED BY <1>1, <2>1, <2>2, <2>3, ReloadMoves
  <1>4. CASE Swap(r)
    <2> DEFINE y == [reload[r] EXCEPT !.pc = "compile"]
               x == IF reload[r].old # reload[r].new.preset /\ evalPreset # None
                    THEN y ELSE Idle
    <2>1. /\ reload[r].pc = "swap" /\ reload' = [reload EXCEPT ![r] = x]
          /\ handler' = reload[r].new
          /\ UNCHANGED << disk, edits, armed, evalPreset, evalConfig, req >>
      BY <1>1, <1>4 DEF Swap
    <2>2. y \in ReloadStates /\ y.pc = "compile" /\ y.new = reload[r].new
      BY <1>1 DEF ReloadStates
    <2> HIDE DEF y
    <2>3. x \in ReloadStates /\ x.pc \in {"compile", "idle"}
      BY <2>2, PresetFacts
    <2>4. x.pc = "compile" => x.new.preset = reload[r].new.preset
      BY <2>2, PresetFacts
    <2>5. OneReload /\ FollowOK =>
            /\ evalPreset \in RuntimePresets /\ evalPreset = handler.preset
            /\ reload[r].new.preset \in RuntimePresets
            /\ reload[r].old = handler.preset
      BY <2>1 DEF FollowOK, OneReload
    <2>6. OneReload /\ FollowOK /\ x.pc # "compile" => evalPreset = reload[r].new.preset
      BY <2>2, <2>5, PresetFacts
    <2> HIDE DEF x
    <2> QED BY <1>1, <2>1, <2>3, <2>4, <2>5, <2>6, ReloadMoves
  <1>5. CASE ReloadPolicy(r)
    <2>1. /\ reload[r].pc = "compile" /\ reload' = [reload EXCEPT ![r] = Idle]
          /\ evalPreset' = IF reload[r].new.preset \in RuntimePresets
                           THEN reload[r].new.preset ELSE evalPreset
          /\ UNCHANGED << disk, edits, armed, handler, evalConfig, req >>
      BY <1>5 DEF ReloadPolicy
    <2>2. evalPreset' \in RuntimePresets \cup {None}
      BY <1>1, <2>1
    <2>3. FollowOK => /\ reload[r].new.preset = handler.preset
                      /\ handler.preset \in RuntimePresets
      BY <2>1 DEF FollowOK
    <2> QED BY <1>1, <2>1, <2>2, <2>3, PresetFacts, ReloadMoves
  <1> QED BY <1>2, <1>3, <1>4, <1>5 DEF ReloadStep

-----------------------------------------------------------------------------
\* A step of a request, which leaves the policy alone.
LEMMA RequestMoves ==
  ASSUME PolicyIInv, NEW q \in Requests, NEW x \in RequestRecords,
         req' = [req EXCEPT ![q] = x],
         UNCHANGED << disk, edits, armed, reload, handler, evalPreset, evalConfig >>,
         x.pc = "done" /\ x.manifest /\ x.override \notin RuntimePresets \cup {None}
           => x.decision = "block"
  PROVE  PolicyIInv'
  <1>1. req \in [Requests -> RequestRecords]
    BY DEF PolicyIInv, TypeOK, RequestRecords
  <1>2. /\ req' \in [Requests -> RequestRecords] /\ req'[q] = x
        /\ \A o \in Requests \ {q} : req'[o] = req[o]
    BY <1>1
  <1>3. TypeOK'
    BY <1>2 DEF PolicyIInv, TypeOK, RequestRecords
  <1>4. UnloadablePresetRefuses'
    BY <1>2 DEF PolicyIInv, UnloadablePresetRefuses
  <1> QED BY <1>3, <1>4 DEF PolicyIInv, FollowOK, Runs

\* A request begins with the preset that its header names.
LEMMA BeginStep ==
  ASSUME PolicyIInv, NEW q \in Requests, NEW t \in Tiers, NEW m \in BOOLEAN,
         NEW d \in {{}, {"strict"}, RuntimePresets}, BeginRequest(q, t, m, d)
  PROVE  PolicyIInv'
  <1> DEFINE o == IF t = "" THEN None ELSE ProvenancePresetFor(handler, t)
             x == [NoRequest EXCEPT !.pc = "judge", !.manifest = m, !.denied = d,
                                    !.override = o]
  <1>1. handler.prov \in Presets \cup {None}
    BY DEF PolicyIInv, TypeOK, Configs
  <1>2. o \in Presets \cup {None} /\ d \subseteq RuntimePresets
    BY <1>1, PresetFacts DEF ProvenancePresetFor, Or
  <1>3. /\ req' = [req EXCEPT ![q] = x]
        /\ UNCHANGED << disk, edits, armed, reload, handler, evalPreset, evalConfig >>
    BY DEF BeginRequest
  <1> HIDE DEF o
  <1>4. x \in RequestRecords /\ x.pc = "judge"
    BY <1>2, PresetFacts DEF RequestRecords
  <1> HIDE DEF x
  <1> QED BY <1>3, <1>4, RequestMoves

\* A preset without runtime Rego refuses the request.
LEMMA JudgeStep ==
  ASSUME PolicyIInv, NEW q \in Requests, Judge(q)
  PROVE  PolicyIInv'
  <1> DEFINE p == ResolvePreset(req[q].override)
             d == IF ~req[q].manifest THEN "allow"
                  ELSE IF p \notin RuntimePresets THEN "block"
                  ELSE IF p \in req[q].denied THEN evalConfig.cap
                  ELSE "allow"
             x == [req[q] EXCEPT !.pc = "done", !.decision = d]
  <1>1. req \in [Requests -> RequestRecords] /\ evalConfig.cap \in CapActions
    BY DEF PolicyIInv, TypeOK, RequestRecords, Configs
  <1>2. d \in CapActions \cup {"allow"}
    BY <1>1 DEF CapActions
  <1>3. req[q].manifest /\ req[q].override \notin RuntimePresets \cup {None} => d = "block"
    BY DEF ResolvePreset, Or
  <1>4. /\ req' = [req EXCEPT ![q].pc = "done", ![q].decision = d]
        /\ UNCHANGED << disk, edits, armed, reload, handler, evalPreset, evalConfig >>
    BY DEF Judge
  <1> HIDE DEF d
  <1>5. /\ req' = [req EXCEPT ![q] = x] /\ x \in RequestRecords /\ x.decision = d
        /\ x.manifest = req[q].manifest /\ x.override = req[q].override
    BY <1>1, <1>2, <1>4 DEF RequestRecords
  <1> HIDE DEF x
  <1> QED BY <1>3, <1>4, <1>5, RequestMoves

\* Every step keeps the invariant.
LEMMA PolicyStep ==
  ASSUME PolicyIInv, [Next]_vars
  PROVE  PolicyIInv'
  <1>1. CASE UNCHANGED vars
    BY <1>1 DEF vars, PolicyIInv, TypeOK, UnloadablePresetRefuses, FollowOK, Runs
  <1> QED BY <1>1, EditsStep, ReloadSteps, BeginStep, JudgeStep DEF Next

(* The policy, the evaluator, the reloads and the requests keep their types:
   layering and reloading yield complete configs (MergePolicyConfigs,
   reloadPolicyConfig). *)
THEOREM PolicyTypes == Spec => []TypeOK
  <1>1. PolicyIInv => TypeOK
    BY DEF PolicyIInv
  <1> QED BY <1>1, PolicyInitial, PolicyStep, PTL DEF Spec

(* For any presets, files and edits: the evaluator enforces the preset of the
   handler's config when no reload is pending, if reloads do not overlap and
   the presets that are named have runtime Rego (reloadPolicyConfig). *)
THEOREM EvaluatorFollows ==
  ASSUME OneReload, NamedPresetsRun
  PROVE  Spec => []EvaluatorFollowsHandler
  <1>1. PolicyIInv => EvaluatorFollowsHandler
    BY DEF PolicyIInv, FollowOK, EvaluatorFollowsHandler, Quiet
  <1> QED BY <1>1, PolicyInitial, PolicyStep, PTL DEF Spec

-----------------------------------------------------------------------------
(* With no reload pending, the handler has what the file says, if it was ever
   edited and parses: an edit during a reload, or after one that failed, is not
   missed.  Holds when reloads do not overlap. *)
HandlerFollowsFile ==
  Quiet /\ edits > 0 /\ disk # Unparsable => handler = UserLayer(disk)

\* What is to be swapped in, or else the handler, is what the file says, or the
\* file will be read again.
FileOK ==
  ~armed /\ edits > 0 /\ disk # Unparsable =>
    /\ \A r \in Reloaders : reload[r].pc \in {"loaded", "swap"} =>
         reload[r].new = UserLayer(disk)
    /\ (\A r \in Reloaders : reload[r].pc \notin {"loaded", "swap"}) =>
         handler = UserLayer(disk)

\* A reload takes what the file says to the handler, unless the file changes.
LEMMA FileStep ==
  ASSUME OneReload, TypeOK, FileOK, [Next]_vars
  PROVE  FileOK'
  <1>0. reload \in [Reloaders -> ReloadStates]
    BY DEF TypeOK, ReloadStates
  <1>1. ASSUME NEW c, Edit(c)
        PROVE  FileOK'
    BY <1>1 DEF Edit, FileOK
  <1>2. ASSUME NEW r \in Reloaders, ReloadStep(r)
        PROVE  FileOK'
    <2>0. \A s \in Reloaders : s = r
      BY DEF OneReload
    <2>1. UNCHANGED << disk, edits >>
      BY <1>2 DEF ReloadStep, ReadPolicy, ReadOld, Swap, ReloadPolicy
    <2> SUFFICES ASSUME ~armed', edits > 0, disk # Unparsable
                 PROVE  /\ reload'[r].pc \in {"loaded", "swap"} =>
                             reload'[r].new = UserLayer(disk)
                        /\ reload'[r].pc \notin {"loaded", "swap"} =>
                             handler' = UserLayer(disk)
      BY <2>0, <2>1 DEF FileOK, UserLayer, Merge, Or
    <2>2. CASE ReadPolicy(r)
      <3>1. reload'[r].pc = "loaded" /\ reload'[r].new = UserLayer(disk)
        BY <1>0, <2>2 DEF ReadPolicy
      <3> QED BY <3>1
    <2>3. CASE ReadOld(r)
      <3>1. /\ ~armed /\ reload[r].pc = "loaded" /\ reload'[r].pc = "swap"
            /\ reload'[r].new = reload[r].new
        BY <1>0, <2>3 DEF ReadOld, ReloadStates
      <3> QED BY <3>1 DEF FileOK
    <2>4. CASE Swap(r)
      <3>1. /\ ~armed /\ reload[r].pc = "swap" /\ handler' = reload[r].new
            /\ reload'[r].pc \notin {"loaded", "swap"}
        BY <1>0, <2>4 DEF Swap, Idle, ReloadStates
      <3> QED BY <3>1 DEF FileOK
    <2>5. CASE ReloadPolicy(r)
      <3>1. /\ ~armed /\ reload[r].pc = "compile" /\ handler' = handler
            /\ reload'[r].pc = "idle"
        BY <1>0, <2>5 DEF ReloadPolicy, Idle
      <3> QED BY <2>0, <3>1 DEF FileOK
    <2> QED BY <1>2, <2>2, <2>3, <2>4, <2>5 DEF ReloadStep
  <1>3. ASSUME UNCHANGED << disk, edits, armed, reload, handler >>
        PROVE  FileOK'
    BY <1>3 DEF FileOK, UserLayer, Merge, Or
  <1>4. ASSUME NEW q \in Requests, NEW t \in Tiers, NEW m \in BOOLEAN,
               NEW d \in {{}, {"strict"}, RuntimePresets}, BeginRequest(q, t, m, d)
        PROVE  FileOK'
    BY <1>3, <1>4 DEF BeginRequest
  <1>5. CASE EditByHand \/ PolicySet \/ PolicyPreset
    BY <1>1, <1>5 DEF EditByHand, PolicySet, PolicyPreset
  <1>6. CASE UNCHANGED vars
    BY <1>3, <1>6 DEF vars
  <1>7. ASSUME NEW q \in Requests, Judge(q)
        PROVE  FileOK'
    BY <1>3, <1>7 DEF Judge
  <1> QED BY <1>2, <1>4, <1>5, <1>6, <1>7 DEF Next

(* For any presets, layers, edits and requests: with no reload pending, the
   handler's config is that of the edited file, if reloads do not overlap; no
   edit that the watcher sees is lost, the ones during a reload included
   (startPolicyWatcher and
   reloadPolicyConfig). *)
THEOREM HandlerFollows ==
  ASSUME OneReload
  PROVE  Spec => []HandlerFollowsFile
  <1>1. Init => FileOK
    BY DEF Init, FileOK
  <1>2. FileOK => HandlerFollowsFile
    BY DEF FileOK, HandlerFollowsFile, Quiet
  <1>3. TypeOK /\ FileOK /\ [Next]_vars => FileOK'
    BY FileStep
  <1> QED BY <1>1, <1>2, <1>3, PolicyTypes, PTL DEF Spec

(* For any number of requests and overlapping reloads: a preset that cannot be
   loaded blocks (RuntimeEvaluator.Evaluate). *)
THEOREM UnloadableRefused == Spec => []UnloadablePresetRefuses
  <1>1. PolicyIInv => UnloadablePresetRefuses
    BY DEF PolicyIInv
  <1> QED BY <1>1, PolicyInitial, PolicyStep, PTL DEF Spec
=============================================================================
