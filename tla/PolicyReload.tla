---------------------------- MODULE PolicyReload ----------------------------
(***************************************************************************)
(* The runtime policy of a running proxy: how `proxy start' builds it from *)
(* layers, how the file watcher reloads it (server.go), how `proxy policy' *)
(* edits the file, and what requests are judged by (handler.go,            *)
(* capability.go).                                                         *)
(*                                                                         *)
(* The policy lives in two places.  The handler's PolicyConfig is swapped  *)
(* by every reload.  The RuntimeEvaluator has its own compiled preset,     *)
(* replaced only when a reload sees the preset change, and the PolicyConfig*)
(* it was constructed with, which nothing replaces.                        *)
(*                                                                         *)
(* The debounce timer runs each reload in a goroutine of its own.  An edit *)
(* is taken to be complete when the timer fires, 200ms after its last      *)
(* event, so it is one step here.                                          *)
(***************************************************************************)
EXTENDS Naturals

CONSTANTS
  Presets,         \* validPresets
  RuntimePresets,  \* the presets that have runtime Rego (preset.GetRuntime)
  Overlay,         \* project config, org policy and CLI flags, merged
  Contents,        \* what an edit by hand may leave in policy.yaml
  StartContents,   \* what policy.yaml may hold when the proxy starts
  Unparsable,      \* policy.yaml that LoadPolicyConfig rejects
  None,            \* a key that a config leaves out
  Reloaders,       \* reload goroutines that can be running at once
  Requests,        \* request goroutines
  MaxEdits         \* bound: edits of policy.yaml

CapActions == {"block", "warn", "log"}

\* A config file: the preset, the action for a capability violation, and the
\* preset for skills of tier "unverified".  Any of them may be left out.
PartialConfigs == [preset : Presets \cup {None},
                   cap : CapActions \cup {None},
                   prov : Presets \cup {None}]

Configs == [preset : Presets, cap : CapActions, prov : Presets \cup {None}]

ASSUME PolicyAssumption ==
  /\ RuntimePresets \subseteq Presets
  /\ "moderate" \in RuntimePresets /\ "strict" \in RuntimePresets
  /\ Overlay \in PartialConfigs
  /\ Contents \subseteq PartialConfigs \cup {Unparsable}
  /\ StartContents \subseteq PartialConfigs \cup {Unparsable}
  /\ Unparsable \notin PartialConfigs
  /\ None \notin Presets \cup CapActions
  /\ MaxEdits \in Nat

VARIABLES
  disk,        \* policy.yaml
  edits,       \* edits made
  armed,       \* the debounce timer is running
  reload,      \* each reload goroutine: where it is, what it read
  handler,     \* Handler.atomicPolicy
  evalPreset,  \* RuntimeEvaluator.prepared, None if there is no evaluator
  evalConfig,  \* RuntimeEvaluator.config
  req          \* each request goroutine

vars == << disk, edits, armed, reload, handler, evalPreset, evalConfig, req >>

Tiers == {"", "verified", "unverified"}

TypeOK ==
  /\ disk \in PartialConfigs \cup {Unparsable}
  /\ edits \in 0 .. MaxEdits
  /\ armed \in BOOLEAN
  /\ reload \in [Reloaders ->
       [pc : {"idle", "loaded", "swap", "compile"},
        new : Configs, old : Presets]]
  /\ handler \in Configs
  /\ evalPreset \in RuntimePresets \cup {None}
  /\ evalConfig \in Configs
  /\ req \in [Requests ->
       [pc : {"idle", "judge", "done"}, override : Presets \cup {None},
        manifest : BOOLEAN, denied : SUBSET RuntimePresets,
        decision : CapActions \cup {"allow"}]]

-----------------------------------------------------------------------------
DefaultPolicyConfig == [preset |-> "moderate", cap |-> "block", prov |-> None]

Or(x, y) == IF x = None THEN y ELSE x

\* MergePolicyConfigs, layering an override on a base.
Merge(base, over) ==
  [preset |-> Or(over.preset, base.preset),
   cap |-> Or(over.cap, base.cap),
   prov |-> Or(over.prov, base.prov)]

\* A file that is missing or invalid is passed over.
UserLayer(content) ==
  IF content = Unparsable THEN DefaultPolicyConfig
  ELSE Merge(DefaultPolicyConfig, content)

\* runProxyStart: defaults < user config < project config < CLI flags.
Layered(content) == Merge(UserLayer(content), Overlay)

\* NewRuntimeEvaluator: without runtime Rego for the preset there is no
\* evaluator, and the proxy goes on without capability enforcement.
NewEvaluator(preset) == IF preset \in RuntimePresets THEN preset ELSE None

Idle == [pc |-> "idle", new |-> DefaultPolicyConfig, old |-> "moderate"]

NoRequest == [pc |-> "idle", override |-> None, manifest |-> FALSE,
              denied |-> {}, decision |-> "allow"]

\* runProxyStart reads the file well before startPolicyWatcher watches it: the
\* proxy starts on what was read, and an edit in between arms no timer.
Init ==
  /\ disk \in StartContents
  /\ edits = 0
  /\ armed = FALSE
  /\ reload = [r \in Reloaders |-> Idle]
  /\ \E read \in StartContents :
       /\ handler = Layered(read)
       /\ evalPreset = NewEvaluator(Layered(read).preset)
       /\ evalConfig = Layered(read)
  /\ req = [q \in Requests |-> NoRequest]

-----------------------------------------------------------------------------
(* Edits of policy.yaml.  Each arms the debounce timer again. *)

Edit(content) ==
  /\ edits < MaxEdits
  /\ disk' = content
  /\ edits' = edits + 1
  /\ armed' = TRUE
  /\ UNCHANGED << reload, handler, evalPreset, evalConfig, req >>

\* The user edits the file.
EditByHand == \E c \in Contents : Edit(c)

\* proxy policy set capability_violation <action>
PolicySet == \E a \in CapActions : Edit([UserLayer(disk) EXCEPT !.cap = a])

\* proxy policy preset <name>
PolicyPreset ==
  \E p \in RuntimePresets : Edit([UserLayer(disk) EXCEPT !.preset = p])

-----------------------------------------------------------------------------
(* reloadPolicyConfig, run by the debounce timer. *)

\* The timer fires, the goroutine reads and parses the file.  A file that
\* does not parse leaves the policy as it is.
ReadPolicy(r) ==
  /\ armed
  /\ reload[r].pc = "idle"
  /\ armed' = FALSE
  /\ reload' = IF disk = Unparsable THEN reload
               ELSE [reload EXCEPT ![r] =
                       [pc |-> "loaded", new |-> UserLayer(disk),
                        old |-> "moderate"]]
  /\ UNCHANGED << disk, edits, handler, evalPreset, evalConfig, req >>

\* oldConfig := getPolicyConfig()
ReadOld(r) ==
  /\ reload[r].pc = "loaded"
  /\ reload' = [reload EXCEPT ![r].pc = "swap", ![r].old = handler.preset]
  /\ UNCHANGED << disk, edits, armed, handler, evalPreset, evalConfig, req >>

\* A swap that reloads the evaluator only for a preset of another name than
\* the evaluator's start-up config has.
CompareWithStart(r) ==
  /\ reload[r].pc = "swap"
  /\ handler' = reload[r].new
  /\ reload' = [reload EXCEPT ![r] =
                  IF evalConfig.preset # reload[r].new.preset
                  THEN [@ EXCEPT !.pc = "compile"] ELSE Idle]
  /\ UNCHANGED << disk, edits, armed, evalPreset, evalConfig, req >>

\* A swap for a new preset only.
SwapOnPresetChange(r) ==
  /\ reload[r].pc = "swap"
  /\ handler' = IF reload[r].old # reload[r].new.preset THEN reload[r].new
                ELSE handler
  /\ reload' = [reload EXCEPT ![r] =
                  IF reload[r].old # reload[r].new.preset /\ evalPreset # None
                  THEN [@ EXCEPT !.pc = "compile"] ELSE Idle]
  /\ UNCHANGED << disk, edits, armed, evalPreset, evalConfig, req >>

\* SetPolicyConfig, and whether the evaluator has to follow.
Swap(r) ==
  /\ reload[r].pc = "swap"
  /\ handler' = reload[r].new
  /\ reload' = [reload EXCEPT ![r] =
                  IF reload[r].old # reload[r].new.preset /\ evalPreset # None
                  THEN [@ EXCEPT !.pc = "compile"] ELSE Idle]
  /\ UNCHANGED << disk, edits, armed, evalPreset, evalConfig, req >>

\* RuntimeEvaluator.ReloadPolicy; without Rego for the preset it fails and
\* the old preset stays.
ReloadPolicy(r) ==
  /\ reload[r].pc = "compile"
  /\ evalPreset' = IF reload[r].new.preset \in RuntimePresets
                   THEN reload[r].new.preset ELSE evalPreset
  /\ reload' = [reload EXCEPT ![r] = Idle]
  /\ UNCHANGED << disk, edits, armed, handler, evalConfig, req >>

-----------------------------------------------------------------------------
(* Handler.OnRequest with the RuntimeEvaluator. *)

ProvenancePresetFor(config, tier) ==
  IF tier = "unverified" THEN Or(config.prov, "strict") ELSE "moderate"

\* The handler takes the PolicyConfig and, for a skill whose tier is known,
\* the preset that overrides the evaluator's.  `manifest' says whether the
\* evaluator has the skill's manifest; `denied' are the presets whose Rego
\* denies what the skill does.
BeginRequest(q, tier, manifest, denied) ==
  /\ evalPreset # None
  /\ req[q].pc # "judge"
  /\ req' = [req EXCEPT ![q] =
               [NoRequest EXCEPT !.pc = "judge", !.manifest = manifest,
                  !.denied = denied,
                  !.override = IF tier = "" THEN None
                               ELSE ProvenancePresetFor(handler, tier)]]
  /\ UNCHANGED << disk, edits, armed, reload, handler, evalPreset, evalConfig >>

\* resolvePreset on an override it cannot load, answered with the default.
FallBackToDefault(override) ==
  IF override \in RuntimePresets THEN override ELSE evalPreset

\* resolvePreset: the override, or the evaluator's own preset.
ResolvePreset(override) == Or(override, evalPreset)

\* Evaluate: a skill without a manifest is only observed (learning mode); a
\* preset that cannot be loaded blocks; a denial gets the action that the
\* evaluator's config has for capability violations.
Judge(q) ==
  /\ req[q].pc = "judge"
  /\ LET p == ResolvePreset(req[q].override)
     IN  req' = [req EXCEPT ![q].pc = "done",
                   ![q].decision =
                      IF ~req[q].manifest THEN "allow"
                      ELSE IF p \notin RuntimePresets THEN "block"
                      ELSE IF p \in req[q].denied THEN evalConfig.cap
                      ELSE "allow"]
  /\ UNCHANGED << disk, edits, armed, reload, handler, evalPreset, evalConfig >>

-----------------------------------------------------------------------------
ReloadStep(r) == ReadPolicy(r) \/ ReadOld(r) \/ Swap(r) \/ ReloadPolicy(r)

Next ==
  \/ EditByHand
  \/ PolicySet
  \/ PolicyPreset
  \/ \E r \in Reloaders : ReloadStep(r)
  \/ \E q \in Requests : Judge(q)
  \/ \E q \in Requests, t \in Tiers, m \in BOOLEAN,
        d \in {{}, {"strict"}, RuntimePresets} : BeginRequest(q, t, m, d)

Spec == Init /\ [][Next]_vars

\* The Go runtime fires expired timers and runs the goroutines they start.
FairSpec == Spec /\ WF_vars(\E r \in Reloaders : ReadPolicy(r))
                 /\ \A r \in Reloaders :
                      WF_vars(ReadOld(r) \/ Swap(r) \/ ReloadPolicy(r))

-----------------------------------------------------------------------------
Quiet == ~armed /\ \A r \in Reloaders : reload[r].pc = "idle"

(* With no reload pending, the preset the evaluator enforces is the one the
   handler's config names (reloadPolicyConfig compares the preset with the
   one it replaces, so no sequence of edits, invalid ones included, may leave
   the two apart).  Holds when reloads do not overlap and every preset has
   runtime Rego. *)
EvaluatorFollowsHandler == Quiet => evalPreset = handler.preset

(* A request of a skill with a manifest, whose tier is mapped to a preset
   without runtime Rego, is refused, whatever reloads go on around it and
   whatever action the policy gives capability violations (Evaluate is
   fail-closed). *)
UnloadablePresetRefuses ==
  \A q \in Requests :
    /\ req[q].pc = "done" /\ req[q].manifest
    /\ req[q].override \notin RuntimePresets \cup {None}
    => req[q].decision = "block"

(* Once the file is no longer edited, the handler comes to hold what the file
   says and stays there, unless the file does not parse.  (What the file says
   and no more: the layers above it are in force at the start only.  It takes
   an edit that the watcher sees: one made while the proxy starts is in force
   from the next edit on.) *)
ReloadConverges ==
  <>[](disk # Unparsable /\ edits > 0 => handler = UserLayer(disk))

=============================================================================
