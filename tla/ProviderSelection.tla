-------------------------- MODULE ProviderSelection --------------------------
(***************************************************************************)
(* Which provider, model and credentials a planning run of the server      *)
(* uses: the settings an administrator saves                               *)
(* (store/planning_settings_store.go), the user's own binding to a model   *)
(* endpoint, and their resolution (planning/settings_backed_planner.go,    *)
(* planning/provider.go), made once when the run is created and again when *)
(* it generates.  Each resolution reads the settings, then the binding.    *)
(***************************************************************************)
EXTENDS Integers, Sequences, SequencesExt

CONSTANTS NoChoice,
          Models,        \* the models an endpoint may offer
          Admins,        \* update requests that may be in progress at a time
          ModelLists     \* the lists an administrator or a user may configure

Rules == "rules"         \* the model of the built-in provider

PlanningProviders == {"deterministic", "openai-compatible"}
CredentialModes == {"shared", "personal_preferred", "personal_required"}

\* Lists come normalised: trimmed and without repetitions.
ASSUME ProviderSelectionAssumption ==
  /\ NoChoice \notin Models \cup {Rules} \cup PlanningProviders
  /\ Rules \notin Models
  /\ ModelLists \subseteq Seq(Models)
  /\ \A l \in ModelLists : IsInjective(l)

VARIABLES settings,   \* the only row of planning_settings, NoChoice before the first save
          updates,    \* updates[e]: the settings request e has read
          personal,   \* the caller's active binding: its model and its list
          job         \* the planning run being resolved

selectionVars == <<settings, updates, personal, job>>

\* modes: the credential modes in force since this resolution began.
NoJob == [pc |-> "idle", request |-> NoChoice, read |-> NoChoice, recorded |-> NoChoice,
          modes |-> {}, call |-> NoChoice]

Default == [provider |-> "deterministic", model |-> Rules, models |-> <<Rules>>,
            mode |-> "shared"]

\* PlanningSettingsStore.Get, or what stands for a missing row.
InForce == IF settings = NoChoice THEN Default ELSE settings

SelectionInit ==
  /\ settings = NoChoice
  /\ updates = [e \in Admins |-> NoChoice]
  /\ personal = NoChoice
  /\ job = NoJob

-----------------------------------------------------------------------------
(* Administrators and users                                                *)

\* The row an update saves over the one it read.
Upserted(old, provider, model, models, mode) ==
  LET chosen == IF model = NoChoice THEN models[1] ELSE model
      offered == IF Contains(models, chosen) THEN models ELSE <<chosen>> \o models
  IN  [provider |-> provider,
       model |-> IF provider = "deterministic" THEN Rules ELSE chosen,
       models |-> IF provider = "deterministic" THEN <<Rules>> ELSE offered,
       mode |-> IF mode = NoChoice THEN old.mode ELSE mode]

UpdateReads(e) ==
  /\ updates[e] = NoChoice
  /\ updates' = [updates EXCEPT ![e] = InForce]
  /\ UNCHANGED <<settings, personal, job>>

\* The modes a resolution in progress has seen in force.
WithMode(mode) == IF job.pc = "idle" THEN job ELSE [job EXCEPT !.modes = @ \union {mode}]

UpdateSaves(e, provider, model, models, mode) ==
  /\ updates[e] # NoChoice
  /\ provider = "openai-compatible" => model # NoChoice \/ models # <<>>
  /\ settings' = Upserted(updates[e], provider, model, models, mode)
  /\ updates' = [updates EXCEPT ![e] = NoChoice]
  /\ job' = WithMode(InForce'.mode)
  /\ UNCHANGED personal

\* The columns of a new binding: each fills the other when that one is left out,
\* but a model is not added to a list that lacks it.
BindingOf(model, models) ==
  [model |-> IF model = NoChoice /\ models # <<>> THEN Head(models) ELSE model,
   models |-> IF models = <<>> /\ model # NoChoice THEN <<model>> ELSE models]

\* The user's bindings are AccountBindings: one takes the place of the active one,
\* the active one is patched column by column, or it is switched off or deleted.
PersonalBindingChanges(model, models) ==
  /\ \/ personal' = BindingOf(model, models)
     \/ /\ personal # NoChoice
        /\ \/ personal' = [personal EXCEPT !.model = model]
           \/ personal' = [personal EXCEPT !.models = models]
     \/ personal' = NoChoice
  /\ UNCHANGED <<settings, updates, job>>

-----------------------------------------------------------------------------
(* The registry of a resolution                                            *)

\* What each provider offers with these credentials, and the default.
Registry(source, provider, models, model) ==
  [source |-> source, provider |-> provider, model |-> model,
   offers |-> [p \in PlanningProviders |->
                 IF p = "deterministic" THEN <<Rules>> ELSE models]]

\* NewDefaultProviderRegistry fails unless the default can be used.
Usable(registry) == Contains(registry.offers[registry.provider], registry.model)

SharedRegistry(s) ==
  Registry(IF s.provider = "deterministic" THEN "system" ELSE "shared",
           s.provider,
           IF s.provider = "deterministic" THEN <<>> ELSE s.models, s.model)

\* A binding without a model gets the first of its list.  One without a base URL
\* fails like one without a list.
PersonalRegistry ==
  Registry("personal", "openai-compatible", personal.models,
           IF personal.model = NoChoice /\ personal.models # <<>> THEN Head(personal.models)
           ELSE personal.model)

\* resolve(): the caller's binding first, unless the credentials are shared.
Resolution(s) ==
  IF personal # NoChoice /\ s.mode # "shared" THEN PersonalRegistry
  ELSE IF s.mode = "personal_required" THEN NoChoice
  ELSE SharedRegistry(s)

\* ProviderRegistry.Resolve: the provider and model of a request, NoChoice for the
\* default of the server (without a provider) or of the provider.
Selected(registry, provider, model) ==
  LET p == IF provider = NoChoice THEN registry.provider ELSE provider
      m == IF model # NoChoice THEN model
           ELSE IF provider = NoChoice THEN registry.model
           ELSE IF registry.offers[p] = <<>> THEN NoChoice ELSE Head(registry.offers[p])
  IN  IF Contains(registry.offers[p], m) THEN [provider |-> p, model |-> m] ELSE NoChoice

\* Mutant: a request that cannot be met gets the default.
SelectedAgain_Defaulting(registry, selection) ==
  LET s == Selected(registry, selection.provider, selection.model)
  IN  IF s = NoChoice THEN [provider |-> registry.provider, model |-> registry.model] ELSE s

SelectedAgain(registry, selection) ==
  Selected(registry, selection.provider, selection.model)

-----------------------------------------------------------------------------
(* A run                                                                   *)

\* A run of the server is created for a requirement.
RunRequested(provider, model) ==
  /\ job.pc = "idle"
  /\ job' = [NoJob EXCEPT !.pc = "select", !.request = [provider |-> provider, model |-> model],
                          !.modes = {InForce.mode}]
  /\ UNCHANGED <<settings, updates, personal>>

ReadsSettings ==
  /\ job.pc \in {"select", "generate"} /\ job.read = NoChoice
  /\ job' = [job EXCEPT !.read = InForce]
  /\ UNCHANGED <<settings, updates, personal>>

\* ResolveSelection, which the new run records, or no run is created.
SelectionResolved ==
  /\ job.pc = "select" /\ job.read # NoChoice
  /\ LET registry == Resolution(job.read)
         chosen == IF registry = NoChoice THEN NoChoice
                   ELSE IF ~ Usable(registry) THEN NoChoice
                   ELSE Selected(registry, job.request.provider, job.request.model)
     IN  job' = IF chosen = NoChoice THEN NoJob
                ELSE [job EXCEPT !.pc = "generate", !.read = NoChoice, !.modes = {InForce.mode},
                                 !.recorded = chosen]
  /\ UNCHANGED <<settings, updates, personal>>

\* Generate: the run is failed, or the provider is called.
GenerationResolved ==
  /\ job.pc = "generate" /\ job.read # NoChoice
  /\ LET registry == Resolution(job.read)
         chosen == IF registry = NoChoice THEN NoChoice
                   ELSE IF ~ Usable(registry) THEN NoChoice
                   ELSE SelectedAgain(registry, job.recorded)
     IN  job' = IF chosen = NoChoice THEN NoJob
                ELSE [job EXCEPT !.pc = "called",
                                 !.call = [source |-> registry.source, use |-> chosen,
                                           offers |-> registry.offers[chosen.provider]]]
  /\ UNCHANGED <<settings, updates, personal>>

\* The provider's answer or error ends the run (Orchestrator).
CallEnds ==
  /\ job.pc = "called"
  /\ job' = NoJob
  /\ UNCHANGED <<settings, updates, personal>>

SelectionNext ==
  \/ \E e \in Admins : UpdateReads(e)
  \/ \E e \in Admins, p \in PlanningProviders, m \in Models \union {NoChoice},
        l \in ModelLists, mode \in CredentialModes \union {NoChoice} : UpdateSaves(e, p, m, l, mode)
  \/ \E m \in Models \union {NoChoice}, l \in ModelLists : PersonalBindingChanges(m, l)
  \/ \E p \in PlanningProviders \union {NoChoice}, m \in Models \union {Rules, NoChoice} : RunRequested(p, m)
  \/ ReadsSettings
  \/ SelectionResolved
  \/ GenerationResolved
  \/ CallEnds

SelectionSpec == SelectionInit /\ [][SelectionNext]_selectionVars

-----------------------------------------------------------------------------
\* Settings and bindings change between the two resolutions of a run, and within
\* them: the provider that is called is nevertheless the one the run recorded,
\* with a model those credentials offer; and the shared credentials are not used
\* while personal ones are required, unless another mode was in force at some
\* time since the generation began.
CallIsAsRecorded ==
  job.call # NoChoice =>
    /\ job.call.use = job.recorded
    /\ Contains(job.call.offers, job.call.use.model)
    /\ job.call.source # "personal" => job.modes # {"personal_required"}

\* Whatever settings two administrators save at once, a run can be made with
\* them: the default model is one of those configured.
SavedSettingsWork == settings # NoChoice => Usable(SharedRegistry(settings))
=============================================================================
