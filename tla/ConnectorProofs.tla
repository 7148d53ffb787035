-------------------------- MODULE ConnectorProofs --------------------------
(***************************************************************************)
(* Proofs about connectors.  The registry's operations keep RegistryInv,   *)
(* so everything said of its rows is proved where operations take effect   *)
(* at one instant.  The transactions of ConnectorLink are then shown to    *)
(* implement these operations: what a transaction holds locked is still    *)
(* what it has read (LocksOK).  The theorems follow for ConnectorLink.     *)
(***************************************************************************)
EXTENDS ConnectorLink, FiniteSetTheorems, TLAPS

Sessioned == [status : {"none", "pending", "claimed"}, connector : Connectors \cup {None}]

RowsTyped ==
  /\ session \in [Sessions -> Sessioned]
  /\ row \in [Connectors -> Row]
  /\ minted \in Nat

\* Ids are drawn in order, so the next one is new to every document.
IdsDrawn == \A c \in Connectors : \A e \in row[c].pending \cup row[c].results : e.probe <= minted

UnclaimedIsFree == \A s \in Sessions : session[s].status # "claimed" => session[s].connector = None

RegistryInv ==
  /\ RowsTyped
  /\ IdsDrawn
  /\ UnclaimedIsFree
  /\ OneProbePerBinding
  /\ CodeUsedOnce
  /\ ConfigsCoherent

-----------------------------------------------------------------------------
(* Probes in a document                                                    *)

Document == [pending : SUBSET Request, results : SUBSET Answer]

\* A document no id of which is larger than n, and no binding of which is there twice.
Sound(doc, n) ==
  /\ doc \in Document
  /\ OneEntryPerBinding(doc)
  /\ \A e \in doc.pending \cup doc.results : e.probe <= n

\* Leaving results out keeps a document sound.
LEMMA GcSound ==
  ASSUME NEW doc, NEW n \in Nat, Sound(doc, n), NEW old
  PROVE  Sound(GcOldProbeResults(doc, old), n)
BY DEF Sound, GcOldProbeResults, Document, OneEntryPerBinding, Ids

\* An answer takes the place of its request.
LEMMA FoldSound ==
  ASSUME NEW doc, NEW n \in Nat, Sound(doc, n), NEW reports \in Reports
  PROVE  Sound(FoldProbeResults(doc, reports), n)
<1> DEFINE accepted == {e \in doc.pending : e.probe \in DOMAIN reports}
           answers == {[probe |-> e.probe, binding |-> e.binding, ok |-> reports[e.probe]] :
                         e \in accepted}
           kept == {r \in doc.results : r.probe \notin Ids(accepted)}
           new == FoldProbeResults(doc, reports)
<1>1. /\ doc.pending \subseteq Request /\ doc.results \subseteq Answer /\ doc \in Document
      /\ OneEntryPerBinding(doc) /\ \A e \in doc.pending \cup doc.results : e.probe <= n
  BY DEF Sound, Document
<1>2. new = [doc EXCEPT !.pending = @ \ accepted, !.results = kept \cup answers]
  BY DEF FoldProbeResults
<1>3. new.pending = doc.pending \ accepted /\ new.results = kept \cup answers
  BY <1>1, <1>2 DEF Document
<1>4. \A r \in answers : \E e \in accepted : /\ r.probe = e.probe /\ r.binding = e.binding
                                             /\ r.ok = reports[e.probe] /\ r \in Answer
  <2> SUFFICES ASSUME NEW e \in accepted
               PROVE  [probe |-> e.probe, binding |-> e.binding, ok |-> reports[e.probe]] \in Answer
    OBVIOUS
  <2>1. e.probe \in Probes /\ e.binding \in Bindings /\ e.probe \in DOMAIN reports
    BY <1>1 DEF Request
  <2>2. reports[e.probe] \in BOOLEAN
    BY <2>1 DEF Reports
  <2> QED
    BY <2>1, <2>2 DEF Answer
<1>5. new \in Document
  <2>1. new.results \subseteq Answer
    BY <1>1, <1>3, <1>4
  <2> QED
    BY <1>1, <1>2, <1>3, <2>1 DEF Document
<1>6. \A e \in new.pending \cup new.results :
        \E f \in doc.pending \cup doc.results : f.probe = e.probe /\ f.binding = e.binding
  BY <1>3, <1>4
<1>7. \A e \in new.pending \cup new.results : e.probe <= n
  BY <1>1, <1>6
<1>8. ASSUME NEW e \in new.pending \cup new.results, NEW f \in new.pending \cup new.results,
             e.binding = f.binding
      PROVE  e = f
  <2>1. CASE e \notin answers /\ f \notin answers
    BY <1>1, <1>3, <1>8, <2>1 DEF OneEntryPerBinding
  <2>2. CASE e \in answers
    <3>1. PICK g \in accepted : e = [probe |-> g.probe, binding |-> g.binding, ok |-> reports[g.probe]]
      BY <2>2
    <3>2. CASE f \in answers
      <4>1. PICK h \in accepted : f = [probe |-> h.probe, binding |-> h.binding, ok |-> reports[h.probe]]
        BY <3>2
      <4>2. g = h
        BY <1>1, <1>8, <3>1, <4>1 DEF OneEntryPerBinding
      <4> QED
        BY <3>1, <4>1, <4>2
    <3>3. CASE f \notin answers
      <4>1. f \in doc.pending \cup doc.results /\ f \notin accepted /\ f.binding = g.binding
        BY <1>3, <1>8, <3>1, <3>3, <1>1 DEF OneEntryPerBinding, Ids
      <4>2. f = g
        BY <1>1, <4>1 DEF OneEntryPerBinding
      <4> QED
        BY <4>1, <4>2
    <3> QED
      BY <3>2, <3>3
  <2>3. CASE f \in answers /\ e \notin answers
    <3>1. PICK h \in accepted : f = [probe |-> h.probe, binding |-> h.binding, ok |-> reports[h.probe]]
      BY <2>3
    <3>2. e \in doc.pending \cup doc.results /\ e \notin accepted /\ e.binding = h.binding
      BY <1>3, <1>8, <3>1, <2>3, <1>1 DEF OneEntryPerBinding, Ids
    <3>3. e = h
      BY <1>1, <3>2 DEF OneEntryPerBinding
    <3> QED
      BY <3>2, <3>3
  <2> QED
    BY <2>1, <2>2, <2>3
<1>9. ASSUME NEW e \in new.pending, NEW f \in new.results, e.probe = f.probe
      PROVE  FALSE
  BY <1>1, <1>3, <1>4, <1>9 DEF OneEntryPerBinding, Ids
<1> QED
  BY <1>5, <1>7, <1>8, <1>9 DEF Sound, OneEntryPerBinding, Ids

\* A new request replaces everything its binding had.
LEMMA EnqueueSound ==
  ASSUME NEW doc, NEW n \in Nat, Sound(doc, n), n + 1 \in Probes, NEW b \in Bindings
  PROVE  Sound(EnqueueCliProbe(doc, n + 1, b), n + 1)
<1> DEFINE asked == [probe |-> n + 1, binding |-> b]
           new == EnqueueCliProbe(doc, n + 1, b)
<1>1. /\ doc.pending \subseteq Request /\ doc.results \subseteq Answer /\ doc \in Document
      /\ OneEntryPerBinding(doc) /\ \A e \in doc.pending \cup doc.results : e.probe <= n
  BY DEF Sound, Document
<1>2. new = [doc EXCEPT !.pending = (@ \ Of(@, b)) \cup {asked}, !.results = @ \ Of(@, b)]
  BY DEF EnqueueCliProbe
<1>3. /\ new.pending = (doc.pending \ Of(doc.pending, b)) \cup {asked}
      /\ new.results = doc.results \ Of(doc.results, b)
  BY <1>1, <1>2 DEF Document
<1>4. asked \in Request
  BY DEF Request
<1>5. new \in Document
  BY <1>1, <1>2, <1>4 DEF Document
<1>6. \A e \in doc.pending \cup doc.results : e.probe \in Nat /\ e.probe <= n
  BY <1>1, ProbeRequestsAssumption DEF Request, Answer
<1>7. \A e \in new.pending \cup new.results : e.probe <= n + 1
  BY <1>3, <1>6
<1>8. \A e, f \in new.pending \cup new.results : e.binding = f.binding => e = f
  BY <1>1, <1>3 DEF OneEntryPerBinding, Of
<1>9. ASSUME NEW e \in new.pending, NEW f \in new.results, e.probe = f.probe
      PROVE  FALSE
  BY <1>1, <1>3, <1>6, <1>9 DEF OneEntryPerBinding, Ids
<1> QED
  BY <1>5, <1>7, <1>8, <1>9 DEF Sound, OneEntryPerBinding, Ids

LEMMA ScrubSound ==
  ASSUME NEW doc, NEW n \in Nat, Sound(doc, n), NEW b
  PROVE  Sound(ScrubCliProbes(doc, b), n)
<1>1. ScrubCliProbes(doc, b) = [doc EXCEPT !.pending = @ \ Of(@, b), !.results = @ \ Of(@, b)]
  BY DEF ScrubCliProbes
<1>2. /\ ScrubCliProbes(doc, b).pending \subseteq doc.pending
      /\ ScrubCliProbes(doc, b).results \subseteq doc.results
      /\ ScrubCliProbes(doc, b) \in Document
  BY <1>1 DEF Sound, Document
<1> QED
  BY <1>2 DEF Sound, OneEntryPerBinding, Ids

-----------------------------------------------------------------------------
(* Configurations                                                          *)

\* A list that may be stored.
Stored(cs) == cs \in Seq(Config) /\ CoherentConfigs(cs)

\* A list indexed like cs that keeps ids and labels keeps what they promise.
LEMMA SameNames ==
  ASSUME NEW cs \in Seq(Config), LabelsUnique(cs), IdsUnique(cs), Len(cs) <= MaxCliConfigs,
         NEW ds \in Seq(Config), Len(ds) = Len(cs),
         \A i \in 1 .. Len(cs) : ds[i].label = cs[i].label /\ ds[i].id = cs[i].id,
         OnePrimary(ds)
  PROVE  Stored(ds)
BY DEF Stored, CoherentConfigs, LabelsUnique, IdsUnique

LEMMA SetPrimaryStored ==
  ASSUME NEW cs \in Seq(Config), LabelsUnique(cs), IdsUnique(cs), Len(cs) <= MaxCliConfigs,
         NEW k \in DOMAIN cs
  PROVE  Stored(SetPrimaryCliConfig(cs, k))
<1> DEFINE ds == SetPrimaryCliConfig(cs, k)
<1>1. ds = [i \in 1 .. Len(cs) |-> [cs[i] EXCEPT !.primary = (i = k)]]
  BY DEF SetPrimaryCliConfig
<1>2. ASSUME NEW i \in 1 .. Len(cs)
      PROVE  /\ ds[i] \in Config /\ ds[i].label = cs[i].label
             /\ ds[i].id = cs[i].id /\ (ds[i].primary <=> i = k)
  <2>1. cs[i] \in Config
    OBVIOUS
  <2>2. ds[i] = [cs[i] EXCEPT !.primary = (i = k)]
    BY <1>1
  <2> QED
    BY <2>1, <2>2 DEF Config
<1>3. ds \in Seq(Config) /\ Len(ds) = Len(cs) /\ DOMAIN ds = 1 .. Len(cs)
  BY <1>1, <1>2
<1> HIDE DEF ds
<1>4. k \in 1 .. Len(cs) /\ \A j \in 1 .. Len(cs) : ds[j].primary <=> j = k
  BY <1>2
<1>5. OnePrimary(ds)
  BY <1>3, <1>4 DEF OnePrimary
<1> USE DEF ds
<1> QED
  BY <1>2, <1>3, <1>5, SameNames

LEMMA AddStored ==
  ASSUME NEW cs, Stored(cs), NEW id \in ConfigIds, NEW label \in Labels, NEW wants \in BOOLEAN,
         FreshId(cs, id), CanAddCliConfig(cs, label)
  PROVE  Stored(AddCliConfig(cs, id, label, wants))
<1> DEFINE primary == cs = <<>> \/ wants
           base == IF primary THEN Demoted(cs) ELSE cs
           last == [id |-> id, label |-> label, primary |-> primary]
           ds == AddCliConfig(cs, id, label, wants)
<1>1. cs \in Seq(Config) /\ Len(cs) \in Nat /\ DOMAIN cs = 1 .. Len(cs) /\ CoherentConfigs(cs)
  BY DEF Stored
<1>2. Demoted(cs) = [i \in 1 .. Len(cs) |-> [cs[i] EXCEPT !.primary = FALSE]]
  BY <1>1 DEF Demoted
<1>3. ASSUME NEW i \in 1 .. Len(cs)
      PROVE  /\ Demoted(cs)[i] \in Config /\ Demoted(cs)[i].label = cs[i].label
             /\ Demoted(cs)[i].id = cs[i].id /\ ~ Demoted(cs)[i].primary
  <2>1. cs[i] \in Config
    BY <1>1
  <2>2. Demoted(cs)[i] = [cs[i] EXCEPT !.primary = FALSE]
    BY <1>2
  <2> QED
    BY <2>1, <2>2 DEF Config
<1>4. Demoted(cs) \in Seq(Config) /\ Len(Demoted(cs)) = Len(cs)
  BY <1>1, <1>2, <1>3
<1>5. /\ base \in Seq(Config) /\ Len(base) = Len(cs)
      /\ \A i \in 1 .. Len(cs) : /\ base[i].label = cs[i].label /\ base[i].id = cs[i].id
                                 /\ base[i].primary => ~ primary
      /\ ~ primary => base = cs
  BY <1>1, <1>3, <1>4
<1>6. last \in Config
  BY DEF Config
<1> HIDE DEF base, last, primary
<1>7. ds = Append(base, last)
  BY DEF ds, AddCliConfig, base, last, primary
<1>8. /\ ds \in Seq(Config) /\ Len(ds) = Len(cs) + 1 /\ DOMAIN ds = 1 .. Len(cs) + 1
      /\ ds[Len(cs) + 1] = last /\ \A i \in 1 .. Len(cs) : ds[i] = base[i]
  BY <1>1, <1>5, <1>6, <1>7
<1>9. /\ Len(cs) < MaxCliConfigs /\ \A i \in 1 .. Len(cs) : cs[i].label # label /\ cs[i].id # id
  BY <1>1 DEF CanAddCliConfig, LabelFree, FreshId
<1>10. last.label = label /\ last.id = id /\ last.primary = primary
  BY DEF last
<1> HIDE DEF ds
<1>11. LabelsUnique(ds) /\ IdsUnique(ds)
  BY <1>1, <1>5, <1>8, <1>9, <1>10 DEF CoherentConfigs, LabelsUnique, IdsUnique
<1>12. OnePrimary(ds)
  <2>1. CASE primary
    <3>1. ASSUME NEW j \in DOMAIN ds PROVE ds[j].primary <=> j = Len(cs) + 1
      <4>1. CASE j = Len(cs) + 1
        BY <1>8, <1>10, <2>1, <4>1
      <4>2. CASE j # Len(cs) + 1
        <5>1. j \in 1 .. Len(cs)
          BY <1>1, <1>8, <4>2
        <5> QED
          BY <1>5, <1>8, <2>1, <4>2, <5>1
      <4> QED
        BY <4>1, <4>2
    <3>2. Len(cs) + 1 \in DOMAIN ds
      BY <1>1, <1>8
    <3> QED
      BY <3>1, <3>2 DEF OnePrimary
  <2>2. CASE ~ primary
    <3>1. PICK i \in 1 .. Len(cs) : \A j \in 1 .. Len(cs) : cs[j].primary <=> j = i
      BY <1>1, <2>2 DEF CoherentConfigs, OnePrimary, primary
    <3>2. \A j \in DOMAIN ds : ds[j].primary <=> j = i
      BY <1>1, <1>5, <1>8, <1>10, <2>2, <3>1
    <3> QED
      BY <1>1, <1>8, <3>1, <3>2 DEF OnePrimary
  <2> QED
    BY <2>1, <2>2
<1>13. Len(ds) <= MaxCliConfigs
  BY <1>1, <1>8, <1>9, CliConfigsAssumption
<1> QED
  BY <1>8, <1>11, <1>12, <1>13 DEF Stored, CoherentConfigs, ds

LEMMA UpdateStored ==
  ASSUME NEW cs, Stored(cs), NEW k \in DOMAIN cs, NEW label \in Labels, NEW wants \in BOOLEAN,
         CanUpdateCliConfig(cs, k, label)
  PROVE  Stored(UpdateCliConfig(cs, k, label, wants))
<1> DEFINE named == [cs EXCEPT ![k].label = label]
<1>1. cs \in Seq(Config) /\ Len(cs) \in Nat /\ DOMAIN cs = 1 .. Len(cs) /\ CoherentConfigs(cs)
  BY DEF Stored
<1>2. \A i \in 1 .. Len(cs) : cs[i] \in Config
  BY <1>1
<1>3. /\ [cs[k] EXCEPT !.label = label] \in Config
      /\ [cs[k] EXCEPT !.label = label].label = label
      /\ [cs[k] EXCEPT !.label = label].id = cs[k].id
      /\ [cs[k] EXCEPT !.label = label].primary = cs[k].primary
  BY <1>1, <1>2 DEF Config
<1>4. named = [i \in 1 .. Len(cs) |-> IF i = k THEN [cs[k] EXCEPT !.label = label] ELSE cs[i]]
  BY <1>1
<1>5. named \in Seq(Config) /\ Len(named) = Len(cs) /\ DOMAIN named = 1 .. Len(cs)
  BY <1>1, <1>2, <1>3, <1>4
<1>6. \A i \in 1 .. Len(cs) : /\ named[i].id = cs[i].id /\ named[i].primary = cs[i].primary
                              /\ named[i].label = IF i = k THEN label ELSE cs[i].label
  BY <1>1, <1>3, <1>4
<1> HIDE DEF named
<1>7. LabelsUnique(named) /\ IdsUnique(named)
  BY <1>1, <1>5, <1>6 DEF CoherentConfigs, LabelsUnique, IdsUnique, CanUpdateCliConfig, LabelFree
<1>8. Len(named) <= MaxCliConfigs
  BY <1>1, <1>5 DEF CoherentConfigs
<1>9. CASE wants
  <2>1. UpdateCliConfig(cs, k, label, wants) = SetPrimaryCliConfig(named, k)
    BY <1>9 DEF UpdateCliConfig, named
  <2> QED
    BY <1>1, <1>5, <1>7, <1>8, <2>1, SetPrimaryStored
<1>10. CASE ~ wants
  <2>1. UpdateCliConfig(cs, k, label, wants) = named
    BY <1>10 DEF UpdateCliConfig, named
  <2>2. OnePrimary(named)
    <3>1. PICK i \in DOMAIN cs : \A j \in DOMAIN cs : cs[j].primary <=> j = i
      <4>1. cs # <<>> /\ OnePrimary(cs)
        BY <1>1 DEF CoherentConfigs
      <4> QED
        BY <4>1 DEF OnePrimary
    <3>2. i \in DOMAIN named /\ \A j \in DOMAIN named : named[j].primary <=> j = i
      BY <1>1, <1>5, <1>6, <3>1
    <3> QED
      BY <3>2 DEF OnePrimary
  <2> QED
    BY <1>5, <1>7, <1>8, <2>1, <2>2 DEF Stored, CoherentConfigs
<1> QED
  BY <1>9, <1>10

LEMMA DeleteStored ==
  ASSUME NEW cs, Stored(cs), NEW k \in DOMAIN cs
  PROVE  Stored(DeleteCliConfig(cs, k))
<1> DEFINE rest == Without(cs, k)
           from(i) == IF i < k THEN i ELSE i + 1
<1>1. cs \in Seq(Config) /\ Len(cs) \in Nat /\ DOMAIN cs = 1 .. Len(cs) /\ CoherentConfigs(cs)
  BY DEF Stored
<1>2. \A i \in 1 .. Len(cs) : cs[i] \in Config
  BY <1>1
<1>3. k \in 1 .. Len(cs) /\ Len(cs) - 1 \in Nat /\ k \in Nat
  BY <1>1
<1>4. rest = [i \in 1 .. Len(cs) - 1 |-> cs[from(i)]]
  BY DEF Without
<1>5. \A i \in 1 .. Len(cs) - 1 : from(i) \in 1 .. Len(cs) /\ from(i) # k
  BY <1>3
<1>6. \A i, j \in 1 .. Len(cs) - 1 : from(i) = from(j) => i = j
  BY <1>3
<1>7. \A j \in 1 .. Len(cs) : j # k => \E i \in 1 .. Len(cs) - 1 : from(i) = j
  <2> SUFFICES ASSUME NEW j \in 1 .. Len(cs), j # k
               PROVE  \E i \in 1 .. Len(cs) - 1 : from(i) = j
    OBVIOUS
  <2>1. CASE j < k
    BY <1>3, <2>1
  <2>2. CASE j > k
    <3>1. j - 1 \in 1 .. Len(cs) - 1 /\ from(j - 1) = j
      BY <1>3, <2>2
    <3> QED
      BY <3>1
  <2> QED
    BY <1>3, <2>1, <2>2
<1> HIDE DEF from
<1>8. /\ rest \in Seq(Config) /\ Len(rest) = Len(cs) - 1 /\ DOMAIN rest = 1 .. Len(cs) - 1
      /\ \A i \in 1 .. Len(cs) - 1 : rest[i] = cs[from(i)] /\ rest[i] \in Config
  BY <1>2, <1>3, <1>4, <1>5
<1> HIDE DEF rest
<1>9. LabelsUnique(rest) /\ IdsUnique(rest)
  <2> SUFFICES ASSUME NEW i \in 1 .. Len(cs) - 1, NEW j \in 1 .. Len(cs) - 1,
                      rest[i].label = rest[j].label \/ rest[i].id = rest[j].id
               PROVE  i = j
    BY <1>8 DEF LabelsUnique, IdsUnique
  <2>1. from(i) \in DOMAIN cs /\ from(j) \in DOMAIN cs
    BY <1>1, <1>5
  <2>2. from(i) = from(j)
    BY <1>1, <1>8, <2>1 DEF CoherentConfigs, LabelsUnique, IdsUnique
  <2> QED
    BY <1>6, <2>2
<1>10. Len(rest) <= MaxCliConfigs
  BY <1>1, <1>3, <1>8, CliConfigsAssumption DEF CoherentConfigs
<1>11. PICK p \in DOMAIN cs : \A j \in DOMAIN cs : cs[j].primary <=> j = p
  <2>1. cs # <<>> /\ OnePrimary(cs)
    BY <1>1, <1>3 DEF CoherentConfigs
  <2> QED
    BY <2>1 DEF OnePrimary
<1>12. CASE cs[k].primary /\ rest # <<>>
  <2> DEFINE ds == [rest EXCEPT ![1].primary = TRUE]
  <2>1. DeleteCliConfig(cs, k) = ds
    BY <1>12 DEF DeleteCliConfig, rest
  <2>2. \A i \in 1 .. Len(cs) - 1 : ~ rest[i].primary
    BY <1>1, <1>3, <1>5, <1>8, <1>11, <1>12
  <2>3. 1 \in 1 .. Len(rest)
    BY <1>3, <1>8, <1>12
  <2>4. /\ [rest[1] EXCEPT !.primary = TRUE] \in Config
        /\ [rest[1] EXCEPT !.primary = TRUE].primary
        /\ [rest[1] EXCEPT !.primary = TRUE].id = rest[1].id
        /\ [rest[1] EXCEPT !.primary = TRUE].label = rest[1].label
    BY <1>8, <2>3 DEF Config
  <2>5. ds = [i \in 1 .. Len(rest) |-> IF i = 1 THEN [rest[1] EXCEPT !.primary = TRUE] ELSE rest[i]]
    BY <1>8, <2>3
  <2> HIDE DEF ds
  <2>6. ds \in Seq(Config) /\ Len(ds) = Len(rest) /\ DOMAIN ds = 1 .. Len(rest)
    <3>1. Len(rest) \in Nat /\ \A i \in 1 .. Len(rest) : ds[i] \in Config
      BY <1>3, <1>8, <2>4, <2>5
    <3>2. DOMAIN ds = 1 .. Len(rest) /\ ds = [i \in 1 .. Len(rest) |-> ds[i]]
      BY <2>5, Zenon
    <3> QED
      BY <3>1, <3>2
  <2>7. ASSUME NEW i \in 1 .. Len(rest)
        PROVE  /\ ds[i].label = rest[i].label /\ ds[i].id = rest[i].id
               /\ (ds[i].primary <=> i = 1)
    <3>1. CASE i = 1
      BY <2>3, <2>4, <2>5, <3>1
    <3>2. CASE i # 1
      <4>1. ds[i] = rest[i] /\ ~ rest[i].primary
        BY <1>8, <2>2, <2>5, <3>2
      <4> QED
        BY <3>2, <4>1
    <3> QED
      BY <3>1, <3>2
  <2>8. \A j \in DOMAIN ds : ds[j].primary <=> j = 1
    BY <2>6, <2>7
  <2>9. OnePrimary(ds)
    BY <2>3, <2>6, <2>8 DEF OnePrimary
  <2> QED
    BY <1>8, <1>9, <1>10, <2>1, <2>6, <2>7, <2>9, SameNames
<1>13. CASE ~ (cs[k].primary /\ rest # <<>>)
  <2>1. DeleteCliConfig(cs, k) = rest
    BY <1>13 DEF DeleteCliConfig, rest
  <2>2. OnePrimary(rest)
    <3> SUFFICES ASSUME rest # <<>>
                 PROVE  \E i \in DOMAIN rest : \A j \in DOMAIN rest : rest[j].primary <=> j = i
      BY DEF OnePrimary
    <3>1. p # k
      BY <1>1, <1>3, <1>11, <1>13
    <3>2. PICK i \in 1 .. Len(cs) - 1 : from(i) = p
      BY <1>1, <1>7, <3>1
    <3>3. \A j \in 1 .. Len(cs) - 1 : rest[j].primary <=> j = i
      <4> SUFFICES ASSUME NEW j \in 1 .. Len(cs) - 1
                   PROVE  rest[j].primary <=> j = i
        OBVIOUS
      <4>1. rest[j] = cs[from(j)] /\ from(j) \in 1 .. Len(cs)
        BY <1>5, <1>8
      <4>2. from(j) = p <=> j = i
        BY <1>6, <3>2
      <4> QED
        BY <1>1, <1>11, <4>1, <4>2
    <3>4. i \in DOMAIN rest /\ \A j \in DOMAIN rest : rest[j].primary <=> j = i
      BY <1>8, <3>3
    <3> QED
      BY <3>4
  <2> QED
    BY <1>8, <1>9, <1>10, <2>1, <2>2 DEF Stored, CoherentConfigs
<1> QED
  BY <1>12, <1>13

-----------------------------------------------------------------------------
(* One operation                                                           *)

\* A row that RegistryInv allows when n ids have been drawn.
RowOK(r, n) ==
  /\ r \in Row
  /\ Sound(Doc(r), n)
  /\ CoherentConfigs(r.configs)
  /\ r.status = "revoked" => r.configs = <<>>

LEMMA RowsAreOK ==
  RegistryInv <=> /\ RowsTyped /\ UnclaimedIsFree /\ CodeUsedOnce
                  /\ \A c \in Connectors : RowOK(row[c], minted)
<1>1. ASSUME RowsTyped, NEW c \in Connectors
      PROVE  /\ Doc(row[c]).pending = row[c].pending /\ Doc(row[c]).results = row[c].results
             /\ Doc(row[c]) \in Document /\ row[c] \in Row
  BY <1>1 DEF RowsTyped, Row, Doc, Document
<1> QED
  BY <1>1 DEF RegistryInv, RowOK, Sound, IdsDrawn, OneProbePerBinding, ConfigsCoherent

LEMMA RowsAreOKNext ==
  ASSUME RowsTyped', UnclaimedIsFree', CodeUsedOnce',
         \A c \in Connectors : RowOK(row'[c], minted')
  PROVE  RegistryInv'
<1>1. ASSUME NEW c \in Connectors
      PROVE  Doc(row'[c]).pending = row'[c].pending /\ Doc(row'[c]).results = row'[c].results
  BY DEF Doc
<1> QED
  BY <1>1 DEF RegistryInv, RowOK, Sound, IdsDrawn, OneProbePerBinding, ConfigsCoherent

\* A document put into a row changes nothing else of it.
LEMMA WithDocOK ==
  ASSUME NEW r, NEW n \in Nat, NEW m \in Nat, RowOK(r, n), NEW doc, Sound(doc, m)
  PROVE  /\ RowOK(WithDoc(r, doc), m)
         /\ WithDoc(r, doc).pending = doc.pending /\ WithDoc(r, doc).results = doc.results
         /\ WithDoc(r, doc).status = r.status /\ WithDoc(r, doc).configs = r.configs
<1>1. r \in Row /\ doc \in Document
  BY DEF RowOK, Sound
<1>2. /\ WithDoc(r, doc) \in Row
      /\ WithDoc(r, doc).pending = doc.pending /\ WithDoc(r, doc).results = doc.results
      /\ WithDoc(r, doc).status = r.status /\ WithDoc(r, doc).configs = r.configs
  BY <1>1 DEF WithDoc, Row, Document
<1>3. Doc(WithDoc(r, doc)) = doc
  BY <1>1, <1>2 DEF Doc, Document
<1> QED
  BY <1>2, <1>3 DEF RowOK

LEMMA HeartbeatOK ==
  ASSUME NEW r, NEW n \in Nat, RowOK(r, n), MayHeartbeat(r), NEW reports \in Reports, NEW old
  PROVE  RowOK(HeartbeatRow(r, reports, old), n)
<1> DEFINE doc == GcOldProbeResults(FoldProbeResults(Doc(r), reports), old)
           new == HeartbeatRow(r, reports, old)
<1>1. Sound(doc, n)
  BY FoldSound, GcSound DEF RowOK
<1> HIDE DEF doc
<1>2. /\ RowOK(WithDoc(r, doc), n) /\ WithDoc(r, doc).configs = r.configs
      /\ WithDoc(r, doc).pending = doc.pending /\ WithDoc(r, doc).results = doc.results
  BY <1>1, WithDocOK
<1>3. new = [WithDoc(r, doc) EXCEPT !.status = "online"]
  BY DEF HeartbeatRow, doc
<1>4. /\ new \in Row /\ new.status = "online" /\ new.configs = r.configs
      /\ new.pending = WithDoc(r, doc).pending /\ new.results = WithDoc(r, doc).results
  BY <1>2, <1>3 DEF RowOK, Row
<1>5. Doc(new) = Doc(WithDoc(r, doc))
  BY <1>4 DEF Doc
<1> QED
  BY <1>2, <1>4, <1>5 DEF RowOK

LEMMA EnqueueOK ==
  ASSUME NEW r, NEW n \in Nat, RowOK(r, n), n + 1 \in Probes, NEW b \in Bindings, NEW old
  PROVE  RowOK(EnqueueRow(r, n + 1, b, old), n + 1)
<1>1. n + 1 \in Nat
  OBVIOUS
<1>2. Sound(GcOldProbeResults(EnqueueCliProbe(Doc(r), n + 1, b), old), n + 1)
  BY <1>1, EnqueueSound, GcSound DEF RowOK
<1> QED
  BY <1>1, <1>2, WithDocOK DEF EnqueueRow

LEMMA ScrubOK ==
  ASSUME NEW r, NEW n \in Nat, RowOK(r, n), NEW b
  PROVE  RowOK(ScrubRow(r, b), n)
BY ScrubSound, WithDocOK DEF ScrubRow, RowOK

LEMMA RevokeOK ==
  ASSUME NEW r, NEW n \in Nat, RowOK(r, n)
  PROVE  RowOK(RevokeRow(r), n)
<1>1. r \in Row /\ <<>> \in Seq(Config)
  BY DEF RowOK
<1>2. /\ RevokeRow(r) \in Row /\ RevokeRow(r).configs = <<>>
      /\ RevokeRow(r).pending = r.pending /\ RevokeRow(r).results = r.results
  BY <1>1 DEF RevokeRow, Row
<1>3. CoherentConfigs(<<>>)
  BY CliConfigsAssumption DEF CoherentConfigs, OnePrimary, LabelsUnique, IdsUnique
<1> QED
  BY <1>2, <1>3 DEF RowOK, Doc

LEMMA EditedStored ==
  ASSUME NEW cs, Stored(cs), NEW ds \in EditedCliConfigs(cs)
  PROVE  Stored(ds)
<1>1. CASE ds \in WithAdded(cs)
  <2>1. PICK x \in Config : /\ FreshId(cs, x.id) /\ CanAddCliConfig(cs, x.label)
                            /\ ds = AddCliConfig(cs, x.id, x.label, x.primary)
    BY <1>1 DEF WithAdded
  <2>2. x.id \in ConfigIds /\ x.label \in Labels /\ x.primary \in BOOLEAN
    BY DEF Config
  <2> QED
    BY <2>1, <2>2, AddStored
<1>2. CASE ds \in WithUpdated(cs)
  <2>1. PICK k \in DOMAIN cs, l \in Labels, primary \in BOOLEAN :
          CanUpdateCliConfig(cs, k, l) /\ ds = UpdateCliConfig(cs, k, l, primary)
    BY <1>2 DEF WithUpdated
  <2> QED
    BY <2>1, UpdateStored
<1>3. CASE ds \in WithDeleted(cs)
  BY <1>3, DeleteStored DEF WithDeleted
<1>4. CASE ds \in WithPromoted(cs)
  BY <1>4, SetPrimaryStored DEF WithPromoted, Stored, CoherentConfigs
<1> QED
  BY <1>1, <1>2, <1>3, <1>4 DEF EditedCliConfigs

LEMMA ConfigsOK ==
  ASSUME NEW r, NEW n \in Nat, RowOK(r, n), NEW new \in ConfigRows(r)
  PROVE  /\ RowOK(new, n) /\ new.status = r.status /\ r.status \notin {"none", "revoked"}
         /\ new.pending = r.pending /\ new.results = r.results
<1>1. PICK ds \in EditedCliConfigs(r.configs) :
        new = [r EXCEPT !.configs = ds] /\ r.status \notin {"none", "revoked"}
  BY DEF ConfigRows
<1>2. r \in Row /\ Stored(r.configs)
  BY DEF RowOK, Row, Stored
<1>3. ds \in Seq(Config) /\ CoherentConfigs(ds)
  BY <1>2, EditedStored DEF Stored
<1>4. /\ new \in Row /\ new.configs = ds /\ new.status = r.status
      /\ new.pending = r.pending /\ new.results = r.results
  BY <1>1, <1>2, <1>3 DEF Row
<1> QED
  BY <1>1, <1>3, <1>4 DEF RowOK, Doc

-----------------------------------------------------------------------------
(* The registry                                                            *)

\* One row is replaced by another that is in order; connectors stay connectors.
LEMMA OneRowOK ==
  ASSUME RegistryInv, NEW c \in Connectors, Exists(c), NEW r, RowOK(r, minted'), r.status # "none",
         row' = [row EXCEPT ![c] = r], UNCHANGED session, minted' \in Nat, minted <= minted'
  PROVE  RegistryInv'
<1>1. /\ RowsTyped /\ UnclaimedIsFree /\ CodeUsedOnce
      /\ \A d \in Connectors : RowOK(row[d], minted)
  BY RowsAreOK
<1>2. /\ row'[c] = r /\ \A d \in Connectors \ {c} : row'[d] = row[d]
      /\ row' \in [Connectors -> Row]
  BY <1>1 DEF RowsTyped, RowOK
<1>3. \A d \in Connectors : RowOK(row'[d], minted')
  <2> SUFFICES ASSUME NEW d \in Connectors, d # c PROVE RowOK(row[d], minted')
    BY <1>2
  <2>1. RowOK(row[d], minted) /\ minted \in Nat
    BY <1>1 DEF RowsTyped
  <2>2. \A e \in Doc(row[d]).pending \cup Doc(row[d]).results : e.probe \in Nat /\ e.probe <= minted
    BY <2>1, ProbeRequestsAssumption DEF RowOK, Sound, Document, Request, Answer
  <2> QED
    BY <2>1, <2>2 DEF RowOK, Sound
<1>4. CodeUsedOnce' /\ UnclaimedIsFree' /\ RowsTyped'
  BY <1>1, <1>2 DEF CodeUsedOnce, UnclaimedIsFree, RowsTyped, Exists
<1> QED
  BY <1>3, <1>4, RowsAreOKNext

LEMMA RegistryInitOK == RegistryInit => RegistryInv
<1> SUFFICES ASSUME RegistryInit PROVE RegistryInv
  OBVIOUS
<1>1. NoRow \in Row /\ NoRow.status = "none" /\ Sound(Doc(NoRow), 0)
  BY DEF NoRow, Row, Doc, Sound, Document, OneEntryPerBinding, Ids
<1>2. CoherentConfigs(NoRow.configs)
  BY CliConfigsAssumption DEF NoRow, CoherentConfigs, OnePrimary, LabelsUnique, IdsUnique
<1>3. RowOK(NoRow, 0)
  BY <1>1, <1>2 DEF RowOK
<1>4. RowsTyped /\ UnclaimedIsFree /\ \A c \in Connectors : row[c] = NoRow
  BY <1>1 DEF RegistryInit, RowsTyped, Sessioned, UnclaimedIsFree
<1>5. CodeUsedOnce /\ minted = 0
  BY <1>1, <1>4 DEF CodeUsedOnce, Exists, RegistryInit
<1> QED
  BY <1>3, <1>4, <1>5, RowsAreOK

\* A step of the registry keeps everything in order, brings no revoked connector
\* back, and answers only what is asked.
LEMMA RegistryStep ==
  ASSUME RegistryInv, RegistryNext
  PROVE  /\ RegistryInv'
         /\ \A c \in Connectors :
              /\ row[c].status = "revoked" => row'[c].status = "revoked"
              /\ Ids(row'[c].pending) \subseteq Ids(row[c].pending) \cup {minted + 1}
              /\ \A x \in row'[c].results :
                   x \in row[c].results \/ x.probe \in Ids(row[c].pending)
<1>1. /\ RowsTyped /\ UnclaimedIsFree /\ CodeUsedOnce
      /\ \A d \in Connectors : RowOK(row[d], minted)
  BY RowsAreOK
<1>2. minted \in Nat /\ minted <= minted
  BY <1>1 DEF RowsTyped
<1>3. \A d \in Connectors : row[d] \in Row
  BY <1>1 DEF RowOK
<1> DEFINE Onwards(c, r) ==
      /\ row[c].status = "revoked" => r.status = "revoked"
      /\ Ids(r.pending) \subseteq Ids(row[c].pending) \cup {minted + 1}
      /\ \A x \in r.results : x \in row[c].results \/ x.probe \in Ids(row[c].pending)
<1>4. ASSUME NEW c \in Connectors PROVE Onwards(c, row[c])
  OBVIOUS
<1>5. ASSUME NEW s \in Sessions, CreatePairingSession(s)
      PROVE  RegistryInv' /\ UNCHANGED row
  <2>1. /\ RowsTyped' /\ UnclaimedIsFree' /\ UNCHANGED <<row, minted>>
        /\ \A u \in Sessions : session'[u].connector = session[u].connector
    BY <1>1, <1>5 DEF CreatePairingSession, RowsTyped, Sessioned, UnclaimedIsFree
  <2>2. CodeUsedOnce'
    BY <1>1, <2>1 DEF CodeUsedOnce, Exists
  <2> QED
    BY <1>1, <2>1, <2>2, RowsAreOKNext
<1>6. ASSUME NEW s \in Sessions, NEW c \in Connectors, ClaimPairingSession(s, c)
      PROVE  /\ RegistryInv' /\ row' = [row EXCEPT ![c] = [row[c] EXCEPT !.status = "pending"]]
             /\ Onwards(c, [row[c] EXCEPT !.status = "pending"])
  <2> DEFINE r == [row[c] EXCEPT !.status = "pending"]
  <2>1. /\ r \in Row /\ r.status = "pending" /\ r.configs = row[c].configs
        /\ r.pending = row[c].pending /\ r.results = row[c].results
    BY <1>3 DEF Row
  <2>2. RowOK(r, minted)
    BY <1>1, <2>1 DEF RowOK, Doc
  <2>3. row' = [row EXCEPT ![c] = r] /\ UNCHANGED minted /\ row[c].status = "none"
    BY <1>6 DEF ClaimPairingSession, Exists
  <2> HIDE DEF r
  <2>4. row'[c] = r /\ \A d \in Connectors \ {c} : row'[d] = row[d]
    BY <1>1, <2>3 DEF RowsTyped
  <2>5. session' = [session EXCEPT ![s] = [status |-> "claimed", connector |-> c]]
    BY <1>6 DEF ClaimPairingSession
  <2>6. [status |-> "claimed", connector |-> c] \in Sessioned
    BY DEF Sessioned
  <2>7. RowsTyped'
    BY <1>1, <2>1, <2>3, <2>5, <2>6 DEF RowsTyped
  <2>8. /\ session'[s].status = "claimed" /\ session'[s].connector = c
        /\ \A u \in Sessions \ {s} : session'[u] = session[u]
    BY <1>1, <2>5 DEF RowsTyped
  <2>9. UnclaimedIsFree'
    BY <1>1, <2>8 DEF UnclaimedIsFree
  <2>10. session[s].connector = None
    BY <1>1, <1>6 DEF ClaimPairingSession, UnclaimedIsFree
  <2>11. CodeUsedOnce'
    <3> SUFFICES ASSUME NEW d \in Connectors, Exists(d)'
                 PROVE  \E u \in Sessions : session'[u].connector = d
      BY DEF CodeUsedOnce
    <3>1. CASE d = c
      BY <2>8, <3>1
    <3>2. CASE d # c
      <4>1. PICK u \in Sessions : session[u].connector = d
        BY <1>1, <2>4, <3>2 DEF CodeUsedOnce, Exists
      <4> QED
        BY <2>8, <2>10, <4>1, ConnectorAssumption
    <3> QED
      BY <3>1, <3>2
  <2>12. RegistryInv'
    BY <1>1, <2>2, <2>3, <2>4, <2>7, <2>9, <2>11, RowsAreOKNext
  <2> QED
    BY <2>1, <2>3, <2>12 DEF r
<1>7. ASSUME NEW c \in Connectors, NEW reports \in Reports, Heartbeat(c, reports)
      PROVE  RegistryInv' /\ \E r : row' = [row EXCEPT ![c] = r] /\ Onwards(c, r)
  <2>1. PICK old : row' = [row EXCEPT ![c] = HeartbeatRow(row[c], reports, old)]
    BY <1>7 DEF Heartbeat
  <2>2. Exists(c) /\ row[c].status # "revoked" /\ UNCHANGED <<session, minted>> /\ MayHeartbeat(row[c])
    BY <1>7 DEF Heartbeat, MayHeartbeat, Exists
  <2> DEFINE r == HeartbeatRow(row[c], reports, old)
             doc == GcOldProbeResults(FoldProbeResults(Doc(row[c]), reports), old)
  <2>3. RowOK(r, minted)
    BY <1>1, <1>2, <2>2, HeartbeatOK
  <2>4. Sound(doc, minted) /\ Sound(FoldProbeResults(Doc(row[c]), reports), minted)
    BY <1>1, <1>2, FoldSound, GcSound DEF RowOK
  <2>5. /\ WithDoc(row[c], doc).pending = doc.pending /\ WithDoc(row[c], doc).results = doc.results
        /\ WithDoc(row[c], doc) \in Row
    BY <1>1, <1>2, <2>4, WithDocOK DEF RowOK
  <2>6. r.status = "online" /\ r.pending = doc.pending /\ r.results = doc.results
    BY <2>5 DEF HeartbeatRow, Row
  <2>7. /\ doc.pending \subseteq row[c].pending
        /\ \A x \in doc.results : x \in row[c].results \/ x.probe \in Ids(row[c].pending)
    <3> DEFINE folded == FoldProbeResults(Doc(row[c]), reports)
    <3>1. /\ folded.pending \subseteq row[c].pending
          /\ \A x \in folded.results : x \in row[c].results \/ x.probe \in Ids(row[c].pending)
      BY DEF FoldProbeResults, Doc, Ids
    <3>2. folded \in Document
      BY <2>4 DEF Sound
    <3> HIDE DEF folded
    <3>3. doc.pending = folded.pending /\ doc.results = folded.results \ old
      BY <3>2 DEF GcOldProbeResults, Document, folded
    <3> QED
      BY <3>1, <3>3
  <2> HIDE DEF r, doc
  <2>8. RegistryInv'
    BY <1>2, <2>1, <2>2, <2>3, <2>6, OneRowOK DEF r
  <2>9. Onwards(c, r)
    BY <2>2, <2>6, <2>7 DEF Ids
  <2> QED
    BY <2>1, <2>8, <2>9 DEF r
<1>8. ASSUME NEW c \in Connectors, NEW b \in Bindings, Enqueue(c, b)
      PROVE  RegistryInv' /\ \E r : row' = [row EXCEPT ![c] = r] /\ Onwards(c, r)
  <2>1. PICK old : row' = [row EXCEPT ![c] = EnqueueRow(row[c], minted + 1, b, old)]
    BY <1>8 DEF Enqueue
  <2>2. /\ Exists(c) /\ UNCHANGED session /\ minted' = minted + 1 /\ minted + 1 \in Probes
        /\ minted' \in Nat /\ minted <= minted'
    BY <1>2, <1>8 DEF Enqueue
  <2> DEFINE r == EnqueueRow(row[c], minted + 1, b, old)
             doc == GcOldProbeResults(EnqueueCliProbe(Doc(row[c]), minted + 1, b), old)
             asked == EnqueueCliProbe(Doc(row[c]), minted + 1, b)
  <2>3. RowOK(r, minted + 1)
    BY <1>1, <1>2, <2>2, EnqueueOK
  <2>4. Sound(asked, minted + 1) /\ Sound(doc, minted + 1)
    BY <1>1, <1>2, <2>2, EnqueueSound, GcSound DEF RowOK
  <2>5. r.status = row[c].status /\ r.pending = doc.pending /\ r.results = doc.results
    BY <1>1, <1>2, <2>2, <2>4, WithDocOK DEF EnqueueRow
  <2>6. asked \in Document
    BY <2>4 DEF Sound
  <2>7. /\ asked.pending \subseteq row[c].pending \cup {[probe |-> minted + 1, binding |-> b]}
        /\ asked.results \subseteq row[c].results
    BY DEF EnqueueCliProbe, Doc
  <2> HIDE DEF asked
  <2>8. doc.pending = asked.pending /\ doc.results = asked.results \ old
    BY <2>6 DEF GcOldProbeResults, Document, asked
  <2> HIDE DEF r, doc
  <2>9. RegistryInv'
    BY <1>2, <2>1, <2>2, <2>3, <2>5, OneRowOK DEF r, Exists
  <2>10. Onwards(c, r)
    BY <2>5, <2>7, <2>8 DEF Ids
  <2> QED
    BY <2>1, <2>9, <2>10 DEF r
<1>9. ASSUME NEW c \in Connectors, Revoke(c)
      PROVE  RegistryInv' /\ \E r : row' = [row EXCEPT ![c] = r] /\ Onwards(c, r)
  <2>1. /\ row' = [row EXCEPT ![c] = RevokeRow(row[c])] /\ Exists(c)
        /\ UNCHANGED <<session, minted>> /\ RowOK(RevokeRow(row[c]), minted)
    BY <1>1, <1>2, <1>9, RevokeOK DEF Revoke
  <2>2. /\ RevokeRow(row[c]).status = "revoked" /\ RevokeRow(row[c]).pending = row[c].pending
        /\ RevokeRow(row[c]).results = row[c].results
    BY <1>3 DEF RevokeRow, Row
  <2>3. RegistryInv'
    BY <1>2, <2>1, <2>2, OneRowOK
  <2> QED
    BY <2>1, <2>2, <2>3
<1>10. ASSUME NEW c \in Connectors, EditConfigs(c)
       PROVE  RegistryInv' /\ \E r : row' = [row EXCEPT ![c] = r] /\ Onwards(c, r)
  <2>1. PICK r \in ConfigRows(row[c]) : row' = [row EXCEPT ![c] = r]
    BY <1>10 DEF EditConfigs
  <2>2. /\ RowOK(r, minted) /\ r.status = row[c].status /\ Exists(c)
        /\ r.pending = row[c].pending /\ r.results = row[c].results
    BY <1>1, <1>2, ConfigsOK DEF Exists
  <2>3. RegistryInv'
    BY <1>2, <1>10, <2>1, <2>2, OneRowOK DEF EditConfigs, Exists
  <2> QED
    BY <2>1, <2>2, <2>3
<1>11. ASSUME NEW cs \in SUBSET Connectors, NEW b \in Bindings, Scrub(cs, b)
       PROVE  RegistryInv' /\ \A c \in Connectors : row'[c].status = row[c].status /\ Onwards(c, row'[c])
  <2>1. /\ row' = [c \in Connectors |-> IF c \in cs THEN ScrubRow(row[c], b) ELSE row[c]]
        /\ UNCHANGED <<session, minted>>
    BY <1>11 DEF Scrub
  <2>2. ASSUME NEW c \in Connectors
        PROVE  /\ RowOK(ScrubRow(row[c], b), minted)
               /\ ScrubRow(row[c], b).status = row[c].status
               /\ ScrubRow(row[c], b).pending \subseteq row[c].pending
               /\ ScrubRow(row[c], b).results \subseteq row[c].results
    <3> DEFINE doc == ScrubCliProbes(Doc(row[c]), b)
    <3>1. Sound(doc, minted)
      BY <1>1, <1>2, ScrubSound DEF RowOK
    <3>2. doc.pending \subseteq row[c].pending /\ doc.results \subseteq row[c].results
      BY DEF ScrubCliProbes, Doc
    <3> HIDE DEF doc
    <3> QED
      BY <1>1, <1>2, <3>1, <3>2, WithDocOK DEF ScrubRow, doc
  <2>3. \A c \in Connectors : /\ RowOK(row'[c], minted) /\ row'[c].status = row[c].status
                              /\ row'[c].pending \subseteq row[c].pending
                              /\ row'[c].results \subseteq row[c].results
    BY <1>1, <2>1, <2>2
  <2>4. row' \in [Connectors -> Row]
    BY <2>1, <2>3 DEF RowOK
  <2>5. RowsTyped' /\ UnclaimedIsFree' /\ CodeUsedOnce'
    BY <1>1, <2>1, <2>3, <2>4 DEF RowsTyped, UnclaimedIsFree, CodeUsedOnce, Exists
  <2>6. RegistryInv'
    BY <2>1, <2>3, <2>5, RowsAreOKNext
  <2> QED
    BY <2>3, <2>6 DEF Ids
<1>12. ASSUME \E c \in Connectors : \E r : row' = [row EXCEPT ![c] = r] /\ Onwards(c, r)
       PROVE  \A d \in Connectors : Onwards(d, row'[d])
  <2>0. PICK c \in Connectors : \E r : row' = [row EXCEPT ![c] = r] /\ Onwards(c, r)
    BY <1>12
  <2>1. PICK r : row' = [row EXCEPT ![c] = r] /\ Onwards(c, r)
    BY <2>0
  <2>2. \A d \in Connectors : Onwards(d, row'[d])
    <3> SUFFICES ASSUME NEW d \in Connectors PROVE Onwards(d, row'[d])
      OBVIOUS
    <3>1. CASE d = c
      <4>1. row'[d] = r
        BY <1>1, <2>1, <3>1 DEF RowsTyped
      <4> HIDE DEF Onwards
      <4> QED
        BY <2>1, <3>1, <4>1
    <3>2. CASE d # c
      <4>1. row'[d] = row[d]
        BY <1>1, <2>1, <3>2 DEF RowsTyped
      <4> HIDE DEF Onwards
      <4> QED
        BY <1>4, <4>1
    <3> QED
      BY <3>1, <3>2
  <2> QED
    BY <2>2
<1>13. \/ RegistryInv' /\ UNCHANGED row
       \/ RegistryInv' /\ \E c \in Connectors : \E r : row' = [row EXCEPT ![c] = r] /\ Onwards(c, r)
       \/ RegistryInv' /\ \A c \in Connectors : Onwards(c, row'[c])
  <2> HIDE DEF Onwards
  <2> QED
    BY <1>5, <1>6, <1>7, <1>8, <1>9, <1>10, <1>11 DEF RegistryNext
<1> QED
  BY <1>4, <1>12, <1>13

\* The registry at one instant: what holds of all its behaviours.
LEMMA RegistrySafe == RegistrySpec => []RegistryInv
<1>1. RegistryInv /\ UNCHANGED registryVars => RegistryInv'
  BY DEF RegistryInv, registryVars, RowsTyped, IdsDrawn, UnclaimedIsFree, OneProbePerBinding,
         CodeUsedOnce, ConfigsCoherent, Exists, Doc
<1>2. RegistryInv /\ [RegistryNext]_registryVars => RegistryInv'
  BY <1>1, RegistryStep
<1> QED
  BY <1>2, RegistryInitOK, PTL DEF RegistrySpec

-----------------------------------------------------------------------------
(* Transactions: a slot, and two slots                                     *)

\* A request that holds rows locked.
Holds(x) == x.op \in {"enqueue", "scrub", "heartbeat", "revoke", "configs"} /\ x.stage = "locked"

\* What is locked is what was read, the connector of a request exists, and a
\* code that is locked can still be claimed.
SlotOK(x, rows, sessions) ==
  /\ Holds(x) => \A c \in DOMAIN x.seen : rows[c].status # "none" /\ x.seen[c] = rows[c]
  /\ Holds(x) /\ x.op # "scrub" => x.connector \in DOMAIN x.seen
  /\ x.op \in {"enqueue", "heartbeat"} => rows[x.connector].status # "none"
  /\ x.op = "pair" => (x.stage = "reply" <=> rows[x.connector].status # "none")
  /\ x.op = "pair" /\ x.stage = "locked" => sessions[x.session].status = "pending"

\* Two requests lock different rows, and pair different connectors.
Apart(x, y) ==
  /\ Holds(x) /\ Holds(y) => DOMAIN x.seen \cap DOMAIN y.seen = {}
  /\ x.op = "pair" /\ y.op = "pair" => x.connector # y.connector
  /\ x.op = "pair" /\ y.op = "pair" /\ x.stage = "locked" /\ y.stage = "locked" =>
       x.session # y.session

LocksOK ==
  \A t \in Txs : /\ SlotOK(tx[t], row, session)
                  /\ \A u \in Txs \ {t} : Apart(tx[t], tx[u])

DaemonsOK ==
  /\ daemon \in [Connectors -> Daemon]
  /\ \A c \in Connectors : daemon[c].token => Exists(c)

LinkInv ==
  /\ RegistryInv
  /\ tx \in [Txs -> Tx]
  /\ LocksOK
  /\ DaemonsOK

\* One slot changes and nothing another slot has locked.
LEMMA OneSlotOK ==
  ASSUME tx \in [Txs -> Tx], LocksOK, NEW t \in Txs, NEW x \in Tx, tx' = [tx EXCEPT ![t] = x],
         SlotOK(x, row', session'), \A u \in Txs \ {t} : Apart(x, tx[u]),
         \A u \in Txs \ {t} : SlotOK(tx[u], row, session) => SlotOK(tx[u], row', session')
  PROVE  tx' \in [Txs -> Tx] /\ LocksOK'
<1>1. tx'[t] = x /\ \A u \in Txs \ {t} : tx'[u] = tx[u]
  OBVIOUS
<1>2. \A u \in Txs : SlotOK(tx'[u], row', session')
  BY <1>1 DEF LocksOK
<1>3. \A u \in Txs \ {t} : Apart(tx[u], x)
  BY DEF Apart
<1>4. \A u \in Txs : \A v \in Txs \ {u} : Apart(tx'[u], tx'[v])
  BY <1>1, <1>3 DEF LocksOK
<1> QED
  BY <1>1, <1>2, <1>4 DEF LocksOK

\* The slot of a request that ends.
LEMMA EndOK ==
  ASSUME tx \in [Txs -> Tx], LocksOK, NEW t \in Txs, End(t),
         \A u \in Txs \ {t} : SlotOK(tx[u], row, session) => SlotOK(tx[u], row', session')
  PROVE  tx' \in [Txs -> Tx] /\ LocksOK'
<1>1. PICK x : x = NoTx
  OBVIOUS
<1>2. x \in Tx /\ x.op = "none" /\ tx' = [tx EXCEPT ![t] = x]
  BY <1>1 DEF Tx, NoTx, End
<1>3. SlotOK(x, row', session') /\ \A u \in Txs \ {t} : Apart(x, tx[u])
  BY <1>2 DEF SlotOK, Apart, Holds
<1> QED
  BY <1>2, <1>3, OneSlotOK

\* Rows that no other slot holds are written, no connector is made.
LEMMA OthersKeep ==
  ASSUME LocksOK, NEW t \in Txs, NEW cs, UNCHANGED session,
         \A c \in Connectors \ cs : row'[c] = row[c],
         \A c \in cs : row[c].status # "none" /\ row'[c].status # "none",
         Holds(tx[t]), cs \subseteq DOMAIN tx[t].seen,
         tx \in [Txs -> Tx]
  PROVE  \A u \in Txs \ {t} : SlotOK(tx[u], row, session) => SlotOK(tx[u], row', session')
<1> SUFFICES ASSUME NEW u \in Txs \ {t}, SlotOK(tx[u], row, session)
             PROVE  SlotOK(tx[u], row', session')
  OBVIOUS
<1>1. Apart(tx[t], tx[u]) /\ tx[u] \in Tx
  BY DEF LocksOK
<1>2. tx[u].op \in {"enqueue", "heartbeat", "pair"} =>
        (row'[tx[u].connector].status = "none" <=> row[tx[u].connector].status = "none")
  <2>1. tx[u].op \in {"enqueue", "heartbeat", "pair"} => tx[u].connector \in Connectors
    BY <1>1 DEF Tx, NoTx
  <2> QED
    BY <2>1
<1>3. Holds(tx[u]) => \A c \in DOMAIN tx[u].seen : row'[c] = row[c]
  <2> SUFFICES ASSUME Holds(tx[u]) PROVE \A c \in DOMAIN tx[u].seen : row'[c] = row[c]
    OBVIOUS
  <2>1. DOMAIN tx[u].seen \cap cs = {} /\ DOMAIN tx[u].seen \subseteq Connectors
    BY <1>1 DEF Apart, Tx, NoTx, Seen, Holds
  <2> QED
    BY <2>1
<1> QED
  BY <1>2, <1>3 DEF SlotOK

\* The rows a slot holds, as it has read them.
LEMMA HeldRow ==
  ASSUME LinkInv, NEW t \in Txs, Locked(t), tx[t].op \in {"enqueue", "heartbeat", "revoke", "configs"}
  PROVE  /\ Holds(tx[t]) /\ tx[t].connector \in Connectors /\ tx[t].connector \in DOMAIN tx[t].seen
         /\ Exists(tx[t].connector) /\ Read(t) = row[tx[t].connector]
<1>1. tx[t] \in Tx /\ SlotOK(tx[t], row, session)
  BY DEF LinkInv, LocksOK
<1>2. Holds(tx[t]) /\ tx[t].op # "scrub"
  BY DEF Holds, Locked
<1>3. tx[t].connector \in Connectors
  BY <1>1 DEF Tx, NoTx
<1> QED
  BY <1>1, <1>2, <1>3 DEF SlotOK, Exists, Read

\* A request that writes the row it holds and ends.
LEMMA WriteOK ==
  ASSUME LinkInv, NEW t \in Txs, Locked(t), tx[t].op \in {"enqueue", "heartbeat", "revoke", "configs"},
         NEW r, r.status # "none", Write(tx[t].connector, r), UNCHANGED session
  PROVE  /\ \A u \in Txs \ {t} : SlotOK(tx[u], row, session) => SlotOK(tx[u], row', session')
         /\ row' = [row EXCEPT ![tx[t].connector] = r]
         /\ \A c \in Connectors : Exists(c) => row'[c].status # "none"
<1>1. PICK c \in Connectors : c = tx[t].connector /\ c \in DOMAIN tx[t].seen /\ Exists(c) /\ Holds(tx[t])
  BY HeldRow
<1>2. row' = [row EXCEPT ![c] = r] /\ row \in [Connectors -> Row]
  BY <1>1 DEF Write, LinkInv, RegistryInv, RowsTyped
<1>3. row'[c] = r /\ \A d \in Connectors \ {c} : row'[d] = row[d]
  BY <1>2
<1>4. \A u \in Txs \ {t} : SlotOK(tx[u], row, session) => SlotOK(tx[u], row', session')
  <2>1. PICK cs : cs = {c}
    OBVIOUS
  <2>2. /\ \A d \in cs : row[d].status # "none" /\ row'[d].status # "none"
        /\ \A d \in Connectors \ cs : row'[d] = row[d]
        /\ cs \subseteq DOMAIN tx[t].seen
    BY <1>1, <1>3, <2>1 DEF Exists
  <2>3. LocksOK /\ tx \in [Txs -> Tx]
    BY DEF LinkInv
  <2> QED
    BY <1>1, <2>2, <2>3, OthersKeep
<1> QED
  BY <1>1, <1>2, <1>3, <1>4 DEF Exists

-----------------------------------------------------------------------------
(* Daemons                                                                 *)

LEMMA ReportsMerge ==
  ASSUME NEW f \in Reports, NEW g \in Reports
  PROVE  Merged(f, g) \in Reports
<1>1. PICK ps \in SUBSET Probes, qs \in SUBSET Probes : f \in [ps -> BOOLEAN] /\ g \in [qs -> BOOLEAN]
  BY DEF Reports
<1>2. Merged(f, g) \in [ps \cup qs -> BOOLEAN]
  BY <1>1 DEF Merged
<1>3. ps \cup qs \in SUBSET Probes
  OBVIOUS
<1> QED
  BY <1>2, <1>3 DEF Reports

LEMMA OneReport ==
  ASSUME NEW p \in Probes, NEW ok \in BOOLEAN
  PROVE  [q \in {p} |-> ok] \in Reports
<1>1. [q \in {p} |-> ok] \in [{p} -> BOOLEAN] /\ {p} \in SUBSET Probes
  OBVIOUS
<1> QED
  BY <1>1 DEF Reports

LEMMA NothingReported == NoReports \in Reports
<1>1. NoReports \in [{} -> BOOLEAN] /\ {} \in SUBSET Probes
  BY DEF NoReports
<1> QED
  BY <1>1 DEF Reports

\* A daemon that changes into another that is in order.
LEMMA OneDaemonOK ==
  ASSUME DaemonsOK, NEW c \in Connectors, NEW d \in Daemon, d.token => Exists(c),
         daemon' = [daemon EXCEPT ![c] = d], UNCHANGED row
  PROVE  DaemonsOK'
<1>1. daemon'[c] = d /\ \A e \in Connectors \ {c} : daemon'[e] = daemon[e]
  BY DEF DaemonsOK
<1> QED
  BY <1>1 DEF DaemonsOK, Exists

LEMMA CallFailedOK ==
  ASSUME NEW d \in Daemon
  PROVE  CallFailed(d) \in Daemon /\ CallFailed(d).token = d.token
<1>1. Merged(d.out, d.sent) \in Reports
  BY ReportsMerge DEF Daemon
<1> QED
  BY <1>1, NothingReported DEF CallFailed, Daemon

LEMMA AnsweredOK ==
  ASSUME DaemonsOK, NEW t \in Txs, daemon' = Answered(t), UNCHANGED row
  PROVE  DaemonsOK'
<1>1. \A c \in Connectors : daemon'[c] \in Daemon /\ daemon'[c].token = daemon[c].token
  BY CallFailedOK DEF Answered, DaemonsOK
<1>2. daemon' \in [Connectors -> Daemon]
  BY <1>1 DEF Answered
<1> QED
  BY <1>1, <1>2 DEF DaemonsOK, Exists

LEMMA NewDaemonOK ==
  ASSUME NEW token \in BOOLEAN
  PROVE  NewDaemon(token) \in Daemon /\ NewDaemon(token).token = token
<1>1. <<>> \in Seq(Probes)
  OBVIOUS
<1> QED
  BY <1>1, NothingReported DEF NewDaemon, Daemon

-----------------------------------------------------------------------------
(* Requests and locks: the registry does not move                          *)

\* What is left to show of a step that leaves the registry alone.
LEMMA QuietStep ==
  ASSUME LinkInv, UNCHANGED registryVars, tx' \in [Txs -> Tx], LocksOK', DaemonsOK'
  PROVE  LinkInv'
BY DEF LinkInv, RegistryInv, registryVars, RowsTyped, IdsDrawn, UnclaimedIsFree, OneProbePerBinding,
       CodeUsedOnce, ConfigsCoherent, Exists, Doc

\* A slot takes a request, or the request in it takes a lock.
LEMMA SlotStep ==
  ASSUME LinkInv, UNCHANGED registryVars, NEW t \in Txs, NEW x \in Tx, tx' = [tx EXCEPT ![t] = x],
         SlotOK(x, row, session), \A u \in Txs \ {t} : Apart(x, tx[u]), DaemonsOK'
  PROVE  LinkInv'
<1>1. UNCHANGED <<row, session>> /\ tx \in [Txs -> Tx] /\ LocksOK
  BY DEF registryVars, LinkInv
<1>2. tx' \in [Txs -> Tx] /\ LocksOK'
  BY <1>1, OneSlotOK
<1> QED
  BY <1>2, QuietStep

LEMMA NothingSeen == NoRows \in Seen /\ DOMAIN NoRows = {}
<1>1. NoRows \in [{} -> Row] /\ {} \in SUBSET Connectors
  BY DEF NoRows
<1> QED
  BY <1>1 DEF Seen

LEMMA DaemonsStay ==
  ASSUME DaemonsOK, UNCHANGED <<registryVars, daemon>>
  PROVE  DaemonsOK'
BY DEF DaemonsOK, registryVars, Exists

LEMMA PairOK ==
  ASSUME LinkInv, NEW t \in Txs, NEW s \in Sessions, NEW c \in Connectors, Pair(t, s, c)
  PROVE  LinkInv'
<1>1. PICK x : x = PairRequest(s, c)
  OBVIOUS
<1>2. /\ x \in Tx /\ x.op = "pair" /\ x.stage = "asked" /\ x.connector = c
      /\ tx' = [tx EXCEPT ![t] = x] /\ UNCHANGED <<registryVars, daemon>>
  BY <1>1 DEF Pair, Ask, PairRequest, Tx
<1>3. SlotOK(x, row, session) /\ \A u \in Txs \ {t} : Apart(x, tx[u])
  BY <1>2 DEF Pair, SlotOK, Apart, Holds, Exists
<1> QED
  BY <1>2, <1>3, SlotStep, DaemonsStay DEF LinkInv

LEMMA ProbeBindingOK ==
  ASSUME LinkInv, NEW t \in Txs, NEW c \in Connectors, NEW b \in Bindings, ProbeBinding(t, c, b)
  PROVE  LinkInv'
<1>1. PICK x : x = ProbeRequest(c, b)
  OBVIOUS
<1>2. /\ x \in Tx /\ x.op = "enqueue" /\ x.stage = "asked" /\ x.connector = c
      /\ tx' = [tx EXCEPT ![t] = x] /\ UNCHANGED <<registryVars, daemon>>
  BY <1>1, NothingSeen DEF ProbeBinding, Ask, ProbeRequest, Tx
<1>3. SlotOK(x, row, session) /\ \A u \in Txs \ {t} : Apart(x, tx[u])
  BY <1>2 DEF ProbeBinding, SlotOK, Apart, Holds, Exists
<1> QED
  BY <1>2, <1>3, SlotStep, DaemonsStay DEF LinkInv

LEMMA DeleteBindingOK ==
  ASSUME LinkInv, NEW t \in Txs, NEW b \in Bindings, DeleteBinding(t, b)
  PROVE  LinkInv'
<1>1. PICK x : x = ScrubRequest(b)
  OBVIOUS
<1>2. /\ x \in Tx /\ x.op = "scrub" /\ x.stage = "asked"
      /\ tx' = [tx EXCEPT ![t] = x] /\ UNCHANGED <<registryVars, daemon>>
  BY <1>1, NothingSeen DEF DeleteBinding, Ask, ScrubRequest, Tx
<1>3. SlotOK(x, row, session) /\ \A u \in Txs \ {t} : Apart(x, tx[u])
  BY <1>2 DEF SlotOK, Apart, Holds, Exists
<1> QED
  BY <1>2, <1>3, SlotStep, DaemonsStay DEF LinkInv

LEMMA SendHeartbeatOK ==
  ASSUME LinkInv, NEW t \in Txs, NEW c \in Connectors, SendHeartbeat(t, c)
  PROVE  LinkInv'
<1>1. PICK x : x = HeartbeatRequest(c, daemon[c].out)
  OBVIOUS
<1>2. daemon[c] \in Daemon /\ daemon[c].token /\ Exists(c) /\ daemon[c].out \in Reports
  BY DEF LinkInv, DaemonsOK, SendHeartbeat, Daemon
<1>3. /\ x \in Tx /\ x.op = "heartbeat" /\ x.stage = "asked" /\ x.connector = c
      /\ tx' = [tx EXCEPT ![t] = x] /\ UNCHANGED registryVars
  BY <1>1, <1>2, NothingSeen DEF SendHeartbeat, Ask, HeartbeatRequest, Tx
<1>4. SlotOK(x, row, session) /\ \A u \in Txs \ {t} : Apart(x, tx[u])
  BY <1>2, <1>3 DEF SlotOK, Apart, Holds, Exists
<1>5. DaemonsOK'
  <2>1. PICK d : d = [daemon[c] EXCEPT !.sent = daemon[c].out, !.out = NoReports, !.call = t]
    OBVIOUS
  <2>2. d \in Daemon /\ d.token = daemon[c].token
    BY <1>2, <2>1, NothingReported DEF Daemon
  <2>3. daemon' = [daemon EXCEPT ![c] = d] /\ UNCHANGED row
    BY <1>3, <2>1 DEF SendHeartbeat, registryVars, LinkInv, DaemonsOK
  <2> QED
    BY <1>2, <2>2, <2>3, OneDaemonOK DEF LinkInv
<1> QED
  BY <1>3, <1>4, <1>5, SlotStep

LEMMA LockRowOK ==
  ASSUME LinkInv, NEW t \in Txs, NEW c \in Connectors, NEW op \in {"revoke", "configs"},
         LockRow(t, c, op)
  PROVE  LinkInv'
<1>1. PICK x : x = [op |-> op, stage |-> "locked", connector |-> c, seen |-> [d \in {c} |-> row[d]]]
  OBVIOUS
<1>2. x.seen \in Seen /\ DOMAIN x.seen = {c} /\ x.seen[c] = row[c]
  <2>1. x.seen \in [{c} -> Row] /\ {c} \in SUBSET Connectors
    BY <1>1 DEF LinkInv, RegistryInv, RowsTyped
  <2> QED
    BY <1>1, <2>1 DEF Seen
<1>3. /\ x \in Tx /\ x.op = op /\ x.stage = "locked" /\ x.connector = c
      /\ tx' = [tx EXCEPT ![t] = x] /\ UNCHANGED <<registryVars, daemon>>
  BY <1>1, <1>2 DEF LockRow, Tx
<1>4. \A u \in Txs \ {t} : Holds(tx[u]) => c \notin DOMAIN tx[u].seen
  BY DEF LockRow, LockedRows, Locked, Holds
<1>5. SlotOK(x, row, session) /\ \A u \in Txs \ {t} : Apart(x, tx[u])
  BY <1>2, <1>3, <1>4 DEF LockRow, SlotOK, Apart, Holds, Exists
<1> QED
  BY <1>3, <1>5, SlotStep, DaemonsStay DEF LinkInv

LEMMA LockRowsOK ==
  ASSUME LinkInv, NEW t \in Txs, LockRows(t)
  PROVE  LinkInv'
<1>1. PICK x : x = [tx[t] EXCEPT !.stage = "locked", !.seen = [c \in RowsOf(t) |-> row[c]]]
  OBVIOUS
<1>2. /\ tx[t] \in Tx /\ SlotOK(tx[t], row, session) /\ tx[t].stage = "asked"
      /\ tx[t].op \in {"enqueue", "scrub", "heartbeat"}
  BY DEF LinkInv, LocksOK, LockRows, Free, Tx, NoTx
<1>3. /\ tx[t].op # "scrub" => tx[t].connector \in Connectors
      /\ RowsOf(t) \subseteq Connectors /\ \A c \in RowsOf(t) : Exists(c)
  BY <1>2 DEF Tx, NoTx, RowsOf, SlotOK, Exists
<1>4. [c \in RowsOf(t) |-> row[c]] \in Seen
  <2>1. [c \in RowsOf(t) |-> row[c]] \in [RowsOf(t) -> Row] /\ RowsOf(t) \in SUBSET Connectors
    BY <1>3 DEF LinkInv, RegistryInv, RowsTyped
  <2> QED
    BY <2>1 DEF Seen
<1>5. /\ x \in Tx /\ x.op = tx[t].op /\ x.stage = "locked" /\ x.seen = [c \in RowsOf(t) |-> row[c]]
      /\ x.op # "scrub" => x.connector = tx[t].connector
  <2>1. PICK rows \in Seen : rows = [c \in RowsOf(t) |-> row[c]]
    BY <1>4
  <2>2. x = [tx[t] EXCEPT !.stage = "locked", !.seen = rows]
    BY <1>1, <2>1
  <2>3. CASE tx[t].op = "enqueue"
    <3>1. tx[t] \in [op : {"enqueue"}, stage : {"asked", "locked"},
                   connector : Connectors, binding : Bindings, seen : Seen]
      BY <1>2, <2>3 DEF Tx, NoTx
    <3>2. x \in [op : {"enqueue"}, stage : {"asked", "locked"},
                   connector : Connectors, binding : Bindings, seen : Seen]
      BY <2>1, <2>2, <3>1
    <3>3. x.op = "enqueue" /\ x.stage = "locked" /\ x.seen = rows /\ x.connector = tx[t].connector
      BY <2>1, <2>2, <3>1
    <3> QED
      BY <2>1, <2>3, <3>2, <3>3 DEF Tx
  <2>4. CASE tx[t].op = "scrub"
    <3>1. tx[t] \in [op : {"scrub"}, stage : {"asked", "locked"}, binding : Bindings, seen : Seen]
      BY <1>2, <2>4 DEF Tx, NoTx
    <3>2. x \in [op : {"scrub"}, stage : {"asked", "locked"}, binding : Bindings, seen : Seen]
      BY <2>1, <2>2, <3>1
    <3>3. x.op = "scrub" /\ x.stage = "locked" /\ x.seen = rows
      BY <2>1, <2>2, <3>1
    <3> QED
      BY <2>1, <2>4, <3>2, <3>3 DEF Tx
  <2>5. CASE tx[t].op = "heartbeat"
    <3>1. tx[t] \in [op : {"heartbeat"}, stage : {"asked", "locked", "reply"},
                   connector : Connectors, reports : Reports, seen : Seen]
      BY <1>2, <2>5 DEF Tx, NoTx
    <3>2. x \in [op : {"heartbeat"}, stage : {"asked", "locked", "reply"},
                   connector : Connectors, reports : Reports, seen : Seen]
      BY <2>1, <2>2, <3>1
    <3>3. x.op = "heartbeat" /\ x.stage = "locked" /\ x.seen = rows /\ x.connector = tx[t].connector
      BY <2>1, <2>2, <3>1
    <3> QED
      BY <2>1, <2>5, <3>2, <3>3 DEF Tx
  <2> QED
    BY <1>2, <2>3, <2>4, <2>5
<1>6. tx' = [tx EXCEPT ![t] = x] /\ UNCHANGED <<registryVars, daemon>>
  BY <1>1 DEF LockRows, LinkInv
<1>7. \A u \in Txs \ {t} : Holds(tx[u]) => DOMAIN tx[u].seen \cap RowsOf(t) = {}
  BY DEF LockRows, LockedRows, Locked, Holds
<1>8. SlotOK(x, row, session) /\ \A u \in Txs \ {t} : Apart(x, tx[u])
  <2>1. DOMAIN x.seen = RowsOf(t) /\ \A c \in RowsOf(t) : x.seen[c] = row[c]
    BY <1>5
  <2>2. x.op # "scrub" => x.connector \in RowsOf(t)
    BY <1>5 DEF RowsOf
  <2> QED
    BY <1>2, <1>3, <1>5, <1>7, <2>1, <2>2 DEF SlotOK, Apart, Holds, Exists
<1> QED
  BY <1>5, <1>6, <1>8, SlotStep, DaemonsStay DEF LinkInv

LEMMA LockSessionOK ==
  ASSUME LinkInv, NEW t \in Txs, LockSession(t)
  PROVE  LinkInv'
<1>1. PICK x : x = [tx[t] EXCEPT !.stage = "locked"]
  OBVIOUS
<1>2. /\ tx[t] \in Tx /\ SlotOK(tx[t], row, session) /\ tx[t].op = "pair" /\ tx[t].stage = "asked"
      /\ session[tx[t].session].status = "pending"
      /\ \A u \in Txs \ {t} : Apart(tx[t], tx[u])
  BY DEF LinkInv, LocksOK, LockSession, Claimable
<1>3. /\ x \in Tx /\ x.op = "pair" /\ x.stage = "locked"
      /\ x.connector = tx[t].connector /\ x.session = tx[t].session
  BY <1>1, <1>2 DEF Tx, NoTx
<1>4. tx' = [tx EXCEPT ![t] = x] /\ UNCHANGED <<registryVars, daemon>>
  BY <1>1 DEF LockSession, LinkInv
<1>5. \A u \in Txs : tx[u].op = "pair" /\ tx[u].stage = "locked" => tx[u].session # x.session
  BY <1>3 DEF LockSession, Locked
<1>6. SlotOK(x, row, session) /\ \A u \in Txs \ {t} : Apart(x, tx[u])
  BY <1>2, <1>3, <1>5 DEF SlotOK, Apart, Holds
<1> QED
  BY <1>3, <1>4, <1>6, SlotStep, DaemonsStay DEF LinkInv

\* A slot is given back and the registry does not move.
LEMMA EndStep ==
  ASSUME LinkInv, NEW t \in Txs, End(t), UNCHANGED registryVars, DaemonsOK'
  PROVE  LinkInv'
<1>1. UNCHANGED <<row, session>> /\ tx \in [Txs -> Tx] /\ LocksOK
  BY DEF registryVars, LinkInv
<1> QED
  BY <1>1, EndOK, QuietStep

-----------------------------------------------------------------------------
(* Commits: each is an operation of the registry                           *)

LEMMA CommitPairOK ==
  ASSUME LinkInv, NEW t \in Txs, CommitPair(t)
  PROVE  /\ tx' \in [Txs -> Tx] /\ LocksOK' /\ DaemonsOK'
         /\ \E s \in Sessions, c \in Connectors : ClaimPairingSession(s, c)
<1>1. PICK x : x = [tx[t] EXCEPT !.stage = "reply"]
  OBVIOUS
<1>2. PICK s, c : s = tx[t].session /\ c = tx[t].connector
  OBVIOUS
<1>3. /\ tx[t] \in Tx /\ SlotOK(tx[t], row, session) /\ tx[t].op = "pair" /\ tx[t].stage = "locked"
      /\ \A u \in Txs \ {t} : Apart(tx[t], tx[u])
  BY DEF LinkInv, LocksOK, CommitPair, Locked
<1>4. /\ x \in Tx /\ x.op = "pair" /\ x.stage = "reply" /\ x.connector = c
      /\ s \in Sessions /\ c \in Connectors
  BY <1>1, <1>2, <1>3 DEF Tx, NoTx
<1>5. /\ session' = [session EXCEPT ![s] = [status |-> "claimed", connector |-> c]]
      /\ row' = [row EXCEPT ![c].status = "pending"]
      /\ tx' = [tx EXCEPT ![t] = x] /\ UNCHANGED <<minted, daemon>>
  BY <1>1, <1>2 DEF CommitPair, LinkInv
<1>6. session[s].status = "pending" /\ row[c].status = "none"
  BY <1>2, <1>3 DEF SlotOK
<1>7. /\ row'[c].status = "pending" /\ \A d \in Connectors \ {c} : row'[d] = row[d]
      /\ \A u \in Sessions \ {s} : session'[u] = session[u]
  BY <1>4, <1>5 DEF LinkInv, RegistryInv, RowsTyped, Row
<1>8. SlotOK(x, row', session') /\ \A u \in Txs \ {t} : Apart(x, tx[u])
  BY <1>2, <1>3, <1>4, <1>7 DEF SlotOK, Apart, Holds
<1>9. ASSUME NEW u \in Txs \ {t}, SlotOK(tx[u], row, session)
      PROVE  SlotOK(tx[u], row', session')
  <2>1. tx[u] \in Tx /\ Apart(tx[t], tx[u])
    BY <1>3 DEF LinkInv
  <2>2. Holds(tx[u]) => /\ DOMAIN tx[u].seen \subseteq Connectors
                        /\ \A d \in DOMAIN tx[u].seen : d # c
    BY <1>6, <1>9, <2>1 DEF Tx, NoTx, Seen, Holds, SlotOK
  <2>3. tx[u].op = "pair" => /\ tx[u].connector \in Connectors \ {c} /\ tx[u].session \in Sessions
                             /\ tx[u].stage = "locked" => tx[u].session # s
    BY <1>2, <1>3, <2>1 DEF Tx, NoTx, Apart
  <2>4. tx[u].op \in {"enqueue", "heartbeat"} => tx[u].connector \in Connectors \ {c}
    BY <1>6, <1>9, <2>1 DEF Tx, NoTx, SlotOK
  <2> QED
    BY <1>7, <1>9, <2>2, <2>3, <2>4 DEF SlotOK
<1>10. tx' \in [Txs -> Tx] /\ LocksOK'
  BY <1>4, <1>5, <1>8, <1>9, OneSlotOK DEF LinkInv
<1>11. DaemonsOK'
  BY <1>5, <1>6, <1>7 DEF LinkInv, DaemonsOK, Exists
<1> QED
  BY <1>4, <1>5, <1>6, <1>10, <1>11 DEF ClaimPairingSession, Exists

LEMMA CommitHeartbeatOK ==
  ASSUME LinkInv, NEW t \in Txs, CommitHeartbeat(t)
  PROVE  /\ tx' \in [Txs -> Tx] /\ LocksOK' /\ DaemonsOK'
         /\ \E c \in Connectors, reports \in Reports : Heartbeat(c, reports)
<1>1. PICK x : x = [tx[t] EXCEPT !.stage = "reply"]
  OBVIOUS
<1>2. PICK c, reports : c = tx[t].connector /\ reports = tx[t].reports
  OBVIOUS
<1>3. /\ tx[t] \in Tx /\ tx[t].op = "heartbeat" /\ Locked(t) /\ SlotOK(tx[t], row, session)
      /\ \A u \in Txs \ {t} : Apart(tx[t], tx[u])
  BY DEF LinkInv, LocksOK, CommitHeartbeat
<1>4. /\ x \in Tx /\ x.op = "heartbeat" /\ x.stage = "reply" /\ x.connector = c
      /\ c \in Connectors /\ reports \in Reports
  BY <1>1, <1>2, <1>3 DEF Tx, NoTx
<1>5. Read(t) = row[c] /\ Exists(c) /\ MayHeartbeat(row[c])
  BY <1>2, <1>3, HeldRow DEF CommitHeartbeat
<1>6. PICK old \in SUBSET FoldProbeResults(Doc(row[c]), reports).results :
        Write(tx[t].connector, HeartbeatRow(row[c], reports, old))
  BY <1>2, <1>5 DEF CommitHeartbeat
<1>7. PICK r : r = HeartbeatRow(row[c], reports, old) /\ r.status # "none"
  <2>1. RowOK(row[c], minted) /\ minted \in Nat
    BY <1>4, RowsAreOK DEF LinkInv, RowsTyped
  <2>2. Sound(GcOldProbeResults(FoldProbeResults(Doc(row[c]), reports), old), minted)
    BY <1>4, <2>1, FoldSound, GcSound DEF RowOK
  <2>3. WithDoc(row[c], GcOldProbeResults(FoldProbeResults(Doc(row[c]), reports), old)) \in Row
    BY <2>1, <2>2, WithDocOK DEF RowOK
  <2>4. HeartbeatRow(row[c], reports, old).status = "online"
    BY <2>3 DEF HeartbeatRow, Row
  <2> QED
    BY <2>4
<1>8. /\ tx' = [tx EXCEPT ![t] = x] /\ UNCHANGED <<session, minted, daemon>>
  BY <1>1 DEF CommitHeartbeat, LinkInv
<1>9. /\ \A u \in Txs \ {t} : SlotOK(tx[u], row, session) => SlotOK(tx[u], row', session')
      /\ row' = [row EXCEPT ![c] = r]
      /\ \A d \in Connectors : Exists(d) => row'[d].status # "none"
  BY <1>2, <1>3, <1>6, <1>7, <1>8, WriteOK
<1>10. SlotOK(x, row', session') /\ \A u \in Txs \ {t} : Apart(x, tx[u])
  BY <1>4, <1>5, <1>9 DEF SlotOK, Apart, Holds
<1>11. tx' \in [Txs -> Tx] /\ LocksOK'
  BY <1>4, <1>8, <1>9, <1>10, OneSlotOK DEF LinkInv
<1>12. DaemonsOK'
  BY <1>8, <1>9 DEF LinkInv, DaemonsOK, Exists
<1>13. Heartbeat(c, reports)
  BY <1>5, <1>7, <1>8, <1>9 DEF Heartbeat
<1> QED
  BY <1>4, <1>11, <1>12, <1>13

\* A commit that writes the row it holds and ends the request.
LEMMA WriteEnds ==
  ASSUME LinkInv, NEW t \in Txs, Locked(t), tx[t].op \in {"enqueue", "heartbeat", "revoke", "configs"},
         NEW r, r.status # "none", Write(tx[t].connector, r), End(t), UNCHANGED <<session, daemon>>
  PROVE  /\ tx' \in [Txs -> Tx] /\ LocksOK' /\ DaemonsOK'
         /\ row' = [row EXCEPT ![tx[t].connector] = r]
<1>1. /\ \A u \in Txs \ {t} : SlotOK(tx[u], row, session) => SlotOK(tx[u], row', session')
      /\ row' = [row EXCEPT ![tx[t].connector] = r]
      /\ \A d \in Connectors : Exists(d) => row'[d].status # "none"
  BY WriteOK
<1>2. tx' \in [Txs -> Tx] /\ LocksOK'
  BY <1>1, EndOK DEF LinkInv
<1>3. DaemonsOK'
  BY <1>1 DEF LinkInv, DaemonsOK, Exists
<1> QED
  BY <1>1, <1>2, <1>3

LEMMA CommitEnqueueOK ==
  ASSUME LinkInv, NEW t \in Txs, CommitEnqueue(t)
  PROVE  /\ tx' \in [Txs -> Tx] /\ LocksOK' /\ DaemonsOK'
         /\ UNCHANGED registryVars \/ \E c \in Connectors, b \in Bindings : Enqueue(c, b)
<1>1. PICK c, b : c = tx[t].connector /\ b = tx[t].binding
  OBVIOUS
<1>2. /\ tx[t] \in Tx /\ tx[t].op = "enqueue" /\ Locked(t) /\ End(t)
      /\ UNCHANGED <<session, daemon>>
  BY DEF LinkInv, CommitEnqueue
<1>3. c \in Connectors /\ b \in Bindings /\ Read(t) = row[c] /\ Exists(c)
  BY <1>1, <1>2, HeldRow DEF Tx, NoTx
<1>4. CASE UNCHANGED <<row, minted>>
  <2>1. tx' \in [Txs -> Tx] /\ LocksOK'
    BY <1>2, <1>4, EndOK DEF LinkInv
  <2> QED
    BY <1>2, <1>4, <2>1 DEF LinkInv, DaemonsOK, Exists, registryVars
<1>5. CASE /\ InFlight(Doc(row[c]), b) = {} /\ CanEnqueue(Doc(row[c]), b)
           /\ minted + 1 \in Probes /\ minted' = minted + 1
           /\ \E old \in SUBSET Doc(row[c]).results :
                Write(tx[t].connector, EnqueueRow(row[c], minted + 1, b, old))
  <2>1. PICK old \in SUBSET Doc(row[c]).results :
          Write(tx[t].connector, EnqueueRow(row[c], minted + 1, b, old))
    BY <1>5
  <2>2. RowOK(row[c], minted) /\ minted \in Nat /\ minted + 1 \in Nat
    BY <1>3, RowsAreOK DEF LinkInv, RowsTyped
  <2>3. Sound(GcOldProbeResults(EnqueueCliProbe(Doc(row[c]), minted + 1, b), old), minted + 1)
    BY <1>3, <1>5, <2>2, EnqueueSound, GcSound DEF RowOK
  <2>4. EnqueueRow(row[c], minted + 1, b, old).status = row[c].status
    BY <2>2, <2>3, WithDocOK DEF EnqueueRow
  <2>5. PICK r : r = EnqueueRow(row[c], minted + 1, b, old)
    OBVIOUS
  <2>6. r.status # "none" /\ Write(tx[t].connector, r)
    BY <1>3, <2>1, <2>4, <2>5 DEF Exists
  <2>7. /\ tx' \in [Txs -> Tx] /\ LocksOK' /\ DaemonsOK'
        /\ row' = [row EXCEPT ![c] = EnqueueRow(row[c], minted + 1, b, old)]
    BY <1>1, <1>2, <2>5, <2>6, WriteEnds
  <2>8. old \in SUBSET row[c].results
    BY DEF Doc
  <2>9. Enqueue(c, b)
    BY <1>2, <1>3, <1>5, <2>7, <2>8 DEF Enqueue
  <2> QED
    BY <1>3, <2>7, <2>9
<1> QED
  BY <1>1, <1>3, <1>4, <1>5 DEF CommitEnqueue

LEMMA CommitRevokeOK ==
  ASSUME LinkInv, NEW t \in Txs, CommitRevoke(t)
  PROVE  /\ tx' \in [Txs -> Tx] /\ LocksOK' /\ DaemonsOK'
         /\ \E c \in Connectors : Revoke(c)
<1>1. PICK c : c = tx[t].connector
  OBVIOUS
<1>2. /\ tx[t].op = "revoke" /\ Locked(t) /\ End(t) /\ UNCHANGED <<session, minted, daemon>>
      /\ Write(tx[t].connector, RevokeRow(Read(t)))
  BY DEF CommitRevoke
<1>3. c \in Connectors /\ Read(t) = row[c] /\ Exists(c)
  BY <1>1, <1>2, HeldRow
<1>4. PICK r : r = RevokeRow(row[c]) /\ r.status # "none"
  <2>1. row[c] \in Row
    BY <1>3 DEF LinkInv, RegistryInv, RowsTyped
  <2>2. RevokeRow(row[c]).status = "revoked"
    BY <2>1 DEF RevokeRow, Row
  <2> QED
    BY <2>2
<1>5. tx' \in [Txs -> Tx] /\ LocksOK' /\ DaemonsOK' /\ row' = [row EXCEPT ![c] = r]
  BY <1>1, <1>2, <1>3, <1>4, WriteEnds
<1>6. Revoke(c)
  BY <1>2, <1>3, <1>4, <1>5 DEF Revoke
<1> QED
  BY <1>3, <1>5, <1>6

LEMMA CommitConfigsOK ==
  ASSUME LinkInv, NEW t \in Txs, CommitConfigs(t)
  PROVE  /\ tx' \in [Txs -> Tx] /\ LocksOK' /\ DaemonsOK'
         /\ \E c \in Connectors : EditConfigs(c)
<1>1. PICK c : c = tx[t].connector
  OBVIOUS
<1>2. /\ tx[t].op = "configs" /\ Locked(t) /\ End(t) /\ UNCHANGED <<session, minted, daemon>>
  BY DEF CommitConfigs
<1>3. c \in Connectors /\ Read(t) = row[c] /\ Exists(c)
  BY <1>1, <1>2, HeldRow
<1>4. PICK r \in ConfigRows(row[c]) : Write(tx[t].connector, r)
  BY <1>3 DEF CommitConfigs
<1>5. r.status # "none"
  <2>1. RowOK(row[c], minted) /\ minted \in Nat
    BY <1>3, RowsAreOK DEF LinkInv, RowsTyped
  <2> QED
    BY <2>1, ConfigsOK
<1>6. tx' \in [Txs -> Tx] /\ LocksOK' /\ DaemonsOK' /\ row' = [row EXCEPT ![c] = r]
  BY <1>1, <1>2, <1>4, <1>5, WriteEnds
<1>7. EditConfigs(c)
  BY <1>2, <1>4, <1>6 DEF EditConfigs
<1> QED
  BY <1>3, <1>6, <1>7

LEMMA CommitScrubOK ==
  ASSUME LinkInv, NEW t \in Txs, CommitScrub(t)
  PROVE  /\ tx' \in [Txs -> Tx] /\ LocksOK' /\ DaemonsOK'
         /\ \E cs \in SUBSET Connectors, b \in Bindings : Scrub(cs, b)
<1>1. PICK cs, b : cs = DOMAIN tx[t].seen /\ b = tx[t].binding
  OBVIOUS
<1>2. /\ tx[t] \in Tx /\ tx[t].op = "scrub" /\ Locked(t) /\ End(t) /\ SlotOK(tx[t], row, session)
      /\ UNCHANGED <<session, minted, daemon>> /\ tx \in [Txs -> Tx] /\ LocksOK
  BY DEF LinkInv, LocksOK, CommitScrub
<1>3. cs \in SUBSET Connectors /\ b \in Bindings /\ Holds(tx[t])
  BY <1>1, <1>2 DEF Tx, NoTx, Seen, Holds, Locked
<1>4. \A c \in cs : tx[t].seen[c] = row[c] /\ row[c].status # "none"
  BY <1>1, <1>2, <1>3 DEF SlotOK
<1>5. row' = [c \in Connectors |-> IF c \in cs THEN ScrubRow(row[c], b) ELSE row[c]]
  BY <1>1, <1>4 DEF CommitScrub
<1>6. \A c \in Connectors : row[c] \in Row /\ ScrubRow(row[c], b).status = row[c].status
  BY DEF LinkInv, RegistryInv, RowsTyped, ScrubRow, WithDoc, Row
<1>7. /\ \A c \in Connectors : row'[c].status = row[c].status
      /\ \A c \in Connectors \ cs : row'[c] = row[c]
  BY <1>5, <1>6
<1>8. \A u \in Txs \ {t} : SlotOK(tx[u], row, session) => SlotOK(tx[u], row', session')
  <2>1. \A c \in cs : row[c].status # "none" /\ row'[c].status # "none"
    BY <1>3, <1>4, <1>7
  <2>2. cs \subseteq DOMAIN tx[t].seen
    BY <1>1
  <2> QED
    BY <1>2, <1>3, <1>7, <2>1, <2>2, OthersKeep
<1>9. tx' \in [Txs -> Tx] /\ LocksOK'
  BY <1>2, <1>8, EndOK
<1>10. DaemonsOK'
  BY <1>2, <1>7 DEF LinkInv, DaemonsOK, Exists
<1>11. Scrub(cs, b)
  BY <1>2, <1>5 DEF Scrub
<1> QED
  BY <1>3, <1>9, <1>10, <1>11

-----------------------------------------------------------------------------
(* Replies, refusals and the daemon: the registry does not move            *)

LEMMA PairReplyOK ==
  ASSUME LinkInv, NEW t \in Txs, PairReply(t)
  PROVE  LinkInv'
<1>1. PICK c : c = tx[t].connector
  OBVIOUS
<1>2. /\ tx[t] \in Tx /\ tx[t].op = "pair" /\ tx[t].stage = "reply" /\ SlotOK(tx[t], row, session)
      /\ End(t) /\ UNCHANGED registryVars
  BY DEF LinkInv, LocksOK, PairReply
<1>3. c \in Connectors /\ Exists(c) /\ daemon[c] \in Daemon
  BY <1>1, <1>2 DEF Tx, NoTx, SlotOK, Exists, LinkInv, DaemonsOK
<1>4. PICK d : d = [daemon[c] EXCEPT !.token = TRUE]
  OBVIOUS
<1>5. d \in Daemon /\ daemon' = [daemon EXCEPT ![c] = d] /\ UNCHANGED row
  BY <1>1, <1>2, <1>3, <1>4 DEF PairReply, Daemon, registryVars, LinkInv, DaemonsOK
<1>6. DaemonsOK'
  BY <1>3, <1>5, OneDaemonOK DEF LinkInv
<1> QED
  BY <1>2, <1>6, EndStep

\* What a reply announces is finite, since ids are drawn one by one.
LEMMA NewsInOrder ==
  ASSUME LinkInv, NEW c \in Connectors, NEW news \in InOrder(News(daemon[c], row[c].pending))
  PROVE  news \in Seq(Probes)
<1> DEFINE ps == News(daemon[c], row[c].pending)
<1>1. row[c].pending \in SUBSET Request /\ minted \in Nat /\ IdsDrawn
  BY DEF LinkInv, RegistryInv, RowsTyped, Row
<1>2. ps \subseteq Probes /\ ps \subseteq 1 .. minted
  <2> SUFFICES ASSUME NEW p \in ps PROVE p \in Probes /\ p \in 1 .. minted
    OBVIOUS
  <2>1. PICK e \in row[c].pending : e.probe = p
    BY DEF News, Ids
  <2>2. e \in Request /\ e.probe <= minted
    BY <1>1 DEF IdsDrawn
  <2>3. p \in Probes
    BY <2>1, <2>2 DEF Request
  <2>4. p \in Nat /\ p # 0
    BY <2>3, ProbeRequestsAssumption
  <2> QED
    BY <1>1, <2>1, <2>2, <2>3, <2>4
<1> HIDE DEF ps
<1>3. IsFiniteSet(ps)
  <2>1. IsFiniteSet(1 .. minted)
    BY <1>1, FS_Interval
  <2> QED
    BY <1>2, <2>1, FS_Subset
<1>4. Cardinality(ps) \in Nat
  BY <1>3, FS_CardinalityType
<1>5. news \in [1 .. Cardinality(ps) -> ps]
  BY DEF InOrder, ps
<1> QED
  BY <1>2, <1>4, <1>5

LEMMA HeartbeatReplyOK ==
  ASSUME LinkInv, NEW t \in Txs, HeartbeatReply(t)
  PROVE  LinkInv'
<1>1. PICK c : c = tx[t].connector
  OBVIOUS
<1>2. /\ tx[t] \in Tx /\ tx[t].op = "heartbeat" /\ End(t) /\ UNCHANGED registryVars
  BY DEF LinkInv, HeartbeatReply
<1>3. c \in Connectors /\ daemon[c] \in Daemon /\ UNCHANGED row
  BY <1>1, <1>2 DEF Tx, NoTx, LinkInv, DaemonsOK, registryVars
<1>4. CASE daemon[c].call = t
  <2>1. PICK news \in InOrder(News(daemon[c], row[c].pending)) :
          daemon' = [daemon EXCEPT ![c] = Announced(@, news)]
    BY <1>1, <1>4 DEF HeartbeatReply
  <2>2. news \in Seq(Probes)
    BY <1>3, NewsInOrder
  <2>3. PICK d : d = Announced(daemon[c], news)
    OBVIOUS
  <2>4. {news[i] : i \in DOMAIN news} \subseteq Probes
    BY <2>2
  <2>5. daemon[c].queue \o news \in Seq(Probes)
    BY <1>3, <2>2 DEF Daemon
  <2>6. d \in Daemon /\ d.token = daemon[c].token
    BY <1>3, <2>3, <2>4, <2>5, NothingReported DEF Announced, Daemon
  <2>7. daemon' = [daemon EXCEPT ![c] = d]
    BY <1>3, <2>1, <2>3 DEF LinkInv, DaemonsOK
  <2>8. DaemonsOK'
    BY <1>3, <2>6, <2>7, OneDaemonOK DEF LinkInv, DaemonsOK
  <2> QED
    BY <1>2, <2>8, EndStep
<1>5. CASE daemon[c].call # t
  BY <1>1, <1>2, <1>5, EndStep, DaemonsStay DEF HeartbeatReply, LinkInv
<1> QED
  BY <1>4, <1>5

LEMMA RefusalsOK ==
  ASSUME LinkInv, NEW t \in Txs,
         RefuseHeartbeat(t) \/ RefusePair(t) \/ RefuseConfigs(t) \/ RequestFails(t)
  PROVE  LinkInv'
<1>1. End(t) /\ UNCHANGED registryVars /\ (daemon' = Answered(t) \/ UNCHANGED daemon)
  BY DEF RefuseHeartbeat, RefusePair, RefuseConfigs, RequestFails
<1>2. UNCHANGED row
  BY <1>1 DEF registryVars
<1>3. DaemonsOK'
  BY <1>1, <1>2, AnsweredOK, DaemonsStay DEF LinkInv
<1> QED
  BY <1>1, <1>3, EndStep

LEMMA DaemonOK ==
  ASSUME LinkInv, NEW c \in Connectors, Worker(c) \/ CallTimesOut(c) \/ DaemonRestarts(c)
  PROVE  LinkInv'
<1>1. daemon[c] \in Daemon /\ (daemon[c].token => Exists(c)) /\ daemon \in [Connectors -> Daemon]
  BY DEF LinkInv, DaemonsOK
<1>2. SUFFICES ASSUME NEW d \in Daemon, d.token = daemon[c].token,
                      daemon' = [daemon EXCEPT ![c] = d], UNCHANGED <<registryVars, tx>>
               PROVE  LinkInv'
  <2>1. CASE WorkerTakes(c)
    <3>1. PICK d : d = [daemon[c] EXCEPT !.working = Head(daemon[c].queue), !.queue = Tail(daemon[c].queue)]
      OBVIOUS
    <3>2. Head(daemon[c].queue) \in Probes /\ Tail(daemon[c].queue) \in Seq(Probes)
      BY <1>1, <2>1 DEF WorkerTakes, Daemon
    <3>3. d \in Daemon /\ d.token = daemon[c].token
      BY <1>1, <3>1, <3>2 DEF Daemon
    <3> QED
      BY <1>1, <1>2, <2>1, <3>1, <3>3 DEF WorkerTakes
  <2>2. ASSUME NEW ok \in BOOLEAN, WorkerDone(c, ok)
        PROVE  LinkInv'
    <3>1. PICK out : out = Merged([p \in {daemon[c].working} |-> ok], daemon[c].out)
      OBVIOUS
    <3>2. PICK d : d = [daemon[c] EXCEPT !.working = None, !.known = @ \ {daemon[c].working}, !.out = out]
      OBVIOUS
    <3>3. daemon[c].working \in Probes /\ daemon[c].out \in Reports
      BY <1>1, <2>2 DEF WorkerDone, Daemon
    <3>4. out \in Reports
      BY <3>1, <3>3, OneReport, ReportsMerge
    <3>5. d \in Daemon /\ d.token = daemon[c].token
      BY <1>1, <3>2, <3>4 DEF Daemon
    <3> QED
      BY <1>1, <1>2, <2>2, <3>1, <3>2, <3>5 DEF WorkerDone
  <2>3. CASE CallTimesOut(c)
    <3>1. PICK d : d = CallFailed(daemon[c])
      OBVIOUS
    <3> QED
      BY <1>1, <1>2, <2>3, <3>1, CallFailedOK DEF CallTimesOut
  <2>4. CASE DaemonRestarts(c)
    <3>1. PICK d : d = NewDaemon(daemon[c].token)
      OBVIOUS
    <3>2. daemon[c].token \in BOOLEAN
      BY <1>1 DEF Daemon
    <3> QED
      BY <1>1, <1>2, <2>4, <3>1, <3>2, NewDaemonOK DEF DaemonRestarts
  <2> QED
    BY <2>1, <2>2, <2>3, <2>4 DEF Worker
<1>3. UNCHANGED <<row, session>>
  BY <1>2 DEF registryVars
<1>4. DaemonsOK'
  BY <1>1, <1>2, <1>3, OneDaemonOK DEF LinkInv
<1>5. tx' \in [Txs -> Tx] /\ LocksOK'
  BY <1>2, <1>3 DEF LinkInv, LocksOK
<1> QED
  BY <1>2, <1>4, <1>5, QuietStep

LEMMA CreatePairingSessionOK ==
  ASSUME LinkInv, NEW s \in Sessions, CreatePairingSession(s), UNCHANGED <<tx, daemon>>
  PROVE  tx' \in [Txs -> Tx] /\ LocksOK' /\ DaemonsOK'
<1>1. /\ session[s].status = "none" /\ UNCHANGED <<row, tx, daemon>>
      /\ \A u \in Sessions \ {s} : session'[u] = session[u]
  BY DEF CreatePairingSession, LinkInv, RegistryInv, RowsTyped
<1>2. ASSUME NEW t \in Txs PROVE SlotOK(tx[t], row, session')
  <2>1. SlotOK(tx[t], row, session) /\ tx[t] \in Tx
    BY DEF LinkInv, LocksOK
  <2>2. tx[t].op = "pair" => tx[t].session \in Sessions
    BY <2>1 DEF Tx, NoTx
  <2> QED
    BY <1>1, <2>1, <2>2 DEF SlotOK
<1> QED
  BY <1>1, <1>2 DEF LinkInv, LocksOK, DaemonsOK, Exists

-----------------------------------------------------------------------------
(* The link                                                                *)

LEMMA InitOK == Init => LinkInv
<1> SUFFICES ASSUME Init PROVE LinkInv
  OBVIOUS
<1>1. RegistryInv
  BY RegistryInitOK DEF Init
<1>2. PICK x : x = NoTx
  OBVIOUS
<1>3. x \in Tx /\ x.op = "none" /\ tx = [t \in Txs |-> x]
  BY <1>2 DEF NoTx, Tx, Init
<1>4. tx \in [Txs -> Tx] /\ LocksOK
  BY <1>3 DEF LocksOK, SlotOK, Apart, Holds
<1>5. DaemonsOK
  BY NewDaemonOK DEF Init, DaemonsOK
<1> QED
  BY <1>1, <1>4, <1>5 DEF LinkInv

\* Every step of the link keeps the invariant and is one of the registry, or
\* leaves the registry as it is.
LEMMA LinkStep ==
  ASSUME LinkInv, Next
  PROVE  LinkInv' /\ (RegistryNext \/ UNCHANGED registryVars)
<1>1. ASSUME RegistryNext, tx' \in [Txs -> Tx], LocksOK', DaemonsOK'
      PROVE  LinkInv'
  BY <1>1, RegistryStep DEF LinkInv
<1>2. ASSUME NEW s \in Sessions, CreatePairingSession(s), UNCHANGED <<tx, lapsed, binding, daemon>>
      PROVE  LinkInv' /\ RegistryNext
  <2>1. RegistryNext
    BY <1>2 DEF RegistryNext
  <2> QED
    BY <1>1, <1>2, <2>1, CreatePairingSessionOK
<1>3. ASSUME NEW s \in Sessions, SessionExpires(s)
      PROVE  LinkInv' /\ UNCHANGED registryVars
  <2>1. UNCHANGED <<registryVars, tx, daemon, row, session>>
    BY <1>3 DEF SessionExpires, registryVars
  <2> QED
    BY <2>1, QuietStep DEF LinkInv, LocksOK, DaemonsOK, Exists
<1>4. ASSUME NEW t \in Txs, NEW s \in Sessions, NEW c \in Connectors, Pair(t, s, c)
      PROVE  LinkInv' /\ UNCHANGED registryVars
  BY <1>4, PairOK DEF Pair
<1>5. ASSUME NEW t \in Txs, NEW c \in Connectors, NEW b \in Bindings, ProbeBinding(t, c, b)
      PROVE  LinkInv' /\ UNCHANGED registryVars
  BY <1>5, ProbeBindingOK DEF ProbeBinding
<1>6. ASSUME NEW t \in Txs, NEW b \in Bindings, DeleteBinding(t, b)
      PROVE  LinkInv' /\ UNCHANGED registryVars
  BY <1>6, DeleteBindingOK DEF DeleteBinding
<1>7. ASSUME NEW t \in Txs, NEW c \in Connectors, NEW op \in {"revoke", "configs"}, LockRow(t, c, op)
      PROVE  LinkInv' /\ UNCHANGED registryVars
  BY <1>7, LockRowOK DEF LockRow
<1>8. CASE Users
  BY <1>2, <1>3, <1>4, <1>5, <1>6, <1>7, <1>8 DEF Users
<1>9. ASSUME NEW t \in Txs, Lock(t)
      PROVE  LinkInv' /\ UNCHANGED registryVars
  BY <1>9, LockRowsOK, LockSessionOK, RefusalsOK DEF Lock, LockRows, LockSession, RefusePair
<1>10. ASSUME NEW t \in Txs, Commit(t)
       PROVE  LinkInv' /\ (RegistryNext \/ UNCHANGED registryVars)
  <2>1. CASE CommitPair(t)
    BY <1>1, <2>1, CommitPairOK DEF RegistryNext
  <2>2. CASE CommitHeartbeat(t)
    BY <1>1, <2>2, CommitHeartbeatOK DEF RegistryNext
  <2>3. CASE CommitEnqueue(t)
    <3>1. CASE UNCHANGED registryVars
      BY <2>3, <3>1, CommitEnqueueOK, QuietStep
    <3>2. CASE \E c \in Connectors, b \in Bindings : Enqueue(c, b)
      BY <1>1, <2>3, <3>2, CommitEnqueueOK DEF RegistryNext
    <3> QED
      BY <2>3, <3>1, <3>2, CommitEnqueueOK
  <2>4. CASE CommitScrub(t)
    BY <1>1, <2>4, CommitScrubOK DEF RegistryNext
  <2>5. CASE CommitRevoke(t)
    BY <1>1, <2>5, CommitRevokeOK DEF RegistryNext
  <2>6. CASE CommitConfigs(t)
    BY <1>1, <2>6, CommitConfigsOK DEF RegistryNext
  <2>7. CASE RefuseHeartbeat(t) \/ RefuseConfigs(t)
    BY <2>7, RefusalsOK DEF RefuseHeartbeat, RefuseConfigs
  <2> QED
    BY <1>10, <2>1, <2>2, <2>3, <2>4, <2>5, <2>6, <2>7 DEF Commit
<1>11. ASSUME NEW t \in Txs, Reply(t)
       PROVE  LinkInv' /\ UNCHANGED registryVars
  BY <1>11, HeartbeatReplyOK, PairReplyOK DEF Reply, HeartbeatReply, PairReply
<1>12. ASSUME NEW t \in Txs, NEW c \in Connectors, SendHeartbeat(t, c)
       PROVE  LinkInv' /\ UNCHANGED registryVars
  BY <1>12, SendHeartbeatOK DEF SendHeartbeat
<1>13. ASSUME NEW c \in Connectors, Worker(c) \/ CallTimesOut(c) \/ DaemonRestarts(c)
       PROVE  LinkInv' /\ UNCHANGED registryVars
  <2>1. UNCHANGED registryVars
    BY <1>13 DEF Worker, WorkerTakes, WorkerDone, CallTimesOut, DaemonRestarts
  <2> QED
    BY <1>13, <2>1, DaemonOK
<1>14. ASSUME NEW t \in Txs, RequestFails(t)
       PROVE  LinkInv' /\ UNCHANGED registryVars
  BY <1>14, RefusalsOK DEF RequestFails
<1> QED
  BY <1>8, <1>9, <1>10, <1>11, <1>12, <1>13, <1>14 DEF Next, Mishap

LEMMA LinkStutters ==
  ASSUME LinkInv, UNCHANGED linkVars
  PROVE  LinkInv'
<1>1. UNCHANGED <<registryVars, tx, daemon, row, session>>
  BY DEF linkVars, registryVars
<1> QED
  BY <1>1, QuietStep DEF LinkInv, LocksOK, DaemonsOK, Exists

LEMMA LinkSafe == Safety => []LinkInv
<1>1. LinkInv /\ [Next]_linkVars => LinkInv'
  BY LinkStep, LinkStutters
<1> QED
  BY <1>1, InitOK, PTL DEF Safety

\* Rows, requests and daemons keep their shape (metadata document, pairing
\* session, the daemon's probe queue).
THEOREM LinkTypeOKAlways == Safety => []TypeOK
<1> DEFINE Rest == lapsed \subseteq Sessions /\ binding \subseteq Bindings
<1>1. Init => Rest
  BY DEF Init
<1>2. Rest /\ [Next]_linkVars => Rest'
  <2> SUFFICES ASSUME Rest, [Next]_linkVars PROVE Rest'
    OBVIOUS
  <2>1. CASE UNCHANGED linkVars
    BY <2>1 DEF linkVars
  <2>2. CASE Users
    BY <2>2 DEF Users, SessionExpires, Pair, ProbeBinding, DeleteBinding, LockRow
  <2>3. ASSUME NEW t \in Txs, Lock(t) \/ Commit(t) \/ Reply(t) \/ RequestFails(t)
        PROVE  Rest'
    BY <2>3 DEF Lock, LockRows, LockSession, RefusePair, Commit, CommitPair, CommitHeartbeat,
                CommitEnqueue, CommitScrub, CommitRevoke, CommitConfigs, RefuseHeartbeat,
                RefuseConfigs, Reply, HeartbeatReply, PairReply, RequestFails
  <2>4. ASSUME NEW c \in Connectors,
               \/ Worker(c) \/ CallTimesOut(c) \/ DaemonRestarts(c)
               \/ \E t \in Txs : SendHeartbeat(t, c)
        PROVE  Rest'
    BY <2>4 DEF Worker, WorkerTakes, WorkerDone, CallTimesOut, DaemonRestarts, SendHeartbeat
  <2> QED
    BY <2>1, <2>2, <2>3, <2>4 DEF Next, Mishap
<1>3. LinkInv /\ Rest => TypeOK
  BY DEF LinkInv, RegistryInv, RowsTyped, Sessioned, DaemonsOK, TypeOK
<1> QED
  BY <1>1, <1>2, <1>3, LinkSafe, PTL DEF Safety

\* The transactions of ConnectorLink, locked as the statements of the store lock
\* rows, implement operations that take effect at one instant: no heartbeat, probe,
\* scrub or configuration overwrites what another wrote (local_connector_store.go).
THEOREM LinkImplementsRegistry == Safety => ImplementsRegistry
<1>1. Init => RegistryInit
  BY DEF Init
<1>2. LinkInv /\ [Next]_linkVars => [RegistryNext]_registryVars
  <2>1. UNCHANGED linkVars => UNCHANGED registryVars
    BY DEF linkVars, registryVars
  <2> QED
    BY <2>1, LinkStep
<1> QED
  BY <1>1, <1>2, LinkSafe, PTL DEF Safety, ImplementsRegistry, RegistrySpec

\* A connector has one entry per account binding, whatever daemons report twice or
\* late and whatever users enqueue and delete meanwhile (EnqueueCliProbe,
\* foldProbeResultsInto).
THEOREM OneProbePerBindingAlways == Safety => []OneProbePerBinding
<1>1. LinkInv => OneProbePerBinding
  BY DEF LinkInv, RegistryInv
<1> QED
  BY <1>1, LinkSafe, PTL

\* A pairing code that two machines present at the same time makes one connector
\* (ClaimPairingSession).
THEOREM CodeUsedOnceAlways == Safety => []CodeUsedOnce
<1>1. LinkInv => CodeUsedOnce
  BY DEF LinkInv, RegistryInv
<1> QED
  BY <1>1, LinkSafe, PTL

\* The stored CLI configurations keep one primary, unique labels and the cap, and a
\* revoked connector keeps none (AddCliConfig to SetPrimaryCliConfig, Revoke).
THEOREM ConfigsCoherentAlways == Safety => []ConfigsCoherent
<1>1. LinkInv => ConfigsCoherent
  BY DEF LinkInv, RegistryInv
<1> QED
  BY <1>1, LinkSafe, PTL

\* No request in progress brings a revoked connector back (HeartbeatByTokenHash).
THEOREM RevokedIsFinalAlways == Safety => RevokedIsFinal
<1>1. LinkInv /\ [Next]_linkVars =>
        [\A c \in Connectors : row[c].status = "revoked" => row'[c].status = "revoked"]_linkVars
  <2> SUFFICES ASSUME LinkInv, Next
               PROVE  \A c \in Connectors : row[c].status = "revoked" => row'[c].status = "revoked"
    OBVIOUS
  <2>1. RegistryInv
    BY DEF LinkInv
  <2>2. CASE UNCHANGED registryVars
    BY <2>2 DEF registryVars
  <2> QED
    BY <2>1, <2>2, LinkStep, RegistryStep
<1> QED
  BY <1>1, LinkSafe, PTL DEF Safety, RevokedIsFinal

\* A probe that was answered, evicted or scrubbed never reappears and its answer
\* never changes (foldProbeResultsInto).
THEOREM AnswersAreFinalAlways == Safety => AnswersAreFinal
<1> DEFINE Final == \A c \in Connectors, p \in 1 .. minted :
              /\ p \notin Ids(row[c].pending) => p \notin Ids(row'[c].pending)
              /\ p \notin Ids(row[c].pending) =>
                   {r \in row'[c].results : r.probe = p} \subseteq row[c].results
<1>1. LinkInv /\ [Next]_linkVars => [Final]_linkVars
  <2> SUFFICES ASSUME LinkInv, Next PROVE Final
    OBVIOUS
  <2>1. RegistryInv /\ minted \in Nat
    BY DEF LinkInv, RegistryInv, RowsTyped
  <2>2. CASE UNCHANGED registryVars
    BY <2>2 DEF registryVars
  <2>3. CASE RegistryNext
    <3>1. \A c \in Connectors :
            /\ Ids(row'[c].pending) \subseteq Ids(row[c].pending) \cup {minted + 1}
            /\ \A x \in row'[c].results : x \in row[c].results \/ x.probe \in Ids(row[c].pending)
      BY <2>1, <2>3, RegistryStep
    <3> QED
      BY <2>1, <3>1
  <2> QED
    BY <2>2, <2>3, LinkStep
<1> QED
  BY <1>1, LinkSafe, PTL DEF Safety, AnswersAreFinal
=============================================================================
