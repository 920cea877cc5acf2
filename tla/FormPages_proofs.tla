--------------------------- MODULE FormPages_proofs ---------------------------
(***************************************************************************)
(* Proofs about the generation forms of the test page and the cost         *)
(* calculators of the documentation page.                                  *)
(***************************************************************************)
EXTENDS MediaForm, DocsPage, WellFoundedInduction, TLAPS

-----------------------------------------------------------------------------
(* The cost calculators. *)

\* Whatever changes an input of a calculator forgets its estimate.
LEMMA ChangedInputsForgetEstimate ==
    ASSUME EstimateOfInputs, DocsNext
    PROVE  \/ estimate' = NoEstimate
           \/ UNCHANGED <<docsModel, calc, estimate>>
           \/ UNCHANGED <<docsModel, calc>> /\ (SubmitEstimate \/ EstimateAnswered \/ EstimateFails)
<1>1. ASSUME NEW e \in DocsEnabled, ProvidersLoaded(e)
      PROVE  estimate' = NoEstimate \/ UNCHANGED <<docsModel, calc, estimate>>
  BY <1>1 DEF ProvidersLoaded, ShowSection, ShowModel, sectionVars
<1>2. ASSUME NEW m, switchMedia(m) PROVE estimate' = NoEstimate
  BY <1>2 DEF switchMedia, ShowSection, ShowModel
<1>3. ASSUME NEW p, switchDocsProvider(p) PROVE estimate' = NoEstimate
  BY <1>3 DEF switchDocsProvider, ShowSection, ShowModel
<1>4. ASSUME NEW m, selectDocsModel(m) PROVE estimate' = NoEstimate
  BY <1>4 DEF selectDocsModel, ShowModel
<1>5. ASSUME NEW m, setDocsMode(m) PROVE UNCHANGED <<docsModel, calc, estimate>>
  BY <1>5 DEF setDocsMode
<1>6. ASSUME NEW x, setCalcDuration(x) \/ setCalcSize(x) \/ setCalcResolution(x) \/ setCalcOption(x)
      PROVE  estimate' = NoEstimate
  BY <1>6 DEF setCalcDuration, setCalcSize, setCalcResolution, setCalcOption, SetInput
<1>7. ASSUME NEW s, NEW q, NEW n, setImageInput(s, q, n) PROVE estimate' = NoEstimate
  BY <1>7 DEF setImageInput, SetInput
<1>8. SubmitEstimate \/ EstimateAnswered \/ EstimateFails => UNCHANGED <<docsModel, calc>>
  BY DEF SubmitEstimate, EstimateAnswered, EstimateFails
<1> QED BY <1>1, <1>2, <1>3, <1>4, <1>5, <1>6, <1>7, <1>8, Zenon DEF DocsNext

LEMMA EstimateInit == DocsInit => EstimateOfInputs
BY DEF DocsInit, EstimateOfInputs, NoEstimate

\* An estimate that is shown or may still be is one of the inputs on display.
LEMMA EstimateStep == EstimateOfInputs /\ [DocsNext]_docsVars => EstimateOfInputs'
<1> SUFFICES ASSUME EstimateOfInputs, [DocsNext]_docsVars PROVE EstimateOfInputs'
  OBVIOUS
<1> DEFINE shown == <<docsModel, calc>>
<1>1. CASE estimate' = NoEstimate
  BY <1>1 DEF EstimateOfInputs, NoEstimate
<1>2. CASE UNCHANGED <<docsModel, calc, estimate>>
  BY <1>2 DEF EstimateOfInputs
<1>3. CASE UNCHANGED <<docsModel, calc>> /\ SubmitEstimate
  <2>1. estimate' = [status |-> "pending", of |-> shown] /\ shown' = shown
    BY <1>3 DEF SubmitEstimate
  <2> QED BY <2>1 DEF EstimateOfInputs
<1>4. CASE UNCHANGED <<docsModel, calc>> /\ EstimateAnswered
  <2>0. shown' = shown
    BY <1>4
  <2> HIDE DEF shown
  <2>1. estimate \in [status : {"pending", "shown"}, of : {shown}]
    BY <1>4 DEF EstimateAnswered, EstimateOfInputs, shown
  <2>2. estimate' = [estimate EXCEPT !.status = "shown"]
    BY <1>4 DEF EstimateAnswered
  <2>3. estimate' \in [status : {"pending", "shown"}, of : {shown'}]
    BY <2>0, <2>1, <2>2
  <2> QED BY <2>3 DEF EstimateOfInputs, shown
<1>5. CASE EstimateFails
  BY <1>5 DEF EstimateFails, EstimateOfInputs
<1> QED BY <1>1, <1>2, <1>3, <1>4, <1>5, ChangedInputsForgetEstimate DEF docsVars

\* The estimate on display was computed for the inputs on display.
THEOREM EstimatesMatch == DocsSpec => []EstimateMatchesInputs
<1>1. EstimateOfInputs => EstimateMatchesInputs
  <2> DEFINE shown == <<docsModel, calc>>
  <2> SUFFICES ASSUME EstimateOfInputs, estimate.status = "shown" PROVE estimate.of = shown
    BY DEF EstimateMatchesInputs
  <2> HIDE DEF shown
  <2> QED BY DEF EstimateOfInputs, shown
<1> QED BY <1>1, EstimateInit, EstimateStep, PTL DEF DocsSpec

-----------------------------------------------------------------------------
(* The registry of models. *)

\* A set of positions has a first one.
LEMMA FirstPosition ==
    ASSUME NEW S \in SUBSET Nat, S # {}
    PROVE  \E i \in S : \A j \in S : i <= j
<1>1. \E i \in S : \A j \in S : ~(<<j, i>> \in OpToRel(<, Nat))
  BY WFMin, NatLessThanWellFounded, Zenon
<1>2. PICK i \in S : \A j \in S : ~(<<j, i>> \in OpToRel(<, Nat))
  BY <1>1
<1>3. \A j \in S : ~(j < i)
  BY <1>2 DEF OpToRel
<1> QED BY <1>3

\* A public name that a provider lists stands for one of its models.
LEMMA ListedModel ==
    ASSUME NEW p \in Providers, NEW k \in FormKinds, NEW name \in Range(providerPublicModels(p, k))
    PROVE  providerModel(p, k, name) \in Range(Registry[p][k]) /\ providerModel(p, k, name).name = name
<1> DEFINE same == {i \in DOMAIN Registry[p][k] : modelDisplayID(Registry[p][k][i]) = name}
<1>1. same # {}
  BY DEF Range, providerPublicModels
<1>2. same \in SUBSET Nat
  BY RegistryAssumption
<1>3. \E i \in same : \A j \in same : i <= j
  BY <1>1, <1>2, FirstPosition
<1> DEFINE first == CHOOSE i \in same : \A j \in same : i <= j
<1>4. first \in same
  BY <1>3
<1>5. providerModel(p, k, name) = Registry[p][k][first]
  BY <1>1 DEF providerModel
<1> HIDE DEF first
<1> QED BY <1>4, <1>5 DEF Range, modelDisplayID

\* The row of such a model has what the forms take for granted.
LEMMA ListedRow ==
    ASSUME NEW p \in Providers, NEW k \in FormKinds \cap {"image", "video"}, NEW name \in Range(providerPublicModels(p, k))
    PROVE  /\ Offerable(Docs[providerModel(p, k, name)])
           /\ k = "image" => Docs[providerModel(p, k, name)].sizes # <<>>
BY ListedModel, RowsAssumption

\* The model of a provider that takes the place of another is one it lists.
LEMMA SelectableIsListed ==
    ASSUME NEW p \in Providers, NEW k \in FormKinds, p = "leonardo" \/ k # "audio", NEW name
    PROVE  Selectable(p, k, name) \in Range(providerPublicModels(p, k))
<1>1. 1 \in DOMAIN Registry[p][k]
  BY RegistryAssumption
<1>2. providerPublicModels(p, k)[1] \in Range(providerPublicModels(p, k))
  BY <1>1 DEF Range, providerPublicModels
<1> QED BY <1>2 DEF Selectable

\* A model goes to the provider that lists it: the prefix of its id tells, and a
\* model without one is Leonardo's.
LEMMA ModelBelongs ==
    ASSUME NEW p \in Providers, NEW k \in FormKinds, NEW m \in Range(Registry[p][k])
    PROVE  modelProviderID(m) = p
<1>0. \A q \in Providers : \A l \in DOMAIN Registry[q] : m \in Range(Registry[q][l]) => m.prefix = PrefixOf(q)
  <2> SUFFICES ASSUME NEW q \in Providers, NEW l \in DOMAIN Registry[q], m \in Range(Registry[q][l])
               PROVE  m.prefix = PrefixOf(q)
    BY Zenon
  <2>1. PICK i \in DOMAIN Registry[q][l] : m = Registry[q][l][i]
    BY DEF Range
  <2>2. Registry[q][l][i].prefix = PrefixOf(q)
    BY RegistryAssumption, Zenon
  <2> QED BY <2>1, <2>2
<1>1. k \in DOMAIN Registry[p] /\ m.prefix = PrefixOf(p)
  BY <1>0, RegistryAssumption
<1>2. CASE p # "leonardo"
  <2>1. p \in {"adobe", "creativefabrica"}
    BY <1>2, RegistryAssumption
  <2>2. m.prefix = p /\ p # ""
    BY <1>1, <1>2, <2>1 DEF PrefixOf
  <2> QED BY <2>2 DEF modelProviderID
<1>3. CASE p = "leonardo"
  <2> DEFINE owners == {i \in DOMAIN ProviderOrder :
                          /\ ProviderOrder[i] \in Providers
                          /\ \E l \in DOMAIN Registry[ProviderOrder[i]] : m \in Range(Registry[ProviderOrder[i]][l])}
  <2>0. m.prefix = ""
    BY <1>1, <1>3 DEF PrefixOf
  <2>1. DOMAIN ProviderOrder = 1..3 /\ ProviderOrder[1] = "leonardo" /\ ProviderOrder[2] = "adobe" /\ ProviderOrder[3] = "creativefabrica"
    BY DEF ProviderOrder
  <2>2. 1 \in owners
    BY <1>1, <1>3, <2>1
  <2>3. \A i \in owners : i = 1
    <3> SUFFICES ASSUME NEW i \in owners PROVE i = 1
      OBVIOUS
    <3>1. m.prefix = PrefixOf(ProviderOrder[i])
      BY <1>0
    <3>2. i \in 1..3
      BY <2>1
    <3> HIDE DEF owners
    <3>3. ProviderOrder[i] = "leonardo"
      <4>1. i = 2 => PrefixOf(ProviderOrder[i]) = "adobe"
        BY <2>1 DEF PrefixOf
      <4>2. i = 3 => PrefixOf(ProviderOrder[i]) = "creativefabrica"
        BY <2>1 DEF PrefixOf
      <4>3. i = 1 \/ i = 2 \/ i = 3
        BY <3>2
      <4>4. PrefixOf(ProviderOrder[i]) = ""
        BY <2>0, <3>1
      <4>5. i = 1
        BY <4>1, <4>2, <4>3, <4>4
      <4> QED BY <2>1, <4>5
    <3> QED BY <2>1, <3>2, <3>3
  <2>4. (CHOOSE i \in owners : \A j \in owners : i <= j) = 1
    BY <2>2, <2>3
  <2>5. modelProviderID(m) = ProviderOrder[CHOOSE i \in owners : \A j \in owners : i <= j]
    BY <2>0, <2>2 DEF modelProviderID
  <2> QED BY <1>3, <2>1, <2>4, <2>5
<1> QED BY <1>2, <1>3

-----------------------------------------------------------------------------
(* The rows of the table. *)

\* A size that is offered has the resolution its entry gives it.
LEMMA ResolutionOfSize ==
    ASSUME NEW spec, Offerable(spec), NEW i \in DOMAIN modelVideoSizes(spec)
    PROVE  videoResolutionForSize(spec, modelVideoSizes(spec)[i].value) = modelVideoSizes(spec)[i].resolution
<1> DEFINE sizes == modelVideoSizes(spec)
           pick == CHOOSE j \in DOMAIN sizes : sizes[j].value = sizes[i].value
<1>1. pick \in DOMAIN sizes /\ sizes[pick].value = sizes[i].value
  OBVIOUS
<1>2. videoResolutionForSize(spec, sizes[i].value) = sizes[pick].resolution
  BY DEF videoResolutionForSize
<1> HIDE DEF pick
<1> QED BY <1>1, <1>2 DEF Offerable

\* The defaults of a model are among what it offers.
LEMMA DefaultsOffered ==
    ASSUME NEW spec, Offerable(spec)
    PROVE  /\ modelVideoSizes(spec)[1].value \in SizesOf(spec)
           /\ defaultVideoResolution(spec) \in videoResolutionsForSize(spec, modelVideoSizes(spec)[1].value)
           /\ spec.defaultDuration \in spec.durations
<1> DEFINE sizes == modelVideoSizes(spec)
<1>1. 1 \in DOMAIN sizes /\ 1 \in DOMAIN spec.resolutions /\ spec.defaultDuration \in spec.durations
  BY DEF Offerable
<1>2. sizes[1].value \in SizesOf(spec)
  BY <1>1 DEF SizesOf
<1>3. videoResolutionForSize(spec, sizes[1].value) = sizes[1].resolution
  BY <1>1, ResolutionOfSize
<1>4. defaultVideoResolution(spec) \in videoResolutionsForSize(spec, sizes[1].value)
  BY <1>1, <1>2, <1>3 DEF defaultVideoResolution, videoResolutionsForSize, Range
<1> QED BY <1>1, <1>2, <1>4

\* The resolution follows a new size, or stays if the new size leaves it open.
LEMMA ResolutionFollowsSize ==
    ASSUME NEW spec, Offerable(spec), NEW s \in SizesOf(spec), NEW r, NEW old \in SizesOf(spec),
           r \in videoResolutionsForSize(spec, old)
    PROVE  (IF videoResolutionForSize(spec, s) # "" THEN videoResolutionForSize(spec, s) ELSE r)
             \in videoResolutionsForSize(spec, s)
<1> DEFINE sizes == modelVideoSizes(spec)
<1>1. CASE videoResolutionForSize(spec, s) # ""
  BY <1>1 DEF videoResolutionsForSize
<1>2. CASE videoResolutionForSize(spec, s) = ""
  <2>1. PICK i \in DOMAIN sizes : sizes[i].value = s
    BY DEF SizesOf
  <2>2. PICK j \in DOMAIN sizes : sizes[j].value = old
    BY DEF SizesOf
  <2>3. sizes[i].resolution = ""
    BY <1>2, <2>1, ResolutionOfSize
  <2>4. sizes[j].resolution \in Range(spec.resolutions) \cup {""}
    BY <2>3 DEF Offerable
  <2>5. videoResolutionForSize(spec, old) = sizes[j].resolution
    BY <2>2, ResolutionOfSize
  <2>6. r \in Range(spec.resolutions)
    BY <2>4, <2>5 DEF videoResolutionsForSize
  <2> QED BY <1>2, <2>6 DEF videoResolutionsForSize
<1> QED BY <1>1, <1>2

\* Limits of references: only that of the images depends on the videos.
LEMMA RoleLimits ==
    ASSUME NEW spec, NEW withVideo \in BOOLEAN
    PROVE  /\ maxReferences(spec, "images", withVideo) = maxImageReferences(spec, withVideo)
           /\ maxReferences(spec, "audio", withVideo) = maxAudioReferences(spec)
           /\ \A r \in {"start", "end", "audio"} : maxReferences(spec, r, withVideo) = maxReferences(spec, r, FALSE)
BY DEF maxReferences

-----------------------------------------------------------------------------
(* The generation forms. *)

\* The row of the model a video form or an image form shows.
LEMMA ShownRow ==
    ASSUME MediaTypeOK, kind \in {"image", "video"}
    PROVE  /\ Offerable(SpecOf(provider, model))
           /\ kind = "image" => SpecOf(provider, model).sizes # <<>>
BY ListedRow DEF MediaTypeOK, SpecOf

\* A form without files fits every model.
LEMMA NoFilesFit ==
    ASSUME NEW spec, Offerable(spec)
    PROVE  \A r \in {"start", "end", "audio"} : NoFiles[r] <= maxReferences(spec, r, FALSE)
<1> SUFFICES ASSUME NEW r \in {"start", "end", "audio"} PROVE NoFiles[r] <= maxReferences(spec, r, FALSE)
  OBVIOUS
<1> DEFINE limit == maxReferences(spec, r, FALSE)
<1>1. limit \in Nat
  <2>1. r \in Roles /\ FALSE \in BOOLEAN
    BY DEF Roles
  <2> QED BY <2>1, Zenon DEF Offerable
<1>2. NoFiles[r] = 0
  BY DEF NoFiles, Roles
<1> HIDE DEF limit
<1>3. NoFiles[r] <= limit
  BY <1>1, <1>2
<1> QED BY <1>3, Zenon DEF limit

\* An empty choice of files has the type of one.
LEMMA NoFilesType == NoFiles \in [Roles -> 0..MaxFiles]
BY FormAssumption DEF NoFiles

\* A form that has just come without files is right if its type and values are.
LEMMA WithoutFiles ==
    ASSUME MediaTypeOK', ValuesOffered', files' = NoFiles
    PROVE  MediaInv'
<1>1. ASSUME kind' = "video" PROVE Offerable(SpecOf(provider, model)')
  BY <1>1, ListedRow DEF MediaTypeOK, SpecOf
<1>2. ASSUME kind' = "video", NEW r \in {"start", "end", "audio"}
      PROVE  files'[r] <= maxReferences(SpecOf(provider, model)', r, FALSE)
  BY <1>1, <1>2, NoFilesFit
<1>3. UncheckedFilesFit'
  BY <1>2 DEF UncheckedFilesFit
<1> QED BY <1>3 DEF MediaInv

\* A link.
LEMMA LinkKeepsForm ==
    ASSUME MediaInv, NEW l \in Links, OpenLink(l)
    PROVE  MediaInv'
<1> DEFINE p == IF l.provider # "" THEN l.provider ELSE modelProviderID(l.model)
           known == p \in Providers /\ modelDisplayID(l.model) \in Range(providerPublicModels(p, kind))
<1>1. files' = NoFiles /\ UNCHANGED <<kind, mode, size, resolution, duration, offRange>>
  BY DEF OpenLink
<1>2. CASE known
  <2>1. provider' = p /\ model' = modelDisplayID(l.model) /\ linked' = TRUE /\ typed' = {}
    BY <1>2 DEF OpenLink
  <2>2. MediaTypeOK'
    BY <1>1, <1>2, <2>1, NoFilesType DEF MediaInv, MediaTypeOK
  <2>3. ValuesOffered'
    BY <2>1 DEF ValuesOffered
  <2> QED BY <1>1, <2>2, <2>3, WithoutFiles
<1>3. CASE ~known
  <2>1. UNCHANGED <<provider, model, linked, typed>>
    BY <1>3 DEF OpenLink
  <2>2. MediaTypeOK'
    BY <1>1, <2>1, NoFilesType DEF MediaInv, MediaTypeOK
  <2>3. ValuesOffered'
    BY <1>1, <2>1 DEF MediaInv, ValuesOffered, SpecOf
  <2> QED BY <1>1, <2>2, <2>3, WithoutFiles
<1> QED BY <1>2, <1>3

\* The first of n files up to a limit.
LEMMA LeastFits ==
    ASSUME NEW a \in 0..MaxFiles, NEW b \in Nat
    PROVE  Least(a, b) \in 0..MaxFiles /\ Least(a, b) <= b
BY FormAssumption DEF Least

\* The limits of a row are numbers.
LEMMA LimitsAreNumbers ==
    ASSUME NEW spec, Offerable(spec), NEW withVideo \in BOOLEAN
    PROVE  /\ maxReferences(spec, "start", FALSE) \in Nat
           /\ maxReferences(spec, "end", FALSE) \in Nat
           /\ maxAudioReferences(spec) \in Nat
           /\ maxImageReferences(spec, withVideo) \in Nat
<1>0. \A r \in Roles, v \in BOOLEAN : maxReferences(spec, r, v) \in Nat
  BY Zenon DEF Offerable
<1>1. "start" \in Roles /\ "end" \in Roles /\ "audio" \in Roles /\ "images" \in Roles /\ FALSE \in BOOLEAN
  BY DEF Roles
<1>2. maxReferences(spec, "start", FALSE) \in Nat /\ maxReferences(spec, "end", FALSE) \in Nat
  BY <1>0, <1>1, Zenon
<1>3. maxReferences(spec, "audio", FALSE) \in Nat /\ maxReferences(spec, "images", withVideo) \in Nat
  BY <1>0, <1>1, Zenon
<1>4. maxReferences(spec, "images", withVideo) = maxImageReferences(spec, withVideo)
  BY RoleLimits, Zenon
<1>5. maxReferences(spec, "audio", FALSE) = maxAudioReferences(spec)
  BY <1>1, RoleLimits, Zenon
<1> QED BY <1>2, <1>3, <1>4, <1>5, Zenon

\* The files kept for a new model are within its limits.
LEMMA KeptFilesFit ==
    ASSUME NEW spec, Offerable(spec), files \in [Roles -> 0..MaxFiles]
    PROVE  /\ KeptFiles(spec) \in [Roles -> 0..MaxFiles]
           /\ \A r \in {"start", "end", "audio"} : KeptFiles(spec)[r] <= maxReferences(spec, r, FALSE)
<1> DEFINE images == maxImageReferences(spec, files["videos"] > 0)
           start == maxReferences(spec, "start", FALSE)
           end == maxReferences(spec, "end", FALSE)
           audio == maxAudioReferences(spec)
           kept == [files EXCEPT !["images"] = Least(@, images), !["start"] = Least(@, start), !["end"] = Least(@, end),
                                 !["videos"] = IF maxVideoReferences(spec) = 0 THEN 0 ELSE @, !["audio"] = Least(@, audio)]
<1>0. "images" \in Roles /\ "start" \in Roles /\ "end" \in Roles /\ "videos" \in Roles /\ "audio" \in Roles
  BY DEF Roles
<1>1. start \in Nat /\ end \in Nat /\ audio \in Nat
  BY LimitsAreNumbers, Zenon
<1>2. images \in Nat
  <2>1. (files["videos"] > 0) \in BOOLEAN
    OBVIOUS
  <2> QED BY <2>1, LimitsAreNumbers, Zenon
<1>3. maxReferences(spec, "audio", FALSE) = audio
  <2>1. FALSE \in BOOLEAN
    OBVIOUS
  <2> QED BY <2>1, RoleLimits, Zenon
<1>4. KeptFiles(spec) = kept
  BY DEF KeptFiles
<1> HIDE DEF images, start, end, audio
<1>5. kept \in [Roles -> 0..MaxFiles]
  <2>1. /\ Least(files["images"], images) \in 0..MaxFiles /\ Least(files["start"], start) \in 0..MaxFiles
        /\ Least(files["end"], end) \in 0..MaxFiles /\ Least(files["audio"], audio) \in 0..MaxFiles
    BY <1>0, <1>1, <1>2, LeastFits
  <2>2. (IF maxVideoReferences(spec) = 0 THEN 0 ELSE files["videos"]) \in 0..MaxFiles
    BY <1>0, FormAssumption
  <2>3. \A r \in Roles : kept[r] \in 0..MaxFiles
    BY <1>0, <2>1, <2>2
  <2> QED BY <2>3
<1>6. kept["start"] = Least(files["start"], start) /\ kept["end"] = Least(files["end"], end) /\ kept["audio"] = Least(files["audio"], audio)
  BY <1>0 DEF Roles
<1>7. kept["start"] <= start /\ kept["end"] <= end /\ kept["audio"] <= audio
  BY <1>0, <1>1, <1>6, LeastFits
<1> HIDE DEF kept
<1>8. ASSUME NEW r \in {"start", "end", "audio"} PROVE kept[r] <= maxReferences(spec, r, FALSE)
  <2>1. CASE r = "start"
    BY <1>7, <2>1, Zenon DEF start
  <2>2. CASE r = "end"
    BY <1>7, <2>2, Zenon DEF end
  <2>3. CASE r = "audio"
    BY <1>3, <1>7, <2>3, Zenon
  <2> QED BY <2>1, <2>2, <2>3
<1> QED BY <1>4, <1>5, <1>8, Zenon

\* The defaults of the model a video form shows are values it offers.
LEMMA FormAtDefaults ==
    ASSUME MediaTypeOK', kind' = "video", ResetToDefaults(SpecOf(provider, model)')
    PROVE  ValuesOffered'
<1> DEFINE spec == SpecOf(provider, model)'
<1>1. Offerable(spec)
  BY ListedRow DEF MediaTypeOK, SpecOf
<1>2. size' = modelVideoSizes(spec)[1].value /\ resolution' = defaultVideoResolution(spec) /\ duration' = spec.defaultDuration
  BY Zenon DEF ResetToDefaults
<1>3. size' \in SizesOf(spec) /\ resolution' \in videoResolutionsForSize(spec, size') /\ duration' \in spec.durations
  <2> HIDE DEF spec
  <2> QED BY <1>1, <1>2, DefaultsOffered
<1> QED BY <1>3 DEF ValuesOffered

\* A video form takes another model of its provider.
LEMMA VideoModelKeepsForm ==
    ASSUME MediaInv, NEW next \in PublicNames, selectVideoModel(next)
    PROVE  MediaInv'
<1> DEFINE spec == SpecOf(provider, next)
<1>1. /\ kind = "video" /\ next \in Range(providerPublicModels(provider, kind))
      /\ model' = next /\ ResetToDefaults(spec) /\ files' = KeptFiles(spec)
      /\ mode' = (IF spec.requiresStart THEN "reference" ELSE mode)
      /\ linked' = FALSE /\ UNCHANGED <<kind, provider, offRange, typed>>
  BY DEF selectVideoModel, audioVars
<1>2. spec = SpecOf(provider, model)'
  BY <1>1 DEF SpecOf
<1>3. Offerable(spec)
  BY <1>1, ListedRow DEF MediaInv, MediaTypeOK, SpecOf
<1> HIDE DEF spec
<1>4. files' \in [Roles -> 0..MaxFiles] /\ \A r \in {"start", "end", "audio"} : files'[r] <= maxReferences(spec, r, FALSE)
  BY <1>1, <1>3, KeptFilesFit DEF MediaInv, MediaTypeOK
<1>5. MediaTypeOK'
  BY <1>1, <1>4 DEF MediaInv, MediaTypeOK
<1>6. ValuesOffered'
  BY <1>1, <1>2, <1>5, FormAtDefaults, Zenon
<1>7. UncheckedFilesFit'
  BY <1>2, <1>4, Zenon DEF UncheckedFilesFit
<1> QED BY <1>5, <1>6, <1>7 DEF MediaInv

\* A video form takes another provider.
LEMMA VideoProviderKeepsForm ==
    ASSUME MediaInv, NEW next \in Providers, selectVideoProvider(next)
    PROVE  MediaInv'
<1> DEFINE name == Selectable(next, kind, model)
<1>1. /\ kind = "video" /\ provider' = next /\ model' = name /\ ResetToDefaults(SpecOf(next, name))
      /\ files' = NoFiles /\ linked' = FALSE /\ UNCHANGED <<kind, mode, offRange, typed>>
  BY DEF selectVideoProvider, audioVars
<1>2. name \in Range(providerPublicModels(next, kind))
  BY <1>1, SelectableIsListed DEF MediaInv, MediaTypeOK
<1>3. SpecOf(next, name) = SpecOf(provider, model)'
  BY <1>1 DEF SpecOf
<1>4. MediaTypeOK'
  BY <1>1, <1>2, NoFilesType DEF MediaInv, MediaTypeOK
<1>5. ValuesOffered'
  BY <1>1, <1>3, <1>4, FormAtDefaults, Zenon
<1> QED BY <1>1, <1>4, <1>5, WithoutFiles

\* A step that leaves the model and the files of a form alone is right if it keeps
\* its type and values.
LEMMA SameModelAndFiles ==
    ASSUME MediaInv, UNCHANGED <<kind, provider, model, files>>, MediaTypeOK', ValuesOffered'
    PROVE  MediaInv'
BY DEF MediaInv, UncheckedFilesFit, SpecOf

\* The mode, the size, the resolution and the duration of a form.
LEMMA FieldKeepsForm ==
    ASSUME MediaInv
    PROVE  /\ \A m \in {"generation", "reference"} : setMode(m) => MediaInv'
           /\ \A s : setSize(s) \/ setImageSize(s) => MediaInv'
           /\ \A r : setResolution(r) => MediaInv'
           /\ \A d : setDuration(d) => MediaInv'
<1> DEFINE spec == SpecOf(provider, model)
<1>0. UNCHANGED <<kind, provider, model>> => spec' = spec
  BY DEF SpecOf
<1>1. ASSUME NEW m \in {"generation", "reference"}, setMode(m) PROVE MediaInv'
  <2>1. mode' = m /\ UNCHANGED <<kind, provider, model, size, resolution, duration, files, linked, offRange, typed>>
    BY <1>1 DEF setMode, audioVars
  <2>2. MediaTypeOK'
    BY <2>1 DEF MediaInv, MediaTypeOK
  <2>3. ValuesOffered'
    BY <2>1 DEF MediaInv, ValuesOffered, SpecOf
  <2> QED BY <2>1, <2>2, <2>3, SameModelAndFiles
<1>2. ASSUME NEW s, setSize(s) PROVE MediaInv'
  <2>1. /\ kind = "video" /\ s \in SizesOf(spec) /\ size' = s
        /\ resolution' = (IF videoResolutionForSize(spec, s) # "" THEN videoResolutionForSize(spec, s) ELSE resolution)
        /\ UNCHANGED <<kind, provider, model, mode, duration, files, linked, offRange, typed>>
    BY <1>2 DEF setSize, audioVars
  <2>2. MediaTypeOK'
    BY <2>1 DEF MediaInv, MediaTypeOK
  <2>3. Offerable(spec)
    BY <2>1, ShownRow DEF MediaInv
  <2>4. ~linked => size \in SizesOf(spec) /\ resolution \in videoResolutionsForSize(spec, size) /\ duration \in spec.durations
    BY <2>1 DEF MediaInv, ValuesOffered
  <2>5. spec' = spec
    BY <1>0, <2>1
  <2> HIDE DEF spec
  <2>6. ~linked => resolution' \in videoResolutionsForSize(spec, s)
    BY <2>1, <2>3, <2>4, ResolutionFollowsSize
  <2>7. ValuesOffered'
    BY <2>1, <2>4, <2>5, <2>6 DEF ValuesOffered, spec
  <2> QED BY <2>1, <2>2, <2>7, SameModelAndFiles
<1>3. ASSUME NEW s, setImageSize(s) PROVE MediaInv'
  <2>1. /\ kind = "image" /\ s \in SizesOf(spec) /\ size' = s
        /\ UNCHANGED <<kind, provider, model, mode, resolution, duration, files, linked, offRange, typed>>
    BY <1>3 DEF setImageSize, audioVars
  <2>2. MediaTypeOK'
    BY <2>1 DEF MediaInv, MediaTypeOK
  <2>3. ValuesOffered'
    BY <1>0, <2>1 DEF ValuesOffered
  <2> QED BY <2>1, <2>2, <2>3, SameModelAndFiles
<1>4. ASSUME NEW r, setResolution(r) PROVE MediaInv'
  <2>1. /\ kind = "video" /\ r \in videoResolutionsForSize(spec, size) /\ resolution' = r
        /\ UNCHANGED <<kind, provider, model, mode, size, duration, files, linked, offRange, typed>>
    BY <1>4 DEF setResolution, audioVars
  <2>2. MediaTypeOK'
    BY <2>1 DEF MediaInv, MediaTypeOK
  <2>3. ValuesOffered'
    BY <1>0, <2>1 DEF MediaInv, ValuesOffered
  <2> QED BY <2>1, <2>2, <2>3, SameModelAndFiles
<1>5. ASSUME NEW d, setDuration(d) PROVE MediaInv'
  <2>1. /\ kind = "video" /\ d \in spec.durations /\ duration' = d
        /\ UNCHANGED <<kind, provider, model, mode, size, resolution, files, linked, offRange, typed>>
    BY <1>5 DEF setDuration, audioVars
  <2>2. MediaTypeOK'
    BY <2>1 DEF MediaInv, MediaTypeOK
  <2>3. ValuesOffered'
    BY <1>0, <2>1 DEF MediaInv, ValuesOffered
  <2> QED BY <2>1, <2>2, <2>3, SameModelAndFiles
<1> QED BY <1>1, <1>2, <1>3, <1>4, <1>5, Zenon

\* The image and chat forms take another model or another provider.
LEMMA ImageModelKeepsForm ==
    ASSUME MediaInv, NEW p \in Providers, NEW name \in Range(providerPublicModels(p, kind)), kind \in {"image", "chat"},
           provider' = p, model' = name,
           kind = "image" => size' = SpecOf(p, name).sizes[1].value /\ linked' = FALSE,
           kind = "chat" => UNCHANGED linked,
           UNCHANGED <<kind, mode, files, offRange, typed>>
    PROVE  MediaInv'
<1> DEFINE spec == SpecOf(p, name)
<1>1. MediaTypeOK'
  BY DEF MediaInv, MediaTypeOK
<1>2. SpecOf(provider, model)' = spec
  BY DEF SpecOf
<1>3. ASSUME kind = "image" PROVE size' \in SizesOf(spec)
  <2>1. Offerable(spec) /\ spec.sizes # <<>>
    BY <1>3, ListedRow DEF MediaInv, MediaTypeOK, SpecOf
  <2>2. size' = spec.sizes[1].value
    BY <1>3
  <2> HIDE DEF spec
  <2>3. modelVideoSizes(spec) = spec.sizes
    BY <2>1 DEF modelVideoSizes
  <2>4. modelVideoSizes(spec)[1].value \in SizesOf(spec)
    BY <2>1, DefaultsOffered
  <2> QED BY <2>2, <2>3, <2>4
<1> HIDE DEF spec
<1>4. ValuesOffered'
  BY <1>2, <1>3, Zenon DEF ValuesOffered
<1>5. UncheckedFilesFit'
  BY DEF UncheckedFilesFit
<1> QED BY <1>1, <1>4, <1>5 DEF MediaInv

\* The steps of the image and chat forms that do so.
LEMMA ImageFormKept ==
    ASSUME MediaInv
    PROVE  /\ \A n \in PublicNames : selectImageModel(n) => MediaInv'
           /\ \A p \in Providers : selectImageProvider(p) => MediaInv'
<1>1. ASSUME NEW n \in PublicNames, selectImageModel(n) PROVE MediaInv'
  <2>1. /\ kind \in {"image", "chat"} /\ n \in Range(providerPublicModels(provider, kind)) /\ model' = n
        /\ kind = "image" => size' = SpecOf(provider, n).sizes[1].value /\ linked' = FALSE
        /\ kind = "chat" => UNCHANGED linked
        /\ UNCHANGED <<kind, provider, mode, files, offRange, typed>>
    BY <1>1 DEF selectImageModel, audioVars
  <2>2. provider \in Providers
    BY DEF MediaInv, MediaTypeOK
  <2> QED BY <2>1, <2>2, ImageModelKeepsForm
<1>2. ASSUME NEW p \in Providers, selectImageProvider(p) PROVE MediaInv'
  <2> DEFINE name == Selectable(p, kind, model)
  <2>1. /\ kind \in {"image", "chat"} /\ provider' = p /\ model' = name
        /\ kind = "image" => size' = SpecOf(p, name).sizes[1].value /\ linked' = FALSE
        /\ kind = "chat" => UNCHANGED linked
        /\ UNCHANGED <<kind, mode, files, offRange, typed>>
    BY <1>2 DEF selectImageProvider, audioVars
  <2>2. name \in Range(providerPublicModels(p, kind))
    BY <2>1, SelectableIsListed DEF MediaInv, MediaTypeOK
  <2> HIDE DEF name
  <2> QED BY <2>1, <2>2, ImageModelKeepsForm
<1> QED BY <1>1, <1>2

\* Choosing files: the role keeps within its limit, and videos cut the images.
LEMMA VideoFilesKeepForm ==
    ASSUME MediaInv, NEW role \in Roles, NEW n \in 0..MaxFiles, ChooseFiles(role, n)
    PROVE  MediaInv'
<1> DEFINE spec == SpecOf(provider, model)
           limit == maxReferences(spec, role, files["videos"] > 0)
           cut == maxReferences(spec, "images", TRUE)
           chosen == [files EXCEPT ![role] = Least(n, limit)]
<1>1. /\ kind = "video"
      /\ files' = IF role = "videos" /\ n > 0 THEN [chosen EXCEPT !["images"] = Least(@, cut)] ELSE chosen
      /\ UNCHANGED <<kind, provider, model, mode, size, resolution, duration, linked, offRange, typed>>
  BY DEF ChooseFiles, audioVars
<1>2. Offerable(spec) /\ spec' = spec
  BY <1>1, ShownRow DEF MediaInv, SpecOf
<1>3. files \in [Roles -> 0..MaxFiles] /\ "images" \in Roles
  BY DEF MediaInv, MediaTypeOK, Roles
<1>4. \A r \in {"start", "end", "audio"} : files[r] <= maxReferences(spec, r, FALSE)
  BY <1>1, Zenon DEF MediaInv, UncheckedFilesFit
<1> HIDE DEF spec
<1>5. (files["videos"] > 0) \in BOOLEAN /\ TRUE \in BOOLEAN
  OBVIOUS
<1>6. limit \in Nat /\ cut \in Nat
  BY <1>2, <1>3, <1>5, Zenon DEF Offerable
<1>7. role \in {"start", "end", "audio"} => maxReferences(spec, role, FALSE) = limit
  BY <1>5, RoleLimits, Zenon
<1> HIDE DEF limit, cut
<1>8. Least(n, limit) \in 0..MaxFiles /\ Least(n, limit) <= limit
  BY <1>6, LeastFits
<1>9. chosen \in [Roles -> 0..MaxFiles] /\ chosen[role] = Least(n, limit) /\ \A r \in Roles \ {role} : chosen[r] = files[r]
  BY <1>3, <1>8
<1> HIDE DEF chosen
<1>10. Least(chosen["images"], cut) \in 0..MaxFiles
  BY <1>3, <1>6, <1>9, LeastFits
<1>11. files' \in [Roles -> 0..MaxFiles] /\ \A r \in Roles \ {"images"} : files'[r] = chosen[r]
  BY <1>1, <1>3, <1>9, <1>10
<1>12. ASSUME NEW r \in {"start", "end", "audio"} PROVE files'[r] <= maxReferences(spec, r, FALSE)
  <2>1. r \in Roles \ {"images"}
    BY DEF Roles
  <2>2. files'[r] = chosen[r]
    BY <1>11, <2>1
  <2>3. CASE r = role
    <3>1. chosen[r] <= limit
      BY <1>8, <1>9, <2>3
    <3> QED BY <1>7, <2>2, <2>3, <3>1, Zenon
  <2>4. CASE r # role
    <3>1. chosen[r] = files[r]
      BY <1>9, <2>1, <2>4
    <3> QED BY <1>4, <2>2, <3>1, Zenon
  <2> QED BY <2>3, <2>4
<1>13. MediaTypeOK'
  BY <1>1, <1>11 DEF MediaInv, MediaTypeOK
<1>14. ValuesOffered'
  BY <1>1, <1>2 DEF MediaInv, ValuesOffered, spec
<1>15. UncheckedFilesFit'
  BY <1>2, <1>12, Zenon DEF UncheckedFilesFit, spec
<1> QED BY <1>13, <1>14, <1>15 DEF MediaInv

\* The files of the image form.
LEMMA ImageFilesKeepForm ==
    ASSUME MediaInv, NEW n \in 0..MaxFiles, ChooseImageFiles(n)
    PROVE  MediaInv'
<1>1. /\ kind = "image" /\ files' = [files EXCEPT !["images"] = Least(n, MaxFiles)]
      /\ UNCHANGED <<kind, provider, model, mode, size, resolution, duration, linked, offRange, typed>>
  BY DEF ChooseImageFiles, audioVars
<1>2. Least(n, MaxFiles) \in 0..MaxFiles
  BY FormAssumption, LeastFits
<1>3. MediaTypeOK'
  BY <1>1, <1>2 DEF MediaInv, MediaTypeOK
<1>4. ValuesOffered'
  BY <1>1 DEF MediaInv, ValuesOffered, SpecOf
<1>5. UncheckedFilesFit'
  BY <1>1 DEF UncheckedFilesFit
<1> QED BY <1>3, <1>4, <1>5 DEF MediaInv

\* The defaults of an audio model cover the inputs it shows.
LEMMA AudioInputsReset ==
    ASSUME NEW name
    PROVE  AudioInputs(name) \subseteq AudioDefaults(name) /\ AudioInputs(name) \subseteq AudioFields
<1>1. CASE name = "dialogue-v3"
  BY <1>1 DEF AudioInputs, AudioDefaults, AudioFields
<1>2. CASE name = "music-v1"
  BY <1>2 DEF AudioInputs, AudioDefaults, AudioFields
<1>3. CASE name # "dialogue-v3" /\ name # "music-v1"
  BY <1>3 DEF AudioInputs, AudioDefaults, AudioFields
<1> QED BY <1>1, <1>2, <1>3

\* The audio form.
LEMMA AudioKeepsForm ==
    ASSUME MediaInv
    PROVE  /\ \A n \in PublicNames : selectAudioModel(n) => MediaInv'
           /\ \A f \in AudioFields : TypeAudioField(f) => MediaInv'
<1>1. ASSUME NEW n \in PublicNames, selectAudioModel(n) PROVE MediaInv'
  <2>1. /\ kind = "audio" /\ n \in Range(providerPublicModels("leonardo", kind)) /\ model' = n
        /\ offRange' = offRange \ AudioDefaults(n) /\ typed' = {} /\ linked' = FALSE
        /\ UNCHANGED <<kind, provider, mode, files>>
    BY <1>1 DEF selectAudioModel
  <2>2. provider = "leonardo"
    <3>1. provider \in Providers /\ kind \in FormKinds /\ model \in Range(providerPublicModels(provider, kind))
      BY DEF MediaInv, MediaTypeOK
    <3>2. PICK i \in DOMAIN Registry[provider][kind] : TRUE
      BY <3>1 DEF Range, providerPublicModels
    <3>3. Registry[provider][kind] # <<>>
      BY <3>2
    <3> QED BY <2>1, <3>1, <3>3, RegistryAssumption
  <2>3. MediaTypeOK'
    BY <2>1, <2>2 DEF MediaInv, MediaTypeOK
  <2>4. offRange' \cap AudioInputs(n) \subseteq typed'
    BY <2>1, AudioInputsReset
  <2>5. ValuesOffered'
    BY <2>1, <2>4 DEF ValuesOffered
  <2>6. UncheckedFilesFit'
    BY <2>1 DEF UncheckedFilesFit
  <2> QED BY <2>3, <2>5, <2>6 DEF MediaInv
<1>2. ASSUME NEW f \in AudioFields, TypeAudioField(f) PROVE MediaInv'
  <2>1. /\ kind = "audio" /\ offRange' = (IF f \in offRange THEN offRange \ {f} ELSE offRange \cup {f})
        /\ typed' = typed \cup {f}
        /\ UNCHANGED <<kind, provider, model, mode, files, linked>>
    BY <1>2 DEF TypeAudioField
  <2>2. MediaTypeOK'
    BY <2>1 DEF MediaInv, MediaTypeOK
  <2>3. ~linked => offRange \cap AudioInputs(model) \subseteq typed
    BY <2>1 DEF MediaInv, ValuesOffered
  <2>4. ~linked => offRange' \cap AudioInputs(model) \subseteq typed'
    BY <2>1, <2>3
  <2>5. ValuesOffered'
    BY <2>1, <2>4 DEF ValuesOffered
  <2>6. UncheckedFilesFit'
    BY <2>1 DEF UncheckedFilesFit
  <2> QED BY <2>2, <2>5, <2>6 DEF MediaInv
<1> QED BY <1>1, <1>2

\* Every step of the forms.
LEMMA StepKeepsForm ==
    ASSUME MediaInv, MediaNext
    PROVE  MediaInv'
BY LinkKeepsForm, VideoModelKeepsForm, VideoProviderKeepsForm, FieldKeepsForm, ImageFormKept, VideoFilesKeepForm,
   ImageFilesKeepForm, AudioKeepsForm, Zenon DEF MediaNext

\* The forms open with values of the model they open with.
LEMMA FormsOpen ==
    ASSUME MediaInit
    PROVE  MediaInv
<1>0. kind \in FormKinds /\ provider = "leonardo" /\ model = OpeningModel(kind) /\ files = NoFiles
  BY DEF MediaInit
<1>1. "leonardo" \in Providers
  BY RegistryAssumption
<1>2. model \in Range(providerPublicModels(provider, kind))
  BY <1>0, <1>1, SelectableIsListed DEF OpeningModel
<1>3. MediaTypeOK
  BY <1>0, <1>1, <1>2, NoFilesType DEF MediaInit, MediaTypeOK
<1>4. SpecOf(provider, model) = OpeningSpec(kind)
  BY <1>0 DEF SpecOf, OpeningSpec
<1>5. kind = "image" => size \in SizesOf(OpeningSpec(kind))
  BY <1>0, RowsAssumption DEF MediaInit
<1>6. kind = "video" => /\ size \in SizesOf(OpeningSpec(kind)) /\ duration \in OpeningSpec(kind).durations
                        /\ resolution \in videoResolutionsForSize(OpeningSpec(kind), size)
  BY <1>0, RowsAssumption DEF MediaInit
<1>7. offRange = {}
  BY DEF MediaInit
<1>8. ValuesOffered
  BY <1>4, <1>5, <1>6, <1>7 DEF ValuesOffered
<1>9. UncheckedFilesFit
  <2> SUFFICES ASSUME kind = "video", NEW r \in {"start", "end", "audio"}
               PROVE  files[r] <= maxReferences(SpecOf(provider, model), r, FALSE)
    BY Zenon DEF UncheckedFilesFit
  <2>1. Offerable(SpecOf(provider, model))
    BY <1>3, ShownRow
  <2> QED BY <1>0, <2>1, NoFilesFit, Zenon
<1> QED BY <1>3, <1>8, <1>9 DEF MediaInv

\* The invariant of the generation forms: the model shown is listed by the provider
\* shown, the values are ones it offers, and the files that no check before sending
\* counts are within its limits.
THEOREM MediaInvariant == MediaSpec => []MediaInv
<1>1. MediaInit => MediaInv
  BY FormsOpen
<1>2. MediaInv /\ [MediaNext]_mediaVars => MediaInv'
  <2> SUFFICES ASSUME MediaInv, [MediaNext]_mediaVars PROVE MediaInv'
    OBVIOUS
  <2>1. CASE MediaNext
    BY <2>1, StepKeepsForm
  <2>2. CASE UNCHANGED mediaVars
    BY <2>2 DEF mediaVars, MediaInv, MediaTypeOK, ValuesOffered, UncheckedFilesFit, SpecOf
  <2> QED BY <2>1, <2>2
<1> QED BY <1>1, <1>2, PTL DEF MediaSpec

\* After any sequence of choices the forms hold only values they offer.
THEOREM OffersItsValues == MediaSpec => []ValuesOffered
<1>1. MediaInv => ValuesOffered
  BY DEF MediaInv
<1> QED BY <1>1, MediaInvariant, PTL

\* A request is routed to the provider and the model the form shows.
THEOREM RoutesToSelection == MediaSpec => []RoutedToSelection
<1>1. ASSUME MediaInv PROVE RoutedToSelection
  <2> DEFINE m == providerModel(provider, kind, model)
  <2>1. provider \in Providers /\ kind \in FormKinds /\ model \in Range(providerPublicModels(provider, kind))
    BY <1>1 DEF MediaInv, MediaTypeOK
  <2>2. m \in Range(Registry[provider][kind]) /\ m.name = model
    BY <2>1, ListedModel
  <2>3. modelProviderID(m) = provider
    BY <2>1, <2>2, ModelBelongs
  <2> HIDE DEF m
  <2>4. generationRoute(m) = [provider |-> provider, name |-> model]
    BY <2>2, <2>3 DEF generationRoute, modelDisplayID
  <2> QED BY <2>4, Zenon DEF RoutedToSelection, m
<1> QED BY <1>1, MediaInvariant, PTL

\* What a video form sends fits the model it shows.
THEOREM ReferencesAlwaysFit == MediaSpec => []ReferencesFit
<1>1. ASSUME MediaInv PROVE ReferencesFit
  <2> DEFINE spec == SpecOf(provider, model)
             withVideo == files["videos"] > 0
  <2> SUFFICES ASSUME kind = "video", FormAccepts(spec, files, referenceMode), NEW r \in Roles \ {"videos"}
               PROVE  files[r] <= maxReferences(spec, r, withVideo)
    BY Zenon DEF ReferencesFit
  <2>1. withVideo \in BOOLEAN
    OBVIOUS
  <2>2. CASE r = "images"
    <3>1. files["images"] <= maxImageReferences(spec, withVideo)
      BY Zenon DEF FormAccepts
    <3> QED BY <2>1, <2>2, <3>1, RoleLimits, Zenon
  <2>3. CASE r # "images"
    <3>1. r \in {"start", "end", "audio"}
      BY <2>3 DEF Roles
    <3>2. files[r] <= maxReferences(spec, r, FALSE)
      BY <1>1, <3>1, Zenon DEF MediaInv, UncheckedFilesFit
    <3>3. maxReferences(spec, r, withVideo) = maxReferences(spec, r, FALSE)
      BY <2>1, <3>1, RoleLimits, Zenon
    <3> QED BY <3>2, <3>3, Zenon
  <2> QED BY <2>2, <2>3
<1> QED BY <1>1, MediaInvariant, PTL

=============================================================================
