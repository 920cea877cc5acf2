------------------------------ MODULE MediaForm -------------------------------
(* What the generation forms of the test page contain. A public model name may *)
(* stand for different internal models of several providers; sizes, durations  *)
(* and reference limits belong to the internal model, so each change of the    *)
(* provider or the model has to take the rest of the form along. The fields    *)
(* are kept in sessionStorage, the chosen files are lost on every load. Prompt, *)
(* quality, count of images, reference strength and sound are left out: the    *)
(* request takes them as they are or computes them from the model.             *)
EXTENDS VideoRules

CONSTANTS Registry,   \* [provider -> [kind -> sequence of internal models]], in registry order
          Docs,       \* limits of every internal model
          Links,      \* the links of the documentation to this page
          FormKinds,
          MaxFiles    \* files a user picks at most in one go

Providers == DOMAIN Registry
ProviderOrder == <<"leonardo", "adobe", "creativefabrica">>

VARIABLES kind, provider, model,      \* model is the public name
          mode, size, resolution, duration,
          files,                      \* chosen files by role, counted
          linked,                     \* the model came with a link and was not chosen since
          offRange,                   \* audio fields whose number is out of range
          typed                       \* audio fields typed in since the model was chosen

mediaVars == <<kind, provider, model, mode, size, resolution, duration, files, linked, offRange, typed>>
audioVars == <<offRange, typed>>

-----------------------------------------------------------------------------
(* providers.ts *)

modelDisplayID(m) == m.name

\* The prefix of a provider's internal ids.
PrefixOf(p) == IF p = "leonardo" THEN "" ELSE p

providerPublicModels(p, k) == [i \in DOMAIN Registry[p][k] |-> modelDisplayID(Registry[p][k][i])]

\* The provider's model of that public name; the name itself if it has none.
providerModel(p, k, name) ==
    LET same == {i \in DOMAIN Registry[p][k] : modelDisplayID(Registry[p][k][i]) = name}
    IN  IF same = {} THEN Leo(name)
        ELSE Registry[p][k][CHOOSE i \in same : \A j \in same : i <= j]

Mutant_FirstOwner(m) ==
    LET owners == {i \in DOMAIN ProviderOrder :
                     /\ ProviderOrder[i] \in Providers
                     /\ m.name \in Range(providerPublicModels(ProviderOrder[i], kind))}
    IN  IF owners = {} THEN "" ELSE ProviderOrder[CHOOSE i \in owners : \A j \in owners : i <= j]

\* By prefix, or the first provider that lists it.
modelProviderID(m) ==
    IF m.prefix # "" THEN m.prefix
    ELSE LET owners == {i \in DOMAIN ProviderOrder :
                          /\ ProviderOrder[i] \in Providers
                          /\ \E k \in DOMAIN Registry[ProviderOrder[i]] :
                               m \in Range(Registry[ProviderOrder[i]][k])}
         IN  IF owners = {} THEN "" ELSE ProviderOrder[CHOOSE i \in owners : \A j \in owners : i <= j]

\* The model a request names: "<provider>/<public name>".
generationRoute(m) == [provider |-> modelProviderID(m), name |-> modelDisplayID(m)]

-----------------------------------------------------------------------------
(* media-specs.ts *)

SpecOf(p, name) == Docs[providerModel(p, kind, name)]

referenceMode == SpecOf(provider, model).requiresStart \/ mode = "reference"

-----------------------------------------------------------------------------
(* Loading the page *)

\* Effect: a model the provider does not list is replaced by its first one;
\* nothing else of the form is.
Selectable(p, k, name) ==
    IF name \in Range(providerPublicModels(p, k)) THEN name ELSE providerPublicModels(p, k)[1]

OpeningModel(k) ==
    Selectable("leonardo", k, CASE k = "video" -> "seedance-2.0-mini"
                                [] k = "audio" -> "sound-effects-v2"
                                [] OTHER -> "gpt-image-2")

OpeningSpec(k) == Docs[providerModel("leonardo", k, OpeningModel(k))]

\* Leonardo's models are not qualified, those of other providers are. They
\* have models of each kind, but for audio, which only Leonardo makes.
ASSUME RegistryAssumption ==
    /\ "leonardo" \in Providers /\ Providers \subseteq {"leonardo", "adobe", "creativefabrica"}
    /\ \A p \in Providers : \A k \in DOMAIN Registry[p] :
         /\ DOMAIN Registry[p][k] \subseteq Nat
         /\ \A i \in DOMAIN Registry[p][k] : Registry[p][k][i].prefix = PrefixOf(p)
    /\ \A p \in Providers, k \in FormKinds :
         /\ k \in DOMAIN Registry[p]
         /\ IF k = "audio" /\ p # "leonardo" THEN Registry[p][k] = <<>> ELSE 1 \in DOMAIN Registry[p][k]

\* The rows have what the forms take for granted, and the values the forms open
\* with belong to the model they open with.
ASSUME RowsAssumption ==
    /\ \A p \in Providers, k \in FormKinds \cap {"image", "video"} : \A m \in Range(Registry[p][k]) :
         Offerable(Docs[m]) /\ (k = "image" => Docs[m].sizes # <<>>)
    /\ "image" \in FormKinds => "1024x1024" \in SizesOf(OpeningSpec("image"))
    /\ "video" \in FormKinds => LET spec == OpeningSpec("video")
                                IN  /\ "1280x720" \in SizesOf(spec) /\ 8 \in spec.durations
                                    /\ "720p" \in videoResolutionsForSize(spec, "1280x720")

ASSUME FormAssumption == FormKinds \subseteq {"image", "video", "audio", "chat"} /\ MaxFiles \in Nat

MediaInit ==
    /\ kind \in FormKinds
    /\ provider = "leonardo"
    /\ model = OpeningModel(kind)
    /\ mode = "generation"
    /\ size = IF kind = "video" THEN "1280x720" ELSE "1024x1024"
    /\ resolution = "720p"
    /\ duration = 8
    /\ files = NoFiles
    /\ linked = FALSE
    /\ offRange = {}
    /\ typed = {}

\* A link that names a model of its provider sets the two; the sizes and the
\* duration of the last session stay.
OpenLink(l) ==
    LET p == IF l.provider # "" THEN l.provider ELSE modelProviderID(l.model)
    IN  /\ kind # "chat"
        /\ files' = NoFiles
        /\ IF p \in Providers /\ modelDisplayID(l.model) \in Range(providerPublicModels(p, kind))
           THEN /\ provider' = p
                /\ model' = modelDisplayID(l.model)
                /\ linked' = TRUE
                /\ typed' = {}
           ELSE UNCHANGED <<provider, model, linked, typed>>
        /\ UNCHANGED <<kind, mode, size, resolution, duration, offRange>>

-----------------------------------------------------------------------------
(* The video form *)

Mutant_DurationKept(spec) ==
    /\ resolution' = defaultVideoResolution(spec)
    /\ size' = modelVideoSizes(spec)[1].value
    /\ UNCHANGED duration

ResetToDefaults(spec) ==
    /\ resolution' = defaultVideoResolution(spec)
    /\ size' = modelVideoSizes(spec)[1].value
    /\ duration' = spec.defaultDuration

Mutant_FramesKept(spec) ==
    [files EXCEPT
       !["images"] = Least(@, maxImageReferences(spec, files["videos"] > 0)),
       !["videos"] = IF maxVideoReferences(spec) = 0 THEN 0 ELSE @,
       !["audio"]  = Least(@, maxAudioReferences(spec))]

\* Reference videos are dropped where none are allowed, but not cut to a
\* smaller limit.
KeptFiles(spec) ==
    [files EXCEPT
       !["images"] = Least(@, maxImageReferences(spec, files["videos"] > 0)),
       !["start"]  = Least(@, maxReferences(spec, "start", FALSE)),
       !["end"]    = Least(@, maxReferences(spec, "end", FALSE)),
       !["videos"] = IF maxVideoReferences(spec) = 0 THEN 0 ELSE @,
       !["audio"]  = Least(@, maxAudioReferences(spec))]

selectVideoModel(next) ==
    LET spec == SpecOf(provider, next)
    IN  /\ kind = "video"
        /\ next \in Range(providerPublicModels(provider, kind))
        /\ next # model
        /\ model' = next
        /\ ResetToDefaults(spec)
        /\ files' = KeptFiles(spec)
        /\ mode' = IF spec.requiresStart THEN "reference" ELSE mode
        /\ linked' = FALSE
        /\ UNCHANGED <<kind, provider, audioVars>>

selectVideoProvider(next) ==
    LET name == Selectable(next, kind, model)
    IN  /\ kind = "video"
        /\ next \in Providers
        /\ provider' = next
        /\ model' = name
        /\ ResetToDefaults(SpecOf(next, name))
        /\ files' = NoFiles
        /\ linked' = FALSE
        /\ UNCHANGED <<kind, mode, audioVars>>

\* "reference" stands for the image form's "edit", too.
setMode(m) ==
    /\ kind \in {"image", "video"}
    /\ m = "generation" => ~SpecOf(provider, model).requiresStart
    /\ mode' = m
    /\ UNCHANGED <<kind, provider, model, size, resolution, duration, files, linked, audioVars>>

\* An input that is offered takes the first files up to its limit; reference
\* videos lower the limit of the images already chosen.
ChooseFiles(role, n) ==
    LET spec == SpecOf(provider, model)
        limit == maxReferences(spec, role, files["videos"] > 0)
        chosen == [files EXCEPT ![role] = Least(n, limit)]
    IN  /\ kind = "video"
        /\ referenceMode
        /\ IF role = "images" THEN spec.images > 0 ELSE limit > 0
        /\ files' = IF role = "videos" /\ n > 0
                    THEN [chosen EXCEPT !["images"] = Least(@, maxReferences(spec, "images", TRUE))]
                    ELSE chosen
        /\ UNCHANGED <<kind, provider, model, mode, size, resolution, duration, linked, audioVars>>

setSize(s) ==
    LET spec == SpecOf(provider, model)
    IN  /\ kind = "video"
        /\ s \in SizesOf(spec)
        /\ size' = s
        /\ resolution' = IF videoResolutionForSize(spec, s) # "" THEN videoResolutionForSize(spec, s) ELSE resolution
        /\ UNCHANGED <<kind, provider, model, mode, duration, files, linked, audioVars>>

setResolution(r) ==
    /\ kind = "video"
    /\ r \in videoResolutionsForSize(SpecOf(provider, model), size)
    /\ resolution' = r
    /\ UNCHANGED <<kind, provider, model, mode, size, duration, files, linked, audioVars>>

setDuration(d) ==
    /\ kind = "video"
    /\ d \in SpecOf(provider, model).durations
    /\ duration' = d
    /\ UNCHANGED <<kind, provider, model, mode, size, resolution, files, linked, audioVars>>

-----------------------------------------------------------------------------
(* The image and chat forms *)

selectImageModel(next) ==
    /\ kind \in {"image", "chat"}
    /\ next \in Range(providerPublicModels(provider, kind))
    /\ next # model
    /\ model' = next
    /\ IF kind = "chat" THEN UNCHANGED <<size, linked>>
       ELSE size' = SpecOf(provider, next).sizes[1].value /\ linked' = FALSE
    /\ UNCHANGED <<kind, provider, mode, resolution, duration, files, audioVars>>

selectImageProvider(next) ==
    LET name == Selectable(next, kind, model)
    IN  /\ kind \in {"image", "chat"}
        /\ next \in Providers
        /\ provider' = next
        /\ model' = name
        /\ IF kind = "chat" THEN UNCHANGED <<size, linked>>
           ELSE size' = SpecOf(next, name).sizes[1].value /\ linked' = FALSE
        /\ UNCHANGED <<kind, mode, resolution, duration, files, audioVars>>

setImageSize(s) ==
    /\ kind = "image"
    /\ s \in SizesOf(SpecOf(provider, model))
    /\ size' = s
    /\ UNCHANGED <<kind, provider, model, mode, resolution, duration, files, linked, audioVars>>

\* FileInput: at most six, here MaxFiles.
ChooseImageFiles(n) ==
    /\ kind = "image"
    /\ mode = "reference"
    /\ files' = [files EXCEPT !["images"] = Least(n, MaxFiles)]
    /\ UNCHANGED <<kind, provider, model, mode, size, resolution, duration, linked, audioVars>>

-----------------------------------------------------------------------------
(* The audio form, for Leonardo's models only *)

AudioFields == {"seconds", "minutes", "influence", "count"}

AudioInputs(name) ==
    CASE name = "dialogue-v3" -> {"influence", "count"}
      [] name = "music-v1" -> {"minutes", "count"}
      [] OTHER -> {"seconds", "influence", "count"}

AudioDefaults(name) ==
    IF name = "music-v1" THEN {"count", "minutes"} ELSE {"count", "influence", "seconds"}

selectAudioModel(next) ==
    /\ kind = "audio"
    /\ next \in Range(providerPublicModels("leonardo", kind))
    /\ next # model
    /\ model' = next
    /\ offRange' = offRange \ AudioDefaults(next)
    /\ typed' = {}
    /\ linked' = FALSE
    /\ UNCHANGED <<kind, provider, mode, size, resolution, duration, files>>

\* A number input takes any number; the browser rejects the form if it is out
\* of range.
TypeAudioField(f) ==
    /\ kind = "audio"
    /\ f \in AudioInputs(model)
    /\ offRange' = IF f \in offRange THEN offRange \ {f} ELSE offRange \cup {f}
    /\ typed' = typed \cup {f}
    /\ UNCHANGED <<kind, provider, model, mode, size, resolution, duration, files, linked>>

PublicNames == UNION {Range(providerPublicModels(p, kind)) : p \in Providers}
Specs == {Docs[m] : m \in DOMAIN Docs}

MediaNext ==
    \/ \E l \in Links : OpenLink(l)
    \/ \E n \in PublicNames : selectVideoModel(n)
    \/ \E p \in Providers : selectVideoProvider(p)
    \/ \E m \in {"generation", "reference"} : setMode(m)
    \/ \E r \in Roles, n \in 0..MaxFiles : ChooseFiles(r, n)
    \/ \E s \in UNION {SizesOf(spec) : spec \in Specs} : setSize(s)
    \/ \E r \in UNION {Range(spec.resolutions) : spec \in Specs} : setResolution(r)
    \/ \E d \in UNION {spec.durations : spec \in Specs} : setDuration(d)
    \/ \E n \in PublicNames : selectImageModel(n)
    \/ \E p \in Providers : selectImageProvider(p)
    \/ \E s \in UNION {SizesOf(spec) : spec \in Specs} : setImageSize(s)
    \/ \E n \in 0..MaxFiles : ChooseImageFiles(n)
    \/ \E n \in PublicNames : selectAudioModel(n)
    \/ \E f \in AudioFields : TypeAudioField(f)

MediaSpec == MediaInit /\ [][MediaNext]_mediaVars

-----------------------------------------------------------------------------
(* Properties *)

MediaTypeOK ==
    /\ kind \in FormKinds
    /\ provider \in Providers
    /\ model \in Range(providerPublicModels(provider, kind))
    /\ mode \in {"generation", "reference"}
    /\ files \in [Roles -> 0..MaxFiles]
    /\ linked \in BOOLEAN
    /\ offRange \subseteq AudioFields
    /\ typed \subseteq AudioFields

\* A request goes to the provider and the model the form shows, although the
\* same public name may belong to several providers.
RoutedToSelection ==
    generationRoute(providerModel(provider, kind, model)) = [provider |-> provider, name |-> model]

\* After any sequence of choices the size, the resolution and the duration are
\* ones the form offers for the model, and no audio input comes back with a bad
\* number typed for an earlier model. A link changes the model and not them, so
\* the first choice of a model or a provider has to restore this.
ValuesOffered ==
    LET spec == SpecOf(provider, model)
    IN  ~linked => /\ kind = "video" => /\ size \in SizesOf(spec)
                                        /\ resolution \in videoResolutionsForSize(spec, size)
                                        /\ duration \in spec.durations
                   /\ kind = "image" => size \in SizesOf(spec)
                   /\ kind = "audio" => offRange \cap AudioInputs(model) \subseteq typed

\* What the mutation lets pass fits the model: files chosen for an earlier
\* model are gone or within the new limits. Reference videos are left out:
\* neither selectModel nor the mutation cuts them to a smaller limit.
ReferencesFit ==
    kind = "video" /\ FormAccepts(SpecOf(provider, model), files, referenceMode) =>
        \A r \in Roles \ {"videos"} :
            files[r] <= maxReferences(SpecOf(provider, model), r, files["videos"] > 0)

-----------------------------------------------------------------------------
(* Why they hold, as an inductive invariant *)

\* The frames and the audio files of a video form, which its own checks before it
\* sends do not count.
UncheckedFilesFit ==
    kind = "video" => \A r \in {"start", "end", "audio"} :
                        files[r] <= maxReferences(SpecOf(provider, model), r, FALSE)

MediaInv == MediaTypeOK /\ ValuesOffered /\ UncheckedFilesFit

=============================================================================
