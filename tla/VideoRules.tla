------------------------------ MODULE VideoRules ------------------------------
(* The rules of a video request, kept twice: media-specs.ts tells the forms and *)
(* the documentation page what a model takes, videospec/spec.go tells the       *)
(* service. Rows of models that are switched off at present are kept in both.   *)
EXTENDS Integers, Sequences, FiniteSets, SequencesExt, TLC

CONSTANT CreativeFabricaModels   \* names, all of which share one row but two

(* An internal model is [prefix, name]: prefix "" for Leonardo's, whose ids are *)
(* not qualified. *)
Leo(name) == [prefix |-> "", name |-> name]
Adobe(name) == [prefix |-> "adobe", name |-> name]
CF(name) == [prefix |-> "creativefabrica", name |-> name]

Undefined == -1
Least(a, b) == IF a < b THEN a ELSE b

-----------------------------------------------------------------------------
(* media-specs.ts *)

At(s, r) == [value |-> s, resolution |-> r]
Sized(r, values) == [i \in DOMAIN values |-> At(values[i], r)]

standardVideoSizes == Sized("720p", <<"1280x720", "720x1280">>)

adobeVeoSizes == standardVideoSizes \o Sized("1080p", <<"1920x1080", "1080x1920">>)

adobeSeedanceSizes ==
    Sized("720p", <<"1680x720", "1280x720", "960x720", "720x720", "720x960", "720x1280">>)
    \o Sized("480p", <<"1120x480", "854x480", "640x480", "480x480", "480x640", "480x854">>)

adobeSeedance1080Sizes ==
    Sized("1080p", <<"2520x1080", "1920x1080", "1440x1080", "1080x1080", "1080x1440", "1080x1920">>)

\* A row of a text model; a field that is not listed there has this value.
VideoModelDoc(durations, default, resolutions, promptMax) ==
    [durations |-> durations, defaultDuration |-> default, resolutions |-> resolutions,
     sizes |-> <<>>, promptMax |-> promptMax,
     images |-> 0, imagesWithVideo |-> Undefined, startEnd |-> FALSE, noEndFrame |-> FALSE,
     requiresStart |-> FALSE, videoAudio |-> FALSE, videos |-> Undefined, audios |-> Undefined,
     generateAudio |-> FALSE, alwaysAudio |-> FALSE]

Sounding(doc) == [doc EXCEPT !.generateAudio = TRUE]

adobeVideoDocs ==
    LET seedance(resolutions, sizes) ==
          [VideoModelDoc(4..15, 8, resolutions, 5000)
             EXCEPT !.sizes = sizes, !.images = 9, !.startEnd = TRUE, !.videoAudio = TRUE,
                    !.videos = 3, !.audios = 3]
    IN  Adobe("kling-3.0-omni") :>
          [VideoModelDoc({5, 10, 15}, 5, <<"720p", "1080p">>, 2500)
             EXCEPT !.sizes = Sized("720p", <<"1280x720", "720x1280", "720x720">>)
                              \o Sized("1080p", <<"1920x1080", "1080x1920", "1080x1080">>),
                    !.images = 3, !.startEnd = TRUE]
     @@ Adobe("veo-3.1") :>
          [VideoModelDoc({4, 6, 8}, 8, <<"720p", "1080p">>, 9999)
             EXCEPT !.sizes = adobeVeoSizes, !.images = 3, !.startEnd = TRUE]
     @@ Adobe("veo-3.1-fast") :>
          [VideoModelDoc({4, 6, 8}, 8, <<"720p", "1080p">>, 9999)
             EXCEPT !.sizes = adobeVeoSizes, !.startEnd = TRUE]
     @@ Adobe("seedance-2.0") :>
          seedance(<<"480p", "720p", "1080p">>, adobeSeedanceSizes \o adobeSeedance1080Sizes)
     @@ Adobe("seedance-2.0-fast") :> seedance(<<"480p", "720p">>, adobeSeedanceSizes)

leonardoTextDocs ==
        Leo("gemini-omni-flash") :> [VideoModelDoc(3..10, 5, <<"720p">>, 5000) EXCEPT !.images = 5]
     @@ Leo("happy-horse-1.1") :> Sounding(VideoModelDoc(3..15, 5, <<"720p", "1080p">>, 5000))
     @@ Leo("kling-3.0") :> Sounding(VideoModelDoc(3..15, 5, <<"720p", "1080p", "2160p">>, 5000))
     @@ Leo("kling-3.0-turbo") :> Sounding(VideoModelDoc(3..15, 5, <<"720p", "1080p">>, 5000))
     @@ Leo("hailuo-2.3") :> VideoModelDoc({6, 10}, 6, <<"768p", "1080p">>, 5000)
     @@ Leo("wan-2.7") :> Sounding(VideoModelDoc(2..10, 5, <<"720p", "1080p">>, 5000))

leonardoFluxDocs ==
    Leo("flux-3-video") :>
      [Sounding(VideoModelDoc(5..20, 8, <<"720p", "1080p">>, 5000))
         EXCEPT !.sizes = Sized("720p", <<"1470x630", "1360x680", "1280x720", "1112x834", "960x960",
                                          "834x1112", "720x1280">>)
                          \o Sized("1080p", <<"2520x1080", "2160x1080", "1920x1080", "1440x1080",
                                              "1440x1440", "1080x1440", "1080x1920">>),
                !.startEnd = TRUE, !.videos = 1, !.audios = 0]

leonardoSeedanceDocs ==
    LET seedance(resolutions) ==
          [Sounding(VideoModelDoc(4..15, 8, resolutions, 5000))
             EXCEPT !.images = 4, !.startEnd = TRUE, !.videoAudio = TRUE]
    IN  Leo("seedance-2.0") :> seedance(<<"480p", "720p", "1080p", "2160p">>)
     @@ Leo("seedance-2.0-fast") :> seedance(<<"480p", "720p">>)
     @@ Leo("seedance-2.0-mini") :> seedance(<<"480p", "720p">>)
     @@ Leo("seedance-2.5") :>
          [Sounding(VideoModelDoc(4..30, 8, <<"480p", "720p">>, 5000))
             EXCEPT !.sizes = Sized("720p", <<"1280x720", "1470x630", "1112x834", "960x960",
                                              "834x1112", "720x1280">>)
                              \o Sized("480p", <<"992x432", "864x496", "752x560", "640x640",
                                                 "560x752", "496x864">>),
                    !.images = 30, !.startEnd = TRUE, !.videoAudio = TRUE,
                    !.videos = 10, !.audios = 10]

leonardoVeoDocs ==
    LET veo(images) == [Sounding(VideoModelDoc({4, 6, 8}, 8, <<"720p", "1080p", "2160p">>, 9999))
                          EXCEPT !.images = images, !.startEnd = TRUE]
    IN  Leo("veo-3.1") :> veo(3) @@ Leo("veo-3.1-fast") :> veo(0)

leonardoMultimodalDocs ==
        Leo("kling-o3-omni") :>
          [Sounding(VideoModelDoc(3..15, 5, <<"720p", "1080p", "2160p">>, 2500))
             EXCEPT !.sizes = Sized("1080p", <<"1920x1080", "1080x1920", "1440x1440">>)
                              \o Sized("720p", <<"1280x720", "720x1280", "960x960">>)
                              \o Sized("2160p", <<"3840x2160", "2160x3840", "2880x2880">>),
                    !.images = 7, !.imagesWithVideo = 4, !.startEnd = TRUE, !.videos = 1]
     @@ Leo("minimax-h3") :>
          [Sounding(VideoModelDoc(5..15, 5, <<"1440p">>, 2000))
             EXCEPT !.sizes = Sized("", <<"2560x1440", "3360x1440", "1920x1440", "1440x1440",
                                          "1440x1920", "1440x2560">>),
                    !.images = 5, !.startEnd = TRUE, !.videos = 0, !.audios = 3, !.alwaysAudio = TRUE]
     @@ Leo("grok-imagine-1.5") :>
          [Sounding(VideoModelDoc(3..15, 6, <<"480p", "720p", "1080p">>, 5000))
             EXCEPT !.sizes = Sized("480p", <<"736x400", "400x736", "544x544">>)
                              \o Sized("720p", <<"1280x720", "720x1280", "960x960">>)
                              \o Sized("1080p", <<"1888x1072", "1072x1888", "1424x1424">>),
                    !.startEnd = TRUE, !.noEndFrame = TRUE, !.requiresStart = TRUE,
                    !.videos = 0, !.audios = 0]

isHeyGen(m) == m.name = "heygen_avatar_5"

creativeFabricaVideoDoc(m) ==
    LET doc == [VideoModelDoc(3..15, 5, <<"720p", "1080p">>, 9999) EXCEPT !.sizes = standardVideoSizes]
    IN  IF isHeyGen(m) THEN [doc EXCEPT !.videos = 0, !.audios = 0]
        ELSE [doc EXCEPT !.images = 10, !.startEnd = TRUE, !.videoAudio = TRUE,
                         !.videos = 10, !.audios = 10]

seedanceMiniDoc(m) ==
    [creativeFabricaVideoDoc(m)
       EXCEPT !.durations = 4..15, !.defaultDuration = 4, !.resolutions = <<"480p", "720p">>,
              !.images = 9, !.videos = 3, !.audios = 3, !.promptMax = 4096]

creativeFabricaVideoDocs ==
    [m \in {CF(name) : name \in CreativeFabricaModels} |->
       IF m.name = "seedance_v2_mini" THEN seedanceMiniDoc(m) ELSE creativeFabricaVideoDoc(m)]

videoModelDocs ==
    adobeVideoDocs @@ leonardoTextDocs @@ leonardoFluxDocs @@ leonardoSeedanceDocs
    @@ leonardoVeoDocs @@ leonardoMultimodalDocs @@ creativeFabricaVideoDocs

modelVideoSizes(spec) == IF spec.sizes = <<>> THEN standardVideoSizes ELSE spec.sizes

SizesOf(spec) == {modelVideoSizes(spec)[i].value : i \in DOMAIN modelVideoSizes(spec)}

supportsVideoEndFrame(spec) == spec.startEnd /\ ~spec.noEndFrame

\* "" if the size leaves the resolution open.
videoResolutionForSize(spec, s) ==
    LET sizes == modelVideoSizes(spec)
    IN  sizes[CHOOSE i \in DOMAIN sizes : sizes[i].value = s].resolution

defaultVideoResolution(spec) ==
    LET first == modelVideoSizes(spec)[1].resolution
    IN  IF first # "" THEN first ELSE spec.resolutions[1]

videoResolutionsForSize(spec, s) ==
    IF s \in SizesOf(spec) /\ videoResolutionForSize(spec, s) # ""
    THEN {videoResolutionForSize(spec, s)}
    ELSE Range(spec.resolutions)

maxVideoReferences(spec) ==
    IF spec.videos # Undefined THEN spec.videos ELSE IF spec.videoAudio THEN 3 ELSE 0

Mutant_LimitAlone(spec, withVideo) == spec.images

maxImageReferences(spec, withVideo) ==
    IF withVideo /\ spec.imagesWithVideo # Undefined THEN spec.imagesWithVideo ELSE spec.images

maxAudioReferences(spec) ==
    IF spec.audios # Undefined THEN spec.audios ELSE IF spec.videoAudio THEN 1 ELSE 0

Roles == {"images", "start", "end", "videos", "audio"}
NoFiles == [r \in Roles |-> 0]

maxReferences(spec, role, withVideo) ==
    CASE role = "images" -> maxImageReferences(spec, withVideo)
      [] role = "start"  -> IF spec.startEnd THEN 1 ELSE 0
      [] role = "end"    -> IF supportsVideoEndFrame(spec) THEN 1 ELSE 0
      [] role = "videos" -> maxVideoReferences(spec)
      [] role = "audio"  -> maxAudioReferences(spec)

\* What the forms take for granted of a row: a first size and a first resolution,
\* one resolution for a size, a default it offers, limits that are numbers; and
\* where some size leaves the resolution open, the others fix one that is listed.
Offerable(spec) ==
    LET sizes == modelVideoSizes(spec)
    IN  /\ 1 \in DOMAIN sizes /\ 1 \in DOMAIN spec.resolutions
        /\ \A i, j \in DOMAIN sizes : sizes[i].value = sizes[j].value => sizes[i].resolution = sizes[j].resolution
        /\ (\E i \in DOMAIN sizes : sizes[i].resolution = "") =>
             \A i \in DOMAIN sizes : sizes[i].resolution \in Range(spec.resolutions) \cup {""}
        /\ spec.defaultDuration \in spec.durations
        /\ \A r \in Roles, withVideo \in BOOLEAN : maxReferences(spec, r, withVideo) \in Nat

ASSUME TablesOfferable == \A m \in DOMAIN videoModelDocs : Offerable(videoModelDocs[m])

\* The checks the video form makes before it sends the chosen files.
FormAccepts(spec, chosen, referenceMode) ==
    LET has(r) == chosen[r] > 0
    IN  /\ spec.requiresStart => has("start")
        /\ has("end") => supportsVideoEndFrame(spec)
        /\ has("images") \/ has("videos") => ~has("start") /\ ~has("end")
        /\ chosen["images"] <= maxImageReferences(spec, has("videos"))
        /\ has("audio") => has("images") \/ has("videos")
        /\ referenceMode => \E r \in Roles : has(r)

-----------------------------------------------------------------------------
(* internal/videospec/spec.go *)

\* sizes: resolution -> its sizes, in a function with domain {""} where the
\* size does not decide the resolution. Reference videos are measured in 1/100 s.
ServiceSpec(durations, sizes, resolutions) ==
    [durations |-> durations, sizes |-> sizes, resolutions |-> resolutions,
     images |-> 0, imagesWithVideo |-> 0, startEnd |-> FALSE, endFrame |-> FALSE, requiresStart |-> FALSE,
     videos |-> 0, audios |-> 0, items |-> 0, minVideo |-> 0, maxVideo |-> 0,
     videoResolutions |-> {}, generateAudio |-> FALSE, alwaysAudio |-> FALSE]

WithFrames(spec) == [spec EXCEPT !.startEnd = TRUE, !.endFrame = TRUE]
WithSound(spec) == [spec EXCEPT !.generateAudio = TRUE]
WithReferences(spec, images, videos, audios, items, seconds100) ==
    [WithFrames(spec) EXCEPT !.images = images, !.videos = videos, !.audios = audios,
                             !.items = items, !.maxVideo = seconds100]

standardSizes == "" :> {"1280x720", "720x1280"}
standardHD(low) == low :> {"1280x720", "720x1280"} @@ "1080p" :> {"1920x1080", "1080x1920"}

adobeSeedanceTierSizes ==
       "480p" :> {"1120x480", "854x480", "640x480", "480x480", "480x640", "480x854"}
    @@ "720p" :> {"1680x720", "1280x720", "960x720", "720x720", "720x960", "720x1280"}
    @@ "1080p" :> {"2520x1080", "1920x1080", "1440x1080", "1080x1080", "1080x1440", "1080x1920"}

serviceSpecs ==
    LET adobeSeedance(tiers) ==
          WithReferences(ServiceSpec(4..15, [r \in tiers |-> adobeSeedanceTierSizes[r]], tiers), 9, 3, 3, 12, 1500)
        seedance(tiers) == WithSound(WithReferences(ServiceSpec(4..15, standardSizes, tiers), 4, 3, 1, 0, 1500))
        veo(sizes, tiers, images) == [WithFrames(ServiceSpec({4, 6, 8}, sizes, tiers)) EXCEPT !.images = images]
        all == {"720p", "1080p", "2160p"}
        hd == {"720p", "1080p"}
    IN  Leo("gemini-omni-flash") :> [ServiceSpec(3..10, standardSizes, {"720p"}) EXCEPT !.images = 5]
     @@ Leo("happy-horse-1.1") :> WithSound(ServiceSpec(3..15, standardHD("720p"), hd))
     @@ Leo("kling-3.0") :>
          WithSound(ServiceSpec(3..15, standardHD("720p") @@ "2160p" :> {"3840x2160", "2160x3840"}, all))
     @@ Leo("kling-3.0-turbo") :> WithSound(ServiceSpec(3..15, standardHD("720p"), hd))
     @@ Leo("hailuo-2.3") :> ServiceSpec({6, 10}, standardHD("768p"), {"768p", "1080p"})
     @@ Leo("wan-2.7") :> WithSound(ServiceSpec(2..10, standardHD("720p"), hd))
     @@ Adobe("veo-3.1") :> veo(standardHD("720p"), hd, 3)
     @@ Adobe("veo-3.1-fast") :> veo(standardHD("720p"), hd, 0)
     @@ Adobe("seedance-2.0") :> adobeSeedance({"480p", "720p", "1080p"})
     @@ Adobe("seedance-2.0-fast") :> adobeSeedance({"480p", "720p"})
     @@ Adobe("kling-3.0-omni") :>
          [WithFrames(ServiceSpec({5, 10, 15},
              "720p" :> {"1280x720", "720x1280", "720x720"} @@ "1080p" :> {"1920x1080", "1080x1920", "1080x1080"}, hd))
             EXCEPT !.images = 3]
     @@ Leo("seedance-2.0") :> seedance({"480p"} \cup all)
     @@ Leo("seedance-2.0-fast") :> seedance({"480p", "720p"})
     @@ Leo("seedance-2.0-mini") :> seedance({"480p", "720p"})
     @@ Leo("seedance-2.5") :>
          WithSound(WithReferences(ServiceSpec(4..30,
              "480p" :> {"992x432", "864x496", "752x560", "640x640", "560x752", "496x864"}
              @@ "720p" :> {"1470x630", "1280x720", "1112x834", "960x960", "834x1112", "720x1280"},
              {"480p", "720p"}), 30, 10, 10, 0, 3020))
     @@ Leo("flux-3-video") :>
          WithSound(WithReferences(ServiceSpec(5..20,
              "720p" :> {"1470x630", "1360x680", "1280x720", "1112x834", "960x960", "834x1112", "720x1280"}
              @@ "1080p" :> {"2520x1080", "2160x1080", "1920x1080", "1440x1080", "1440x1440", "1080x1440", "1080x1920"},
              hd), 0, 1, 0, 0, 1505))
     @@ Leo("veo-3.1") :> WithSound(veo(standardSizes, all, 3))
     @@ Leo("veo-3.1-fast") :> WithSound(veo(standardSizes, all, 0))
     @@ Leo("kling-o3-omni") :>
          [WithSound(WithReferences(ServiceSpec(3..15,
              "720p" :> {"1280x720", "720x1280", "960x960"} @@ "1080p" :> {"1920x1080", "1080x1920", "1440x1440"}
              @@ "2160p" :> {"3840x2160", "2160x3840", "2880x2880"}, all), 7, 1, 0, 0, 1005))
             EXCEPT !.imagesWithVideo = 4, !.minVideo = 300, !.videoResolutions = hd]
     @@ Leo("minimax-h3") :>
          [WithSound(WithFrames(ServiceSpec(5..15,
              "" :> {"3360x1440", "2560x1440", "1920x1440", "1440x1440", "1440x1920", "1440x2560"}, {"1440p"})))
             EXCEPT !.images = 5, !.audios = 3, !.alwaysAudio = TRUE]
     @@ Leo("grok-imagine-1.5") :>
          [WithSound(ServiceSpec(3..15,
              "480p" :> {"736x400", "400x736", "544x544"} @@ "720p" :> {"1280x720", "720x1280", "960x960"}
              @@ "1080p" :> {"1888x1072", "1072x1888", "1424x1424"}, {"480p", "720p", "1080p"}))
             EXCEPT !.startEnd = TRUE, !.requiresStart = TRUE]

buildCreativeFabricaVideoSpec(m) ==
    LET sizes == "480p" :> {"992x432", "864x496", "752x560", "640x640", "560x752", "496x864"}
              @@ "720p" :> {"1470x630", "1280x720", "1112x834", "960x960", "834x1112", "720x1280"}
              @@ "1080p" :> {"2520x1080", "2160x1080", "1920x1080", "1440x1080", "1440x1440", "1080x1440", "1080x1920"}
        tiers == {"360p", "480p", "720p", "768p", "1080p", "2k", "4k"}
        spec == WithSound(WithReferences(ServiceSpec(3..15, sizes, tiers), 10, 10, 10, 30, 3020))
    IN  IF m.name # "seedance_v2_mini" THEN spec
        ELSE [WithReferences(spec, 9, 3, 3, 9, 1500) EXCEPT !.durations = 4..15, !.resolutions = {"480p", "720p"}]

GetForProvider(m) ==
    IF m \in DOMAIN serviceSpecs THEN serviceSpecs[m] ELSE buildCreativeFabricaVideoSpec(m)

\* 0: no limit.
PromptLimit(m) ==
    CASE m.name \in {"veo-3.1", "veo-3.1-fast"} -> 9999
      [] m.name \in {"kling-o3-omni", "kling-3.0-omni"} -> 2500
      [] m.name = "minimax-h3" -> 2000
      [] m.name = "seedance_v2_mini" -> 4096
      [] m.prefix = "creativefabrica" -> 0
      [] OTHER -> 5000

-----------------------------------------------------------------------------
(* internal/httpapi/video_handlers.go *)

(* A request: [body ("json" or "multipart"), fields (the names of those it      *)
(* carries), model, prompt (its length), duration, size, resolution, audio      *)
(* ("unset", "on" or "off"), files]. The answers name the check that refuses.   *)

OptionFields == {"model", "prompt", "duration", "size", "resolution"}

publicVideoJSONRequest == OptionFields \cup {"generate_audio"}

\* decodeJSON refuses a body with a field that the request type does not have;
\* a form is read by the names of the fields it is known to have.
UnknownFields(r) == IF r.body = "json" THEN r.fields \ publicVideoJSONRequest ELSE {}

SizeAllowed(spec, s) == \E r \in DOMAIN spec.sizes : s \in spec.sizes[r]
TierOf(spec, s) == CHOOSE r \in DOMAIN spec.sizes : s \in spec.sizes[r]

FrameChecks(spec, f) ==
    {c \in {"frames", "end frame", "end without start", "start required"} :
       CASE c = "frames" -> f["start"] + f["end"] > 0 /\ ~spec.startEnd
         [] c = "end frame" -> f["end"] > 0 /\ ~spec.endFrame
         [] c = "end without start" -> f["end"] > 0 /\ f["start"] = 0
         [] c = "start required" -> spec.requiresStart /\ f["start"] = 0}

ReferenceChecks(spec, f) ==
    LET images == IF f["videos"] > 0 /\ spec.imagesWithVideo > 0 THEN spec.imagesWithVideo ELSE spec.images
    IN  {c \in {"images", "mixed", "videos", "audio", "combined", "audio alone"} :
           CASE c = "images" -> f["images"] > images
             [] c = "mixed" -> f["images"] + f["videos"] > 0 /\ f["start"] + f["end"] > 0
             [] c = "videos" -> f["videos"] > spec.videos
             [] c = "audio" -> f["audio"] > spec.audios
             [] c = "combined" -> spec.items > 0 /\ f["images"] + f["videos"] + f["audio"] > spec.items
             [] c = "audio alone" -> f["audio"] > 0 /\ f["images"] = 0 /\ f["videos"] = 0}

normalizeVideoOptions(spec, r) ==
    {c \in {"sound", "size", "duration", "video duration", "resolution", "video resolution", "size resolution", "veo"} :
       CASE c = "sound" -> \/ r.audio # "unset" /\ ~spec.generateAudio
                           \/ spec.alwaysAudio /\ r.audio = "off"
         [] c = "size" -> ~SizeAllowed(spec, r.size)
         [] c = "duration" -> r.duration \notin spec.durations
         [] c = "video duration" -> /\ r.files["videos"] > 0
                                    /\ \/ r.duration * 100 < spec.minVideo
                                       \/ spec.maxVideo > 0 /\ r.duration * 100 > spec.maxVideo
         [] c = "resolution" -> r.resolution \notin spec.resolutions
         [] c = "video resolution" -> /\ r.files["videos"] > 0
                                      /\ spec.videoResolutions # {} /\ r.resolution \notin spec.videoResolutions
         [] c = "size resolution" -> SizeAllowed(spec, r.size) /\ TierOf(spec, r.size) \notin {"", r.resolution}
         [] c = "veo" -> /\ r.model.name = "veo-3.1" /\ r.files["images"] > 0
                         /\ r.size # "1280x720" \/ r.duration # 8}

\* Every reason createVideoTask has to refuse the request; it reports one.
Refusals(r) ==
    LET spec == GetForProvider(r.model)
    IN  FrameChecks(spec, r.files) \cup ReferenceChecks(spec, r.files) \cup normalizeVideoOptions(spec, r)
        \cup {c \in {"prompt"} : PromptLimit(r.model) > 0 /\ r.prompt > PromptLimit(r.model)}

-----------------------------------------------------------------------------
(* The two tables *)

\* What the page's row of a model offers, the service's row allows: durations,
\* sizes with their resolutions, kinds and numbers of files, sound, the length of
\* the prompt. Hailuo 2.3 has no size that maps to one of its resolutions.
RowsAgree(m) ==
    LET doc == videoModelDocs[m]
        spec == GetForProvider(m)
    IN  /\ doc.durations \subseteq spec.durations
        /\ \A s \in SizesOf(doc) : SizeAllowed(spec, s)
        /\ m # Leo("hailuo-2.3") =>
             \A s \in SizesOf(doc) : \A r \in videoResolutionsForSize(doc, s) :
                r \in spec.resolutions /\ TierOf(spec, s) \in {"", r}
        /\ {doc.images, spec.images, spec.imagesWithVideo, spec.videos, spec.audios, spec.items} \subseteq Nat
        /\ doc.images <= spec.images
        /\ doc.imagesWithVideo = Undefined => spec.imagesWithVideo = 0
        /\ doc.imagesWithVideo # Undefined => doc.imagesWithVideo <= Least(spec.images, spec.imagesWithVideo)
        /\ maxVideoReferences(doc) <= spec.videos
        /\ maxAudioReferences(doc) <= spec.audios
        /\ doc.startEnd => spec.startEnd
        /\ supportsVideoEndFrame(doc) => spec.endFrame
        /\ spec.requiresStart => doc.requiresStart
        /\ doc.generateAudio => spec.generateAudio
        /\ spec.alwaysAudio => doc.alwaysAudio
        /\ doc.promptMax \in Nat \ {0} /\ (PromptLimit(m) > 0 => doc.promptMax <= PromptLimit(m))

ASSUME TablesAgree == \A m \in DOMAIN videoModelDocs : RowsAgree(m)

=============================================================================
