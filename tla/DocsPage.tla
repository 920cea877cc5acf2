------------------------------- MODULE DocsPage -------------------------------
(* The documentation page: it follows the platform in the address, shows a      *)
(* request template for the chosen video model and kind of reference, and its   *)
(* cost calculators ask the service for an estimate while their inputs may      *)
(* change. The tables of parameters and prices and the audio section are text.  *)
EXTENDS VideoRules

CONSTANTS DocsRegistry,   \* [provider -> [media -> sequence of internal models]]
          DocsEnabled     \* the sets of enabled platforms the service may report

DocsOrder == <<"leonardo", "adobe", "creativefabrica">>
DocsMedia == {"image", "video", "audio"}
NoModel == Leo("")

\* The registry of the page: a list of models for every platform and section.
ASSUME DocsAssumption ==
    /\ DOMAIN DocsRegistry = Range(DocsOrder)
    /\ \A p \in DOMAIN DocsRegistry, m \in DocsMedia :
         DocsRegistry[p][m] = <<>> \/ 1 \in DOMAIN DocsRegistry[p][m]
    /\ \A p \in {"leonardo", "adobe"} : DocsRegistry[p]["image"] # <<>>
    /\ \A e \in DocsEnabled : e \subseteq DOMAIN DocsRegistry

VARIABLES docsEnabled,    \* <<>> until the platforms are loaded, then <<the enabled ones>>
          docsProvider, docsMedia, docsModel, docsMode,
          calc,           \* the inputs of the calculator
          estimate        \* its mutation: [status, of]

docsVars == <<docsEnabled, docsProvider, docsMedia, docsModel, docsMode, calc, estimate>>
sectionVars == <<docsModel, docsMode, calc, estimate>>

providerSupports(p, m) == DocsRegistry[p][m] # <<>>

FirstOf(S) == DocsOrder[CHOOSE i \in DOMAIN DocsOrder :
                          DocsOrder[i] \in S /\ \A j \in DOMAIN DocsOrder : DocsOrder[j] \in S => i <= j]

NoEstimate == [status |-> "none", of |-> <<>>]

isGPTImage2(m) == m.name = "gpt-image-2"

-----------------------------------------------------------------------------
(* The sections *)

VideoCalculator(m) ==
    LET spec == videoModelDocs[m]
    IN  [duration |-> spec.defaultDuration, size |-> modelVideoSizes(spec)[1].value,
         resolution |-> defaultVideoResolution(spec),
         option |-> IF m = Adobe("kling-3.0-omni") THEN "text" ELSE "audio", quantity |-> 0]

ImageCalculator == [duration |-> 0, size |-> "1024x1024", resolution |-> "", option |-> "low", quantity |-> 1]

NoCalculator == [ImageCalculator EXCEPT !.quantity = 0]

\* Calculators are keyed by the model, sections by the platform: a change of
\* either starts them anew and leaves a pending estimate without a reader.
ShowModel(m, media) ==
    /\ docsModel' = m
    /\ calc' = IF m = NoModel \/ media = "audio" THEN NoCalculator
               ELSE IF media = "video" THEN VideoCalculator(m) ELSE ImageCalculator
    /\ estimate' = NoEstimate

ShowSection(p, media) ==
    /\ docsProvider' = p
    /\ docsMedia' = media
    /\ docsMode' = "text"
    /\ ShowModel(IF providerSupports(p, media) THEN DocsRegistry[p][media][1] ELSE NoModel, media)

DocsInit ==
    /\ docsEnabled = <<>>
    /\ docsProvider \in {"leonardo", "adobe"}      \* the address, "leonardo" without a parameter
    /\ docsMedia = "image"
    /\ docsMode = "text"
    /\ docsModel = DocsRegistry[docsProvider]["image"][1]
    /\ calc = ImageCalculator
    /\ estimate = NoEstimate

\* A platform that is not enabled gives way to the first enabled one, or to the
\* first of all when none is; the effect corrects the address.
ProvidersLoaded(enabled) ==
    LET p == IF docsProvider \in enabled THEN docsProvider
             ELSE FirstOf(IF enabled = {} THEN DOMAIN DocsRegistry ELSE enabled)
    IN  /\ docsEnabled = <<>>
        /\ docsEnabled' = <<enabled>>
        /\ IF p = docsProvider THEN UNCHANGED <<docsProvider, docsMedia, sectionVars>>
           ELSE ShowSection(p, docsMedia)

\* An unsupported section moves on to a platform that has it, if one is enabled.
switchMedia(m) ==
    LET able == {p \in docsEnabled[1] : providerSupports(p, m)}
        stays == docsEnabled = <<>> \/ providerSupports(docsProvider, m) \/ able = {}
    IN  /\ m # docsMedia
        /\ ShowSection(IF stays THEN docsProvider ELSE FirstOf(able), m)
        /\ UNCHANGED docsEnabled

\* The switcher offers the enabled platforms that have the section.
switchDocsProvider(p) ==
    /\ docsEnabled # <<>>
    /\ p \in docsEnabled[1] \ {docsProvider}
    /\ providerSupports(p, docsMedia)
    /\ ShowSection(p, docsMedia)
    /\ UNCHANGED docsEnabled

-----------------------------------------------------------------------------
(* Video templates *)

VideoModes == {"text", "image", "frame", "video", "audio"}

supportsVideoMode(spec, m) ==
    CASE m = "text"  -> ~spec.requiresStart
      [] m = "image" -> spec.images > 0
      [] m = "frame" -> spec.startEnd
      [] m = "video" -> maxVideoReferences(spec) > 0
      [] m = "audio" -> maxAudioReferences(spec) > 0

Mutant_ModeKept(m) ==
    /\ docsModel # NoModel
    /\ m \in Range(DocsRegistry[docsProvider][docsMedia]) \ {docsModel}
    /\ ShowModel(m, docsMedia)
    /\ UNCHANGED <<docsEnabled, docsProvider, docsMedia, docsMode>>

selectDocsModel(m) ==
    /\ docsModel # NoModel
    /\ m \in Range(DocsRegistry[docsProvider][docsMedia]) \ {docsModel}
    /\ ShowModel(m, docsMedia)
    /\ docsMode' = IF docsMedia # "video" \/ supportsVideoMode(videoModelDocs[m], docsMode) THEN docsMode
                   ELSE IF videoModelDocs[m].requiresStart THEN "frame" ELSE "text"
    /\ UNCHANGED <<docsEnabled, docsProvider, docsMedia>>

setDocsMode(m) ==
    /\ docsMedia = "video" /\ docsModel # NoModel
    /\ supportsVideoMode(videoModelDocs[docsModel], m)
    /\ docsMode' = m
    /\ UNCHANGED <<docsEnabled, docsProvider, docsMedia, docsModel, calc, estimate>>

\* The request of the template, with one file where it names one.
videoModeExample(m, mode) ==
    LET spec == videoModelDocs[m]
        first == modelVideoSizes(spec)[1].value
        open == IF mode = "text" /\ "1080p" \in Range(spec.resolutions) THEN "1080p"
                ELSE IF mode = "text" /\ "720p" \in Range(spec.resolutions) THEN "720p"
                ELSE spec.resolutions[1]
        count(yes) == IF yes THEN 1 ELSE 0
        image == mode \in {"image", "audio"} \/ (mode = "video" /\ m = Leo("kling-o3-omni"))
    IN  [body |-> IF mode = "text" THEN "json" ELSE "multipart",
         fields |-> OptionFields \cup (IF spec.generateAudio THEN {"generate_audio"} ELSE {})
                    \cup IF image THEN {"reference_strength"} ELSE {},
         model |-> m, prompt |-> 1, duration |-> spec.defaultDuration, size |-> first,
         resolution |-> IF videoResolutionForSize(spec, first) # "" THEN videoResolutionForSize(spec, first) ELSE open,
         audio |-> IF spec.generateAudio THEN "on" ELSE "unset",
         files |-> [images |-> count(image),
                    start |-> count(mode = "frame"),
                    end |-> count(mode = "frame" /\ supportsVideoEndFrame(spec)),
                    videos |-> count(mode = "video"),
                    audio |-> count(mode = "audio")]]

\* What a template takes for granted of the two rows of its model: a model that
\* needs a start frame takes no other file, audio comes with an image, two files
\* are never too many, and the size and the duration a model opens with suit a
\* reference video and, of Veo, reference images.
TemplateRow(m) ==
    LET doc == videoModelDocs[m]
        spec == GetForProvider(m)
        first == modelVideoSizes(doc)[1].value
    IN  /\ doc.requiresStart =>
             doc.startEnd /\ doc.images = 0 /\ maxVideoReferences(doc) = 0 /\ maxAudioReferences(doc) = 0
        /\ maxAudioReferences(doc) > 0 => doc.images > 0
        /\ spec.items # 1
        /\ maxVideoReferences(doc) > 0 => /\ spec.minVideo <= doc.defaultDuration * 100
                                          /\ spec.maxVideo > 0 => doc.defaultDuration * 100 <= spec.maxVideo
        /\ spec.videoResolutions # {} => videoResolutionsForSize(doc, first) \subseteq spec.videoResolutions
        /\ m.name = "veo-3.1" => first = "1280x720" /\ doc.defaultDuration = 8
        /\ m = Leo("kling-o3-omni") => doc.imagesWithVideo > 0
        /\ {doc.defaultDuration, spec.minVideo, spec.maxVideo} \subseteq Nat

ASSUME TemplateRows == \A m \in DOMAIN videoModelDocs : TemplateRow(m)

\* The video section opens with a model that needs no file.
ASSUME DocsVideosAssumption ==
    \A p \in DOMAIN DocsRegistry :
       /\ Range(DocsRegistry[p]["video"]) \subseteq DOMAIN videoModelDocs
       /\ DocsRegistry[p]["video"] # <<>> => ~videoModelDocs[DocsRegistry[p]["video"][1]].requiresStart

-----------------------------------------------------------------------------
(* The cost calculators *)

Calculating(media) == docsMedia = media /\ docsModel # NoModel

\* Every input resets the mutation: a shown estimate goes, a pending one is
\* detached and its answer ignored.
SetInput(c) ==
    /\ calc' = c
    /\ estimate' = NoEstimate
    /\ UNCHANGED <<docsEnabled, docsProvider, docsMedia, docsModel, docsMode>>

setCalcDuration(d) ==
    /\ Calculating("video")
    /\ d \in videoModelDocs[docsModel].durations
    /\ SetInput([calc EXCEPT !.duration = d])

Mutant_SizeKeepsEstimate(s) ==
    LET spec == videoModelDocs[docsModel]
    IN  /\ Calculating("video")
        /\ s \in SizesOf(spec)
        /\ calc' = [calc EXCEPT !.size = s]
        /\ UNCHANGED <<docsEnabled, docsProvider, docsMedia, docsModel, docsMode, estimate>>

setCalcSize(s) ==
    LET spec == videoModelDocs[docsModel]
    IN  /\ Calculating("video")
        /\ s \in SizesOf(spec)
        /\ SetInput([calc EXCEPT !.size = s,
                                 !.resolution = IF videoResolutionForSize(spec, s) # ""
                                                THEN videoResolutionForSize(spec, s) ELSE @])

setCalcResolution(r) ==
    /\ Calculating("video")
    /\ r \in videoResolutionsForSize(videoModelDocs[docsModel], calc.size)
    /\ SetInput([calc EXCEPT !.resolution = r])

PriceOptions(m) ==
    LET spec == videoModelDocs[m]
    IN  IF m = Adobe("kling-3.0-omni") THEN {"text", "frame", "image"}
        ELSE {"audio"} \cup {o \in {"silent"} : spec.generateAudio /\ ~spec.alwaysAudio}
                       \cup {o \in {"reference"} : maxVideoReferences(spec) > 0}

setCalcOption(o) ==
    /\ Calculating("video")
    /\ o \in PriceOptions(docsModel)
    /\ SetInput([calc EXCEPT !.option = o])

\* The image calculator takes any text as size; its quality and quantity are
\* fixed for most models.
setImageInput(s, quality, quantity) ==
    /\ Calculating("image")
    /\ isGPTImage2(docsModel) \/ quality = "low"
    /\ isGPTImage2(docsModel) => quantity = 1
    /\ SetInput([calc EXCEPT !.size = s, !.option = quality, !.quantity = quantity])

SubmitEstimate ==
    /\ Calculating("video") \/ (Calculating("image") /\ calc.size # "")
    /\ estimate.status # "pending"
    /\ estimate' = [status |-> "pending", of |-> <<docsModel, calc>>]
    /\ UNCHANGED <<docsEnabled, docsProvider, docsMedia, docsModel, docsMode, calc>>

\* estimateVideoCost prices a request with one file of the chosen kind.
EstimatedRequest(m, c) ==
    [model |-> m, prompt |-> 1, duration |-> c.duration, size |-> c.size, resolution |-> c.resolution,
     audio |-> IF ~videoModelDocs[m].generateAudio THEN "unset" ELSE IF c.option = "silent" THEN "off" ELSE "on",
     files |-> [NoFiles EXCEPT !["videos"] = IF c.option = "reference" THEN 1 ELSE 0,
                               !["start"] = IF c.option = "frame" THEN 1 ELSE 0,
                               !["images"] = IF c.option = "image" THEN 1 ELSE 0]]

EstimateRefused(m, c) ==
    LET spec == GetForProvider(m)
    IN  \/ c.option = "reference" /\ spec.videos = 0
        \/ normalizeVideoOptions(spec, EstimatedRequest(m, c)) # {}

EstimateAnswered ==
    /\ estimate.status = "pending"
    /\ docsMedia = "video" => ~EstimateRefused(estimate.of[1], estimate.of[2])
    /\ estimate' = [estimate EXCEPT !.status = "shown"]
    /\ UNCHANGED <<docsEnabled, docsProvider, docsMedia, docsModel, docsMode, calc>>

\* Refused, no price rule for the parameters, or not answered.
EstimateFails ==
    /\ estimate.status = "pending"
    /\ estimate' = [status |-> "failed", of |-> <<>>]
    /\ UNCHANGED <<docsEnabled, docsProvider, docsMedia, docsModel, docsMode, calc>>

DurationsTried == {3, 5, 8, 15}
DocsModels == UNION {UNION {Range(DocsRegistry[p][m]) : m \in DocsMedia} : p \in DOMAIN DocsRegistry}
DocsVideos == UNION {Range(DocsRegistry[p]["video"]) : p \in DOMAIN DocsRegistry}

DocsNext ==
    \/ \E e \in DocsEnabled : ProvidersLoaded(e)
    \/ \E m \in DocsMedia : switchMedia(m)
    \/ \E p \in DOMAIN DocsRegistry : switchDocsProvider(p)
    \/ \E m \in DocsModels : selectDocsModel(m)
    \/ \E m \in VideoModes : setDocsMode(m)
    \/ \E d \in DurationsTried : setCalcDuration(d)
    \/ \E s \in UNION {SizesOf(videoModelDocs[m]) : m \in DocsVideos} : setCalcSize(s)
    \/ \E r \in UNION {Range(videoModelDocs[m].resolutions) : m \in DocsVideos} : setCalcResolution(r)
    \/ \E o \in {"text", "frame", "image", "audio", "silent", "reference"} : setCalcOption(o)
    \/ \E s \in {"", "1024x1024", "1536x2048"}, q \in {"low", "high"}, n \in {1, 4} : setImageInput(s, q, n)
    \/ SubmitEstimate
    \/ EstimateAnswered
    \/ EstimateFails

DocsSpec == DocsInit /\ [][DocsNext]_docsVars

-----------------------------------------------------------------------------
(* Properties *)

DocsTypeOK ==
    /\ docsEnabled = <<>> \/ docsEnabled[1] \in DocsEnabled
    /\ docsProvider \in DOMAIN DocsRegistry
    /\ docsMedia \in DocsMedia
    /\ docsModel = NoModel \/ docsModel \in Range(DocsRegistry[docsProvider][docsMedia])
    /\ docsMode \in VideoModes
    /\ estimate.status \in {"none", "pending", "shown", "failed"}

\* The estimate on display was computed for exactly the inputs on display,
\* whichever of them changed while the service was computing it: "the result is
\* what a task reserves when it is created" (docs-page.tsx:978).
EstimateMatchesInputs ==
    estimate.status = "shown" => estimate.of = <<docsModel, calc>>

\* The service accepts every request template the page shows, in particular
\* after a change to a model that does not take the chosen kind of reference.
\* The template of Hailuo 2.3 is refused (see FormAgreesWithService).
TemplatesAccepted ==
    docsMedia = "video" /\ docsModel \notin {NoModel, Leo("hailuo-2.3")} =>
        /\ UnknownFields(videoModeExample(docsModel, docsMode)) = {}
        /\ Refusals(videoModeExample(docsModel, docsMode)) = {}

-----------------------------------------------------------------------------
(* Why they hold, as an inductive invariant *)

\* An estimate that is shown or may still be is one of the inputs on display.
EstimateOfInputs ==
    \/ estimate \in [status : {"none", "failed"}, of : {<<>>}]
    \/ estimate \in [status : {"pending", "shown"}, of : {<<docsModel, calc>>}]

\* The kind of reference on display is one the model takes.
ModeSupported ==
    docsMedia = "video" /\ docsModel # NoModel => supportsVideoMode(videoModelDocs[docsModel], docsMode)

DocsInv == DocsTypeOK /\ EstimateOfInputs /\ ModeSupported

=============================================================================
