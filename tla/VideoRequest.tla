----------------------------- MODULE VideoRequest -----------------------------
(* A video request on its way from the form to createVideoTask, for every model *)
(* of the tables. The form holds values its controls offer for the model (see  *)
(* ValuesOffered of MediaForm); durations, prompts and numbers of files are     *)
(* taken at their limits. The model's capabilities and its being switched on    *)
(* are settings of the catalogue and taken as given.                            *)
EXTENDS VideoRules

VARIABLES request,   \* <<>> or the request being composed or answered
          answer     \* "none", "sent", "decoded", "created" or "refused"

requestVars == <<request, answer>>

Extremes(S) == {d \in S : (\A e \in S : d <= e) \/ (\A e \in S : e <= d)}

\* Reference videos chosen for another model of the provider are not cut to the
\* limit of this one.
VideosKept(m) ==
    IF maxVideoReferences(videoModelDocs[m]) = 0 THEN {0}
    ELSE {maxVideoReferences(videoModelDocs[n]) : n \in {n \in DOMAIN videoModelDocs : n.prefix = m.prefix}}

ChosenFiles(m) ==
    LET spec == videoModelDocs[m]
        upTo(limit) == {0, Least(1, limit), limit}
    IN  UNION {[images : upTo(maxImageReferences(spec, v > 0)),
                start : upTo(maxReferences(spec, "start", FALSE)),
                end : upTo(maxReferences(spec, "end", FALSE)),
                videos : {v},
                audio : upTo(maxAudioReferences(spec))] : v \in upTo(maxVideoReferences(spec)) \cup VideosKept(m)}

\* Without reference mode the files stay behind, whatever is chosen, and the body
\* is JSON; reference mode sends a form with at least one file. Both carry the
\* strength of the references, which always has a value.
FormRequest(m, files, duration, s, r, sound, prompt) ==
    LET spec == videoModelDocs[m]
    IN  [body |-> IF files = NoFiles THEN "json" ELSE "multipart",
         fields |-> OptionFields \cup {"reference_strength"}
                    \cup IF spec.generateAudio THEN {"generate_audio"} ELSE {},
         model |-> m, prompt |-> prompt, duration |-> duration, size |-> s, resolution |-> r,
         audio |-> IF ~spec.generateAudio THEN "unset" ELSE IF spec.alwaysAudio THEN "on" ELSE sound,
         files |-> files]

Submissions(m) ==
    LET spec == videoModelDocs[m]
    IN  (IF spec.requiresStart THEN {} ELSE {NoFiles})
        \cup {f \in ChosenFiles(m) : FormAccepts(spec, f, TRUE)}

SendVideoForm(m) ==
    LET spec == videoModelDocs[m]
    IN  /\ answer = "none"
        /\ \E files \in Submissions(m), s \in SizesOf(spec), duration \in Extremes(spec.durations) \cup {spec.defaultDuration},
              sound \in {"on", "off"}, prompt \in {1, spec.promptMax} :
              \E r \in videoResolutionsForSize(spec, s) :
                 request' = <<FormRequest(m, files, duration, s, r, sound, prompt)>>
        /\ answer' = "sent"

videoGeneration ==
    /\ answer = "sent"
    /\ answer' = IF UnknownFields(request[1]) = {} THEN "decoded" ELSE "refused"
    /\ UNCHANGED request

createVideoTask ==
    /\ answer = "decoded"
    /\ answer' = IF Refusals(request[1]) = {} THEN "created" ELSE "refused"
    /\ UNCHANGED request

NextRequest ==
    /\ answer \in {"created", "refused"}
    /\ answer' = "none"
    /\ request' = <<>>

RequestInit == request = <<>> /\ answer = "none"

RequestNext ==
    \/ \E m \in DOMAIN videoModelDocs : SendVideoForm(m)
    \/ videoGeneration
    \/ createVideoTask
    \/ NextRequest

RequestSpec == RequestInit /\ [][RequestNext]_requestVars

-----------------------------------------------------------------------------
(* Properties *)

\* What the form leaves to the service: the total of all references, an end
\* frame without a start frame, the length and the resolution a reference video
\* allows, Veo's fixed size and duration with reference images, and reference
\* videos chosen for a model that takes more. Hailuo 2.3 has no size that maps
\* to one of its resolutions.
LeftToService(r) ==
    {"combined", "end without start", "video duration", "video resolution", "veo"}
    \cup {c \in {"videos"} : r.files["videos"] \in VideosKept(r.model)}
    \cup {c \in {"resolution", "size resolution"} : r.model = Leo("hailuo-2.3")}

\* Of every request the form sends, the service decodes the body but for one
\* field, and accepts the rest: the two tables agree on every size, resolution,
\* duration, sound option, prompt length and number of files of every model,
\* although they are written separately. The field is reference_strength, which
\* the type of the JSON body lacks: see TextRequestsAccepted for what that does.
FormAgreesWithService ==
    answer # "none" => /\ UnknownFields(request[1]) \subseteq {"reference_strength"}
                       /\ Refusals(request[1]) \subseteq LeftToService(request[1])

\* "直接验证图像、视频和音频生成接口", text-to-video among them: a request without
\* reference files that breaks no rule of the service is not refused. The code
\* breaks it: the form's JSON body always carries reference_strength.
TextRequestsAccepted ==
    answer = "refused" /\ request[1].body = "json" => Refusals(request[1]) # {}

=============================================================================
