----------------------------- MODULE MCGeneration -----------------------------
(* The pages of the admin web application that make and follow generations:   *)
(* the life cycle of the test page, its forms, a video request and the service, *)
(* the documentation page, the task page and its clean-up. One of them is open; *)
(* they share no state in the browser. A page that is not open is in an initial *)
(* state in which nothing is under way.                                        *)
EXTENDS Playground, MCMediaForm, VideoRequest, DocsPage, TaskPage, TaskCleanup

VARIABLE tab

Names(make(_), names) == [i \in DOMAIN names |-> make(names[i])]

AllRegistry ==
    [leonardo |-> [image |-> Names(Leo, <<"gpt-image-2", "nano-banana-pro">>),
                   video |-> Names(Leo, <<"gemini-omni-flash", "happy-horse-1.1", "kling-3.0", "kling-3.0-turbo",
                                          "kling-o3-omni", "hailuo-2.3", "wan-2.7">>),
                   audio |-> Names(Leo, <<"sound-effects-v2", "dialogue-v3", "music-v1">>)],
     adobe |-> [image |-> Names(Adobe, <<"gpt-image-2", "nano-banana-2">>), audio |-> <<>>,
                video |-> Names(Adobe, <<"kling-3.0-omni", "veo-3.1", "veo-3.1-fast", "seedance-2.0", "seedance-2.0-fast">>)],
     creativefabrica |-> [image |-> Names(CF, <<"nano-banana-2">>), audio |-> <<>>,
                          video |-> Names(CF, <<"seedance_v2_5", "heygen_avatar_5", "seedance_v2_mini">>)]]

SomeEnabled == {DOMAIN AllRegistry, {"adobe"}, {}}

generationVars == <<tab, playVars, mediaVars, requestVars, docsVars, taskPageVars, cleanupVars>>

GenerationInit ==
    /\ tab \in {"playground", "form", "request", "docs", "tasks", "cleanup"}
    /\ PlayInit /\ (tab # "playground" => media = "chat")
    /\ MediaInit /\ (tab # "form" => kind = "chat")
    /\ RequestInit
    /\ DocsInit /\ (tab # "docs" => docsProvider = "leonardo")
    /\ TaskPageInit /\ (tab # "tasks" => \A t \in ListedTasks : status[t] = "ended")
    /\ CleanupInit

GenerationNext ==
    \/ /\ tab = "playground" /\ PlayNext
       /\ UNCHANGED <<tab, mediaVars, requestVars, docsVars, taskPageVars, cleanupVars>>
    \/ /\ tab = "form" /\ MediaNext
       /\ UNCHANGED <<tab, playVars, requestVars, docsVars, taskPageVars, cleanupVars>>
    \/ /\ tab = "request" /\ RequestNext
       /\ UNCHANGED <<tab, playVars, mediaVars, docsVars, taskPageVars, cleanupVars>>
    \/ /\ tab = "docs" /\ DocsNext
       /\ UNCHANGED <<tab, playVars, mediaVars, requestVars, taskPageVars, cleanupVars>>
    \/ /\ tab = "tasks" /\ TaskPageNext
       /\ UNCHANGED <<tab, playVars, mediaVars, requestVars, docsVars, cleanupVars>>
    \/ /\ tab = "cleanup" /\ CleanupNext
       /\ UNCHANGED <<tab, playVars, mediaVars, requestVars, docsVars, taskPageVars>>

GenerationSpec ==
    /\ GenerationInit
    /\ [][GenerationNext]_generationVars
    /\ PlayFairness
    /\ TaskPageFairness

\* The type invariants of the pages: among them that a request, a task or a
\* model that the pages refer to exists, and that a batch has a legal size.
GenerationTypeOK == PlayTypeOK /\ MediaTypeOK /\ DocsTypeOK /\ TaskPageTypeOK /\ CleanupTypeOK

=============================================================================
