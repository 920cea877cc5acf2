----------------------------- MODULE MCMediaForm ------------------------------
(* Two models of each provider, with the sizes, durations and kinds of limits *)
(* the tables give them; limits are scaled to at most 2 and keep their order. *)
EXTENDS MediaForm

SmallRegistry ==
    [leonardo |-> [image |-> <<Leo("gpt-image-2"), Leo("seedream-5.0-pro")>>,
                   video |-> <<Leo("gemini-omni-flash"), Leo("kling-o3-omni")>>,
                   audio |-> <<Leo("dialogue-v3"), Leo("music-v1"), Leo("sound-effects-v2")>>,
                   chat |-> <<Leo("gpt-image-2"), Leo("seedream-5.0-pro")>>],
     adobe |-> [audio |-> <<>>, image |-> <<Adobe("gpt-image-2"), Adobe("nano-banana-2")>>,
                video |-> <<Adobe("veo-3.1-fast"), Adobe("seedance-2.0")>>,
                chat |-> <<Adobe("gpt-image-2"), Adobe("nano-banana-2")>>],
     creativefabrica |-> [audio |-> <<>>, image |-> <<CF("nano-banana-2")>>,
                          video |-> <<CF("seedance_v2_5"), CF("heygen_avatar_5")>>,
                          chat |-> <<CF("nano-banana-2")>>]]

Doc(sizes, resolutions, durations, default, limits) ==
    [VideoModelDoc(durations, default, resolutions, 1)
       EXCEPT !.sizes = sizes, !.images = limits[1], !.imagesWithVideo = limits[2], !.startEnd = limits[3],
              !.videos = limits[4], !.audios = limits[5]]

Image(sizes) == Doc(Sized("", sizes), <<"">>, {0}, 0, <<0, 0, FALSE, 0, 0>>)

SmallDocs ==
    [m \in UNION {UNION {Range(SmallRegistry[p][k]) : k \in {"image", "video"}} : p \in DOMAIN SmallRegistry} |->
       CASE m = Leo("gemini-omni-flash") -> Doc(standardVideoSizes, <<"720p">>, {5, 8}, 5, <<1, 1, FALSE, 0, 0>>)
         [] m = Leo("kling-o3-omni") ->
              Doc(<<At("1920x1080", "1080p"), At("1280x720", "720p")>>, <<"720p", "1080p">>, {5, 15}, 5, <<2, 1, TRUE, 1, 0>>)
         [] m = Adobe("veo-3.1-fast") ->
              Doc(<<At("1280x720", "720p"), At("1920x1080", "1080p")>>, <<"720p", "1080p">>, {4, 8}, 8, <<0, 0, TRUE, 0, 0>>)
         [] m = Adobe("seedance-2.0") ->
              Doc(<<At("1680x720", "720p"), At("1280x720", "720p")>>, <<"720p", "1080p">>, {8, 15}, 8, <<2, 2, TRUE, 1, 1>>)
         [] m = CF("seedance_v2_5") -> Doc(standardVideoSizes, <<"720p", "1080p">>, {5, 15}, 5, <<2, 2, TRUE, 2, 2>>)
         [] m = CF("heygen_avatar_5") -> Doc(standardVideoSizes, <<"720p", "1080p">>, {5, 15}, 5, <<0, 0, FALSE, 0, 0>>)
         [] m = Leo("seedream-5.0-pro") -> Image(<<"1024x1024", "1024x1536">>)
         [] m.name = "gpt-image-2" -> Image(<<"1024x1024", "2048x2048">>)
         [] m.name = "nano-banana-2" -> Image(<<"1024x1024", "848x1264">>)]

Link(p, m) == [provider |-> p, model |-> m]
DocLinks == {Link("leonardo", Leo("kling-o3-omni")), Link("adobe", Adobe("veo-3.1-fast")),
             Link("", CF("heygen_avatar_5")), Link("leonardo", Leo("seedance-2.0")),
             Link("adobe", Adobe("gpt-image-2")), Link("", Leo("music-v1")), Link("", CF("nano-banana-2"))}

=============================================================================
