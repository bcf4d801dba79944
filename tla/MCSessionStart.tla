--------------------------- MODULE MCSessionStart ---------------------------
(* SessionStart over a world of two personas and two scenes, and a template. *)
(* "rose-gallery" and "rose_gallery" are two scene ids of one file name;     *)
(* "the rose" is an id the loader refuses.                                   *)
EXTENDS SessionStart, TLC

World(id, default, personas, scenes) ==
    [id |-> id, default |-> default, personas |-> personas, scenes |-> scenes]
Persona(id, public, secrets, forbidden) ==
    [id |-> id, public |-> public, goals |-> {}, secrets |-> secrets,
     forbidden |-> forbidden, private |-> FALSE]
Scene(id, active, summary, gm) ==
    [id |-> id, active |-> active, summary |-> summary, gm |-> gm]

MCIds ==
    "worlds" :> {"demo", "pack"}
    @@ "personas" :> {"archivist", "keeper", "pack-narrator"}
    @@ "scenes" :> {"rose-gallery", "rose_gallery", "the rose", "pack-opening", "pack_opening"}

MCSceneStem == [id \in MCIds["scenes"] |->
    CASE id = "rose-gallery" -> "rose_gallery"
      [] id = "pack-opening" -> "pack_opening"
      [] OTHER -> id]

Demo == World("demo", "rose-gallery", {"archivist"}, {"rose-gallery"})
Archivist == Persona("archivist", {"calm"}, {"thief"}, {})
Gallery == Scene("rose-gallery", {"archivist"}, {"roses"}, {"poison"})

MCCards ==
    "worlds" :> {Demo, World("demo", "rose-gallery", {"archivist", "keeper"}, {"rose-gallery"}),
                 World("demo", "rose-gallery", {"archivist", "keeper"},
                             {"rose-gallery", "the rose"}),
                 World("pack", "pack-opening", {"pack-narrator"}, {"pack-opening"})}
    @@ "personas" :> {Archivist, Persona("keeper", {"thief"}, {"thief"}, {"map"}),
                      Persona("pack-narrator", {"voice"}, {}, {})}
    @@ "scenes" :> {Gallery, Scene("rose_gallery", {"keeper"}, {}, {"poison"}),
                    Scene("the rose", {}, {"roses"}, {}),
                    Scene("pack-opening", {"pack-narrator"}, {"tension"}, {"agenda"})}

Scope(world) == [k \in Kinds |-> IF k = "worlds" THEN world ELSE NoId]
MCListings ==
    {[path |-> "lore.md", scope |-> Scope("demo")], [path |-> "lore.md", scope |-> Scope("pack")],
     [path |-> "map.png", scope |-> Scope(NoId)], [path |-> "up.md", scope |-> Scope(NoId)]}

Stock ==
    [PutCard(PutCard(PutCard(EmptyRoot, "worlds", "demo", Demo),
                     "personas", "archivist", Archivist),
             "scenes", "rose_gallery", Gallery)
     EXCEPT !.docs["lore.md"] = "text", !.docs["map.png"] = "text",
            !.manifest = {[path |-> "lore.md", scope |-> Scope("demo")]}]

\* a second persona and scene, whose id the loader refuses
TwoScenes ==
    PutCard(PutCard(PutCard(Stock, "worlds", "demo",
        World("demo", "rose-gallery", {"archivist", "keeper"}, {"rose-gallery", "the rose"})),
        "personas", "keeper", Persona("keeper", {"thief"}, {"thief"}, {"map"})),
        "scenes", "the rose", Scene("the rose", {}, {"roses"}, {}))

MCRoots == {EmptyRoot, Stock, TwoScenes}
=============================================================================
