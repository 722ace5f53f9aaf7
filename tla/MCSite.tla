------------------------------- MODULE MCSite ------------------------------
(* Model values and bounds for Site.                                       *)
EXTENDS Site

CONSTANT page

OnePage == <<page>>

Seg(kind, name) == [kind |-> kind, name |-> name]

Home == <<>>
GroupedHome == <<Seg("group", "site")>>
Blog == <<Seg("plain", "blog"), Seg("param", "slug")>>

PageDirsModel == {Home, GroupedHome, Blog}
LoaderModel == {Blog}

\* SafeFileName trims underscores: both posts would have the same file.
SlugsModel == {<<"intro">>, <<"_intro">>}
SafeModel == [n \in {"blog", "intro", "_intro"} |-> IF n = "_intro" THEN "intro" ELSE n]
HtmlModel == [n \in {"blog", "intro", "_intro"} |-> n \o ".html"]

\* A home page and one under a name of the blog's, or a file in its place.
PublicModel == {{<<"index.html">>, <<"blog", "_intro.html">>}, {<<"blog">>}}

(* A menu over a library over a reset, which may import the library again; *)
(* an import may be missing from the manifest.                             *)
Chunk(css, imports) == [css : css, imports : imports]

Graphs(m, u, b) ==
    {[c \in {"menu", "ui", "base"} |-> IF c = "menu" THEN x ELSE IF c = "ui" THEN y ELSE z] :
        x \in Chunk({<<>>, <<"s1">>}, m), y \in Chunk({<<"s1">>}, u), z \in Chunk({<<"s1">>, <<"s2">>}, b)}

GraphsModel == {g \in Graphs({<<"ui">>}, {<<"base">>}, {<<>>, <<"ui">>}) : g["menu"].css = <<>>}

ASSUME WalkIsComplete ==
    \A g \in Graphs({<<>>, <<"ui">>, <<"ui", "base">>, <<"base", "ui">>, <<"gone", "ui">>},
                     {<<>>, <<"base">>}, {<<>>, <<"ui">>, <<"gone">>}) :
        \A name \in {"menu", "ui", "gone"} : AssetsComplete(g, name)

PagesModel == {<<"menu", "ui">>, <<"ui", "gone">>}

=============================================================================
