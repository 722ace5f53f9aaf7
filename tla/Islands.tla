------------------------------- MODULE Islands -----------------------------
(***************************************************************************)
(* irmik/island: the Manager links the scripts and styles of React islands *)
(* into pages, from the manifest that a Vite build leaves in OutDir.  A    *)
(* build names its files anew, so a file is a chunk's or a style's name    *)
(* with the number of the build.                                           *)
(***************************************************************************)
EXTENDS Naturals, Sequences, FiniteSets, SequencesExt

CONSTANTS
    ChunkGraphs,    \* manifests: each chunk's css and imports
    PageIslands,    \* the sequences of islands that pages name
    PageRenders,    \* goroutines that render pages
    Remounts,       \* goroutines in RemountPages: "irmik dev" may run several
    NoManifest,     \* there is none
    Garbled,        \* it does not parse
    ViteServer,     \* of development: where a Manager with Dev links to
    MaxViteBuilds   \* bound: builds of the islands

Manifests == [build : 1 .. MaxViteBuilds, chunks : ChunkGraphs]

ASSUME IslandAssumption ==
    /\ MaxViteBuilds \in Nat
    /\ \A names \in PageIslands : names \in Seq(STRING) \ {<<>>}
    /\ {NoManifest, ViteServer, Garbled} \cap Manifests = {} /\ NoManifest # ViteServer

VARIABLES
    dist,           \* the manifest in OutDir
    builds,         \* builds so far
    manager,        \* App.Islands: none, with Dev, or the manifest it loaded
    reading,        \* what each ReloadManifest has read
    mount,          \* each render: the islands left and the tags so far
    current,        \* history: the newest build a ReloadManifest has loaded
    overlapped      \* history: whether two ReloadManifest have overlapped

islandVars == <<dist, builds, manager, reading, mount, current, overlapped>>

(* A page being rendered: history says what was current as it began, and   *)
(* whether the manager has kept its manifest since.                        *)
Page(left, floor) == [left |-> left, tags |-> <<>>, floor |-> floor, alone |-> TRUE]

NoMount == Page(<<>>, 0)

Starts ==
    /\ manager' = NoManifest /\ reading' = [r \in Remounts |-> NoManifest]
    /\ mount' = [p \in PageRenders |-> NoMount]
    /\ current' = 0 /\ overlapped' = FALSE

IslandInit ==
    /\ dist = NoManifest /\ builds = 0
    /\ manager = NoManifest /\ reading = [r \in Remounts |-> NoManifest]
    /\ mount = [p \in PageRenders |-> NoMount]
    /\ current = 0 /\ overlapped = FALSE

Loads == dist \notin {NoManifest, Garbled}

-----------------------------------------------------------------------------
(* "npm run build" empties the directory and writes the manifest last; a   *)
(* reader may meet a part of it.                                           *)

Vite(m) == dist' = m /\ UNCHANGED <<manager, reading, mount, current, overlapped>>

ViteEmpties == builds < MaxViteBuilds /\ Vite(NoManifest) /\ builds' = builds + 1

ViteTears == builds > 0 /\ dist = NoManifest /\ Vite(Garbled) /\ UNCHANGED builds

ViteWrites ==
    /\ builds > 0 /\ ~Loads
    /\ \E g \in ChunkGraphs : Vite([build |-> builds, chunks |-> g])
    /\ UNCHANGED builds

-----------------------------------------------------------------------------
\* MountPages: without a manifest the islands come from the Vite server.
MountIslands ==
    /\ manager = NoManifest
    /\ manager' = IF Loads THEN dist ELSE ViteServer
    /\ UNCHANGED <<dist, builds, reading, mount, current, overlapped>>

\* ReloadManifest, from RemountPages: nothing with Dev; an error leaves
\* everything as it was.
ReloadReads(r) ==
    /\ manager \notin {NoManifest, ViteServer} /\ Loads /\ reading[r] = NoManifest
    /\ reading' = [reading EXCEPT ![r] = dist]
    /\ overlapped' = (overlapped \/ \E q \in Remounts : reading[q] # NoManifest)
    /\ UNCHANGED <<dist, builds, manager, mount, current>>

\* What a ReloadManifest that ends with the manager as m means to pages.
Reloaded(r, m) ==
    /\ reading[r] # NoManifest /\ reading' = [reading EXCEPT ![r] = NoManifest]
    /\ manager' = m
    /\ current' = IF reading[r].build > current THEN reading[r].build ELSE current
    /\ mount' = [p \in PageRenders |->
                    IF mount[p] = NoMount THEN NoMount ELSE [mount[p] EXCEPT !.alone = FALSE]]
    /\ UNCHANGED <<dist, builds, overlapped>>

\* variant: a manifest that was loaded is kept
FaultyReloadSets(r) == Reloaded(r, manager)

ReloadSets(r) == Reloaded(r, reading[r])

-----------------------------------------------------------------------------
(* EntryAssets                                                             *)

\* The imports of a chunk that are in the manifest; others are skipped.
Imports(chunks, c) == SelectSeq(chunks[c].imports, LAMBDA imp : imp \in DOMAIN chunks)

Reaches(chunks, entry) ==
    LET from[n \in 0 .. Cardinality(DOMAIN chunks)] ==
            IF n = 0 THEN {entry}
            ELSE from[n - 1] \cup UNION {ToSet(Imports(chunks, c)) : c \in from[n - 1]}
    IN  from[Cardinality(DOMAIN chunks)]

\* There is no set of visited chunks: a cycle is followed without end.
Endless(chunks, entry) ==
    \E c \in Reaches(chunks, entry) : \E imp \in ToSet(Imports(chunks, c)) : c \in Reaches(chunks, imp)

\* The styles of a chunk, then those of its imports in order.
Collect(chunks, entry) ==
    LET css[c \in {c \in DOMAIN chunks : ~Endless(chunks, c)}] ==
            chunks[c].css \o FlattenSeq([i \in DOMAIN Imports(chunks, c) |-> css[Imports(chunks, c)[i]]])
    IN  css[entry]

\* A style met before is not linked again.
Firsts(seq) ==
    FoldLeft(LAMBDA done, s : IF Contains(done, s) THEN done ELSE Append(done, s), <<>>, seq)

\* The tags of an island; one that is not in the manifest has none.
EntryAssets(m, name) ==
    IF m = ViteServer THEN ViteServer
    ELSE IF name \notin DOMAIN m.chunks THEN NoManifest
    ELSE [build |-> m.build, js |-> name, css |-> Firsts(Collect(m.chunks, name))]

RenderBegins(p, names) ==
    /\ manager # NoManifest /\ mount[p] = NoMount
    /\ mount' = [mount EXCEPT ![p] = Page(names, current)]
    /\ UNCHANGED <<dist, builds, manager, reading, current, overlapped>>

Overflows(name) ==
    manager # ViteServer /\ name \in DOMAIN manager.chunks /\ Endless(manager.chunks, name)

\* A page without the tags of an island fails.
Linked(page, tags) ==
    IF tags = NoManifest THEN NoMount
    ELSE [page EXCEPT !.left = Tail(@), !.tags = Append(@, tags)]

\* assetTags, for every island of the page and every name of Scripts: each
\* reads the manifest anew.
Link(p) ==
    /\ mount[p].left # <<>> /\ ~Overflows(Head(mount[p].left))
    /\ mount' = [mount EXCEPT ![p] = Linked(mount[p], EntryAssets(manager, Head(mount[p].left)))]
    /\ UNCHANGED <<dist, builds, manager, reading, current, overlapped>>

\* The stack overflows, which no handler recovers from: the process ends.
Crash(p) ==
    /\ mount[p].left # <<>> /\ Overflows(Head(mount[p].left))
    /\ Starts /\ UNCHANGED <<dist, builds>>

\* The page is sent.
Sent(p) ==
    /\ mount[p] # NoMount /\ mount[p].left = <<>> /\ mount' = [mount EXCEPT ![p] = NoMount]
    /\ UNCHANGED <<dist, builds, manager, reading, current, overlapped>>

IslandNext ==
    \/ ViteEmpties \/ ViteTears \/ ViteWrites \/ MountIslands
    \/ \E r \in Remounts : ReloadReads(r) \/ ReloadSets(r)
    \/ \E p \in PageRenders :
          Link(p) \/ Crash(p) \/ Sent(p) \/ \E names \in PageIslands : RenderBegins(p, names)

IslandSpec == IslandInit /\ [][IslandNext]_islandVars

-----------------------------------------------------------------------------
\* Type invariant.
IslandTypes ==
    /\ builds \in 0 .. MaxViteBuilds /\ current \in 0 .. builds /\ overlapped \in BOOLEAN
    /\ dist \in {NoManifest, Garbled} \cup Manifests
    /\ manager \in {NoManifest, ViteServer} \cup Manifests
    /\ reading \in [Remounts -> {NoManifest} \cup Manifests]
    /\ \A p \in PageRenders : mount[p].floor \in 0 .. current /\ mount[p].alone \in BOOLEAN

(* While Vite builds, pages are rendered and manifests reloaded: the       *)
(* islands of a page are of one build unless a ReloadManifest ended while  *)
(* it was rendered, and, where no two ReloadManifest overlapped, never of  *)
(* a build older than one that a ReloadManifest had loaded before the page *)
(* began (island.go:146-160, 225-283).                                     *)
LinksAreCurrent ==
    \A p \in PageRenders : LET tags == mount[p].tags IN
        \A i, j \in DOMAIN tags : ViteServer \notin {tags[i], tags[j]} =>
            /\ mount[p].alone => tags[i].build = tags[j].build
            /\ ~overlapped => tags[i].build >= mount[p].floor

-----------------------------------------------------------------------------
(* Of EntryAssets: where it ends, the tags have the styles of every chunk  *)
(* the script loads, each once (manifest.go:127-162).                      *)
AssetsComplete(chunks, name) ==
    LET tags == EntryAssets([build |-> 1, chunks |-> chunks], name) IN
    name \in DOMAIN chunks /\ ~Endless(chunks, name) =>
        /\ IsInjective(tags.css)
        /\ ToSet(tags.css) = UNION {ToSet(chunks[c].css) : c \in Reaches(chunks, name)}

=============================================================================
