---------------------------- MODULE StaticExport ---------------------------
(***************************************************************************)
(* "irmik build" (internal/build, cmdBuild): the pages of app/ and the     *)
(* posts of content/ become files of out/, a sitemap and seeds of the      *)
(* page cache, which a server then answers from (irmik/router).            *)
(*                                                                         *)
(* A directory of app/ is a sequence of segments; a request path, and a    *)
(* file of public/ or out/, a sequence of names.  A template and a post    *)
(* are the number of their last edit.                                      *)
(***************************************************************************)
EXTENDS Naturals, Sequences, FiniteSets, SequencesExt

CONSTANTS
    PageDirs,       \* directories of app/ that may hold a page.html
    PostSlugs,      \* slugs of the collection of the dynamic routes
    SafeName,       \* SafeFileName, on the names of segments
    Index,          \* the name index.html
    DotHtml,        \* a name with .html after it
    PublicTrees,    \* the sets of files public/ may hold
    WithLoader,     \* directories whose route has a loader
    Listed,         \* those whose _meta.yaml does not keep them from the sitemap
    PageModes,      \* modes their _meta.yaml may give
    Gone,           \* no page, no post
    Broken,         \* a post that does not parse
    Torn,           \* a file that WriteFile has truncated
    Public,         \* what a file of public/ holds
    MaxSiteEdits    \* bound: changes of app/ and content/

Rendered == [dir : PageDirs, slug : PostSlugs \cup {<<>>}, text : Nat, loaded : BOOLEAN]

ASSUME SiteAssumption ==
    /\ PageModes \subseteq {"ssr", "ssg", "isr", "static", "csr", "unknown", "invalid"}
    /\ MaxSiteEdits \in Nat
    /\ Torn \notin Rendered /\ Public \notin Rendered /\ Gone \notin [mode : PageModes, text : Nat]

VARIABLES
    app,            \* app/: the page of each directory
    posts,          \* content/: the post of each slug
    public,         \* public/: its files
    siteEdits,      \* edits so far
    out,            \* the files of out/
    sitemap,        \* sitemap.xml: URLs, and whether each has a file
    seeds,          \* the page cache, which outlives Export and servers
    export          \* the running Export

source == <<app, posts, public, siteEdits>>
files == <<out, sitemap, seeds>>
siteVars == <<source, files, export>>

-----------------------------------------------------------------------------
(* Discover, and the paths of a route.                                     *)

\* FilePathToGin: route groups are no part of the URL.
FilePathToGin(dir) == SelectSeq(dir, LAMBDA s : s.kind # "group")

\* Directories named _x are not walked.
Walked(dir) == \A i \in DOMAIN dir : dir[i].kind # "private"

Dynamic(dir) == \E i \in DOMAIN dir : dir[i].kind \in {"param", "rest"}

Discover == {d \in PageDirs : Walked(d) /\ app[d] # Gone}

\* loadMeta fails on a _meta.yaml or a revalidate that does not parse.
MetaParses == \A d \in Discover : app[d].mode # "invalid"

\* gin panics when a path is registered twice.
Mountable ==
    \A d, e \in Discover : FilePathToGin(d) = FilePathToGin(e) => d = e

\* materializePath: a parameter becomes the slug, which may have slashes.
MaterializePath(dir, slug) ==
    LET url == FilePathToGin(dir) IN
    FlattenSeq([i \in DOMAIN url |->
        IF url[i].kind = "plain" THEN <<url[i].name>> ELSE slug])

\* outPaths: every segment is made safe.
OutPath(path) == Append([i \in DOMAIN path |-> SafeName[path[i]]], Index)

HtmlNames == {Index} \cup {DotHtml[n] : n \in DOMAIN DotHtml}

\* outFileFor: the files that may answer a path, the preferred first.
Candidates(path) ==
    IF path = <<>> THEN <<<<Index>>>>
    ELSE IF Last(path) \in HtmlNames THEN <<path>>
    ELSE <<path, Append(path, Index), Append(Front(path), DotHtml[Last(path)])>>

OutFileFor(path) ==
    LET c == Candidates(path) IN
    {c[i] : i \in {i \in DOMAIN c : /\ c[i] \in DOMAIN out
                                     /\ \A j \in 1 .. i - 1 : c[j] \notin DOMAIN out}}

\* No file can be where another needs a directory.
Fits(file) == \A f \in DOMAIN out : ~IsStrictPrefix(f, file) /\ ~IsStrictPrefix(file, f)

\* content.Load: the files there are.
Load == {s \in PostSlugs : posts[s] # Gone}

\* The collection of ContentPaths, of the files loaded before: any that is
\* not there any more or does not parse empties it.
Slugs(loaded) == IF \E s \in loaded : posts[s] \in {Broken, Gone} THEN {} ELSE loaded

ExpandParams(dir, loaded) == IF Dynamic(dir) THEN Slugs(loaded) ELSE {<<>>}

Exported == {"ssg", "isr", "static", "csr"}

\* renderOne: the template as it is now; unlike a server, without the loader.
RenderOne(dir, slug) ==
    [dir |-> dir, slug |-> slug, text |-> app[dir].text, loaded |-> FALSE]

-----------------------------------------------------------------------------
NoPage == [dir |-> <<>>, mode |-> "none", slug |-> <<>>, body |-> Gone]

SiteInit ==
    /\ app \in [PageDirs -> {Gone} \cup [mode : PageModes, text : {0}]]
    /\ posts \in [PostSlugs -> {0, Gone}]
    /\ public \in PublicTrees
    /\ siteEdits = 0
    /\ out = <<>> /\ sitemap = {} /\ seeds = <<>>
    /\ export = [at |-> "idle", routes |-> {}, slugs |-> {}, page |-> NoPage, urls |-> {},
                 content |-> Gone, unseeded |-> {}, base |-> 0]

(* The author edits pages and posts, also while Export runs.               *)
Edited == siteEdits < MaxSiteEdits /\ siteEdits' = siteEdits + 1 /\ UNCHANGED <<public, files, export>>

EditPage(d) ==
    /\ Edited /\ UNCHANGED posts
    /\ \/ \E m \in PageModes : app' = [app EXCEPT ![d] = [mode |-> m, text |-> siteEdits']]
       \/ app' = [app EXCEPT ![d] = Gone]

EditPost(s) ==
    /\ Edited /\ UNCHANGED app
    /\ \E p \in {0, Broken, Gone} : posts' = [posts EXCEPT ![s] = p]

-----------------------------------------------------------------------------
(* Export                                                                  *)

\* Files, or entries of the cache, of which some are written.
Put(have, paths, what) ==
    [f \in DOMAIN have \cup paths |-> IF f \in paths THEN what ELSE have[f]]

\* cmdBuild mounts the pages before it exports them.
BeginExport ==
    /\ export.at \in {"idle", "done", "failed"} /\ MetaParses /\ Mountable
    /\ export' = [at |-> "public", slugs |-> {}, page |-> NoPage, urls |-> {},
                  content |-> Gone, unseeded |-> {}, base |-> siteEdits,
                  routes |-> {[NoPage EXCEPT !.dir = d, !.mode = app[d].mode] : d \in Discover}]
    /\ UNCHANGED <<source, files>>

At(stage) == export.at = stage /\ UNCHANGED source

\* Any hook, read or write may fail; what was written stays.
ExportFails ==
    /\ \E stage \in {"routes", "pages", "write"} : At(stage)
    /\ export' = [export EXCEPT !.at = "failed"]
    /\ UNCHANGED files

\* variant: the sitemap is written first, from the routes
FaultyCopyPublic ==
    /\ At("public") /\ \A f \in public : Fits(f)
    /\ out' = Put(out, public, Public)
    /\ sitemap' = UNION {{[path |-> MaterializePath(r.dir, s), file |-> r.mode \in Exported] :
                              s \in ExpandParams(r.dir, Load)} : r \in export.routes}
    /\ export' = [export EXCEPT !.at = "routes"] /\ UNCHANGED seeds

CopyPublic ==
    /\ At("public")
    /\ out' = Put(out, public, Public)
    /\ export' = [export EXCEPT !.at = "routes"]
    /\ UNCHANGED <<sitemap, seeds>>

\* A hook, the islands' build or copyDir fails: some files are copied, and
\* the last may be torn.
CopyFails ==
    /\ At("public")
    /\ \E some \in SUBSET {f \in public : Fits(f)} :
          \E torn \in {{}} \cup {{f} : f \in some} :
             out' = Put(Put(out, some, Public), torn, Torn)
    /\ export' = [export EXCEPT !.at = "failed"]
    /\ UNCHANGED <<sitemap, seeds>>

ForSitemap(dir, path, file) ==
    IF dir \in Listed THEN {[path |-> path, file |-> file]} ELSE {}

\* Pages rendered on request are not written; those without a parameter are
\* listed, a catch-all by its pattern.
Skips(r) ==
    /\ At("routes") /\ r \in export.routes /\ r.mode \notin Exported
    /\ export' = [export EXCEPT !.routes = @ \ {r},
                      !.urls = @ \cup IF r.mode = "ssr" /\ \A i \in DOMAIN r.dir : r.dir[i].kind # "param"
                                       THEN ForSitemap(r.dir, MaterializePath(r.dir, <<"*">>), FALSE)
                                       ELSE {}]
    /\ UNCHANGED files

\* The first route with a parameter loads content/ for all of them.
Takes(r) ==
    LET loaded == IF export.content = Gone THEN Load ELSE export.content IN
    /\ At("routes") /\ r \in export.routes /\ r.mode \in Exported
    /\ export' = [export EXCEPT !.at = "pages", !.routes = @ \ {r}, !.page = r,
                                !.content = IF Dynamic(r.dir) THEN loaded ELSE @,
                                !.slugs = ExpandParams(r.dir, loaded)]
    /\ UNCHANGED files

\* renderOne, then WriteFile truncates the file.
Renders(s) ==
    /\ At("pages") /\ s \in export.slugs /\ app[export.page.dir] # Gone
    /\ Fits(OutPath(MaterializePath(export.page.dir, s)))
    /\ out' = Put(out, {OutPath(MaterializePath(export.page.dir, s))}, Torn)
    /\ export' = [export EXCEPT !.at = "write", !.slugs = @ \ {s}, !.page.slug = s,
                                !.page.body = RenderOne(export.page.dir, s)]
    /\ UNCHANGED <<sitemap, seeds>>

\* The page is whole.  An ISR page is also put into the cache: an error is
\* dropped, and what an earlier export or a server put there stays.
Writes ==
    LET path == MaterializePath(export.page.dir, export.page.slug)
        isr == IF export.page.mode = "isr" THEN {path} ELSE {} IN
    /\ At("write")
    /\ out' = Put(out, {OutPath(path)}, export.page.body)
    /\ \E dropped \in {{}, isr} :
          /\ seeds' = Put(seeds, isr \ dropped, export.page.body)
          /\ export' = [export EXCEPT !.at = "pages", !.page.slug = <<>>, !.page.body = Gone,
                            !.unseeded = @ \cup dropped,
                            !.urls = @ \cup ForSitemap(export.page.dir, path, TRUE)]
    /\ UNCHANGED sitemap

NextRoute ==
    /\ At("pages") /\ export.slugs = {}
    /\ export' = [export EXCEPT !.at = "routes", !.page = NoPage]
    /\ UNCHANGED files

\* DefaultSitemap, once every route is done; after_build may fail.
Lists ==
    /\ At("routes") /\ export.routes = {}
    /\ sitemap' = export.urls
    /\ \E end \in {"done", "failed"} : export' = [export EXCEPT !.at = end, !.urls = {}]
    /\ UNCHANGED <<out, seeds>>

Export ==
    \/ BeginExport \/ ExportFails \/ CopyPublic \/ CopyFails \/ Writes \/ NextRoute \/ Lists
    \/ \E r \in export.routes : Skips(r) \/ Takes(r)
    \/ \E s \in export.slugs : Renders(s)

SiteNext ==
    \/ Export
    \/ \E d \in PageDirs : EditPage(d)
    \/ \E s \in PostSlugs : EditPost(s)

SiteSpec == SiteInit /\ [][SiteNext]_siteVars

-----------------------------------------------------------------------------
\* variant: a page that has a file is answered from it, whatever its mode
FaultyAnswers(dir, slug) ==
    LET path == MaterializePath(dir, slug)
        found == {out[f] : f \in OutFileFor(path)} IN
    IF found # {} THEN found ELSE {RenderOne(dir, slug)}

(* A server started over app/, public/, out/ and the cache: what it may    *)
(* answer.  Pages of the modes ssg and static have files; one of the mode  *)
(* isr is in the cache until it expires; any other is rendered.            *)
Answers(dir, slug) ==
    LET path == MaterializePath(dir, slug)
        found == {out[f] : f \in OutFileFor(path)}
        rendered == [RenderOne(dir, slug) EXCEPT !.loaded = dir \in WithLoader]
        mode == app[dir].mode IN
    IF mode \in {"ssg", "static"} /\ found # {} THEN found
    ELSE IF mode = "static" /\ Candidates(path)[1] \in public THEN {Public}
    ELSE IF mode = "isr" /\ path \in DOMAIN seeds THEN {rendered, seeds[path]}
    ELSE {rendered}

Requested == {p \in Discover \X (PostSlugs \cup {<<>>}) : p[2] \in ExpandParams(p[1], Load)}

PathOf(p) == MaterializePath(p[1], p[2])

\* The files there may be in out/, of pages that are gone too.
Taken ==
    (UNION PublicTrees)
        \cup {OutPath(MaterializePath(d, s)) : d \in PageDirs, s \in PostSlugs \cup {<<>>}}

\* No two pages have one file, and each is looked up at its own file before
\* any other there may be.
Distinct ==
    /\ \A p, q \in Requested : p # q => OutPath(PathOf(p)) # OutPath(PathOf(q))
    /\ \A p \in Requested : LET c == Candidates(PathOf(p)) IN
           \A i \in DOMAIN c : c[i] \in Taken => \E j \in 1 .. i : c[j] = OutPath(PathOf(p))

\* Type invariant.
SiteTypes ==
    /\ \A d \in PageDirs : app[d] = Gone \/ app[d] \in [mode : PageModes, text : 0 .. MaxSiteEdits]
    /\ posts \in [PostSlugs -> {0, Broken, Gone}] /\ public \in PublicTrees /\ siteEdits \in 0 .. MaxSiteEdits
    /\ export.at \in {"idle", "public", "routes", "pages", "write", "done", "failed"}
    /\ export.slugs \subseteq PostSlugs \cup {<<>>} /\ export.base \in 0 .. siteEdits
    /\ DOMAIN out \subseteq Taken

(* Whatever failed halfway in this export or an earlier one, every URL of  *)
(* sitemap.xml that is not rendered on request has a file in out/          *)
(* (build.go:131-186).                                                     *)
SitemapHasFiles == \A e \in sitemap : e.file => OutPath(e.path) \in DOMAIN out

(* After an export that succeeded, a server over the same app/ answers     *)
(* every page with the template and the post the request is for: nothing   *)
(* of an earlier, failed or older export is taken for it, whole or not,    *)
(* from out/ or from the cache, unless putting the page into the cache     *)
(* failed in this export, which tells nobody (build.go:131-178,            *)
(* router.go:339-409, 531-553).                                            *)
ExportIsServed ==
    export.at = "done" /\ siteEdits = export.base /\ Distinct =>
        \A p \in Requested : \A answer \in Answers(p[1], p[2]) :
            /\ answer \notin {Torn, Public}
            /\ \/ answer.dir = p[1] /\ answer.slug = p[2] /\ answer.text = app[p[1]].text
               \/ app[p[1]].mode = "isr" /\ PathOf(p) \in export.unseeded

=============================================================================
