------------------------------ MODULE SiteProofs ---------------------------
(***************************************************************************)
(* Proofs about how pages come about, for any pages, posts, templates,     *)
(* tabs and edits: the templates "irmik dev" reloads, the export of        *)
(* "irmik build", and the islands' manifest.                               *)
(***************************************************************************)
EXTENDS Site, TLAPS

(***************************************************************************)
(* The export: its state.                                                  *)
(***************************************************************************)
Slugged == PostSlugs \cup {<<>>}

PageRecords == [dir : PageDirs \cup {<<>>}, mode : PageModes \cup {"none"}, slug : Slugged,
                body : Rendered \cup {Gone}]

RouteRecords == [dir : PageDirs, mode : PageModes, slug : {<<>>}, body : {Gone}]

Sources ==
    /\ \A d \in PageDirs : app[d] = Gone \/ app[d] \in [mode : PageModes, text : Nat]
    /\ DOMAIN app = PageDirs
    /\ siteEdits \in Nat
    /\ public \in PublicTrees

Exporting(a, r, s, p, u, c, n, b) ==
    [at |-> a, routes |-> r, slugs |-> s, page |-> p, urls |-> u, content |-> c, unseeded |-> n,
     base |-> b]

ExportTypes ==
    /\ export = Exporting(export.at, export.routes, export.slugs, export.page, export.urls,
                          export.content, export.unseeded, export.base)
    /\ export.routes \subseteq RouteRecords
    /\ export.slugs \subseteq Slugged
    /\ export.content = Gone \/ export.content \subseteq PostSlugs
    /\ export.page \in PageRecords
    /\ export.at \in {"pages", "write"} => export.page.dir \in PageDirs
    /\ export.at = "write" => export.page.body \in Rendered
    /\ export.base \in Nat /\ export.base <= siteEdits

SiteShape == Sources /\ ExportTypes

(* A site starts with a shape.                                             *)
LEMMA ShapeInit ==
    ASSUME SiteInit PROVE SiteShape
  <1>1. Sources
    BY SiteAssumption DEF SiteInit, Sources
  <1>2. ExportTypes
    BY DEF SiteInit, ExportTypes, PageRecords, NoPage, Slugged, Exporting
  <1>3. QED
    BY <1>1, <1>2 DEF SiteShape

(* The author edits; an export reads.                                      *)
LEMMA SourcesStep ==
    ASSUME Sources, [SiteNext]_siteVars
    PROVE  /\ Sources'
           /\ UNCHANGED source \/ (UNCHANGED <<files, export>> /\ siteEdits' = siteEdits + 1)
  <1>1. ASSUME NEW d \in PageDirs, EditPage(d)
        PROVE  Sources' /\ UNCHANGED <<files, export>> /\ siteEdits' = siteEdits + 1
    BY <1>1 DEF EditPage, Edited, Sources
  <1>2. ASSUME NEW s \in PostSlugs, EditPost(s)
        PROVE  Sources' /\ UNCHANGED <<files, export>> /\ siteEdits' = siteEdits + 1
    BY <1>2 DEF EditPost, Edited, Sources
  <1>3. CASE UNCHANGED siteVars
    BY <1>3 DEF siteVars, source, Sources
  <1>4. CASE Export
    <2>1. UNCHANGED source
      BY <1>4 DEF Export, BeginExport, ExportFails, CopyPublic, CopyFails, Writes, NextRoute, Lists,
                  Skips, Takes, Renders, At
    <2>2. QED
      BY <2>1 DEF source, Sources
  <1>5. QED
    BY <1>1, <1>2, <1>3, <1>4 DEF SiteNext

(* What is rendered of a page is a rendered page.                          *)
LEMMA RenderedIs ==
    ASSUME Sources, NEW d \in PageDirs, app[d] # Gone, NEW s \in Slugged
    PROVE  RenderOne(d, s) \in Rendered
  BY DEF Sources, RenderOne, Rendered, Slugged

(* Every step of the author and of an export keeps the shape.              *)
LEMMA TypesStep ==
    ASSUME SiteShape, [SiteNext]_siteVars PROVE SiteShape'
  <1> USE DEF SiteShape
  <1>0. Sources' /\ siteEdits' \in Nat /\ siteEdits <= siteEdits' /\ siteEdits \in Nat
    BY SourcesStep DEF Sources, source
  <1>1. CASE export' = export
    BY <1>0, <1>1 DEF ExportTypes
  <1>2. CASE BeginExport
    <2>1. \A d \in Discover : [NoPage EXCEPT !.dir = d, !.mode = app[d].mode] \in RouteRecords
      BY DEF Discover, NoPage, RouteRecords, Sources
    <2>2. NoPage \in PageRecords
      BY DEF NoPage, PageRecords, Slugged
    <2>3. QED
      BY <1>0, <1>2, <2>1, <2>2 DEF BeginExport, ExportTypes, source, Exporting
  <1>3. CASE ExportFails
    BY <1>0, <1>3 DEF ExportFails, ExportTypes, At, Exporting
  <1>4. CASE CopyPublic \/ CopyFails
    BY <1>0, <1>4 DEF CopyPublic, CopyFails, ExportTypes, At, Exporting
  <1>5. ASSUME NEW r, Skips(r) PROVE SiteShape'
    <2>1. PICK u : export' = [export EXCEPT !.routes = @ \ {r}, !.urls = u]
      BY <1>5 DEF Skips
    <2>2. export.at = "routes"
      BY <1>5 DEF Skips, At
    <2>3. export' = Exporting("routes", export.routes \ {r}, export.slugs, export.page, u,
                              export.content, export.unseeded, export.base)
      BY <2>1, <2>2 DEF ExportTypes, Exporting
    <2>4. QED
      BY <1>0, <2>2, <2>3 DEF ExportTypes, Exporting
  <1>6. ASSUME NEW r, Takes(r) PROVE SiteShape'
    <2>1. PICK loaded : /\ loaded = (IF export.content = Gone THEN Load ELSE export.content)
                        /\ export' = [export EXCEPT !.at = "pages", !.routes = @ \ {r}, !.page = r,
                                         !.content = IF Dynamic(r.dir) THEN loaded ELSE @,
                                         !.slugs = ExpandParams(r.dir, loaded)]
      BY <1>6 DEF Takes
    <2>2. r \in export.routes
      BY <1>6 DEF Takes
    <2>3. r \in PageRecords /\ r.dir \in PageDirs
      BY <2>2 DEF ExportTypes, RouteRecords, PageRecords, Slugged
    <2>4. loaded \subseteq PostSlugs
      BY <2>1 DEF ExportTypes, Load
    <2>5. ExpandParams(r.dir, loaded) \subseteq Slugged
      BY <2>4 DEF ExpandParams, Slugs, Slugged
    <2>6. export' = Exporting("pages", export.routes \ {r}, ExpandParams(r.dir, loaded), r,
                              export.urls, export'.content, export.unseeded, export.base)
          /\ export'.content \in {loaded, export.content}
      BY <2>1 DEF ExportTypes, Exporting
    <2>7. QED
      BY <1>0, <2>6, <2>3, <2>4, <2>5 DEF ExportTypes, Exporting
  <1>7. ASSUME NEW s, Renders(s) PROVE SiteShape'
    <2>1. s \in Slugged /\ export.page.dir \in PageDirs /\ app[export.page.dir] # Gone
      BY <1>7 DEF Renders, At, ExportTypes
    <2>2. RenderOne(export.page.dir, s) \in Rendered
      BY <2>1, RenderedIs
    <2>3. PICK pg : /\ pg = [export.page EXCEPT !.slug = s, !.body = RenderOne(export.page.dir, s)]
                    /\ export' = [export EXCEPT !.at = "write", !.slugs = @ \ {s}, !.page = pg]
      BY <1>7 DEF Renders, ExportTypes, PageRecords
    <2>4. pg \in PageRecords /\ pg.dir = export.page.dir /\ pg.body \in Rendered
      BY <2>1, <2>2, <2>3 DEF ExportTypes, PageRecords
    <2>5. export' = Exporting("write", export.routes, export.slugs \ {s}, pg, export.urls,
                              export.content, export.unseeded, export.base)
      BY <2>3 DEF ExportTypes, Exporting
    <2>6. QED
      BY <1>0, <2>1, <2>4, <2>5 DEF ExportTypes, Exporting
  <1>8. CASE Writes
    <2>0. PICK u, n : export' = [export EXCEPT !.at = "pages", !.page.slug = <<>>, !.page.body = Gone,
                                               !.unseeded = n, !.urls = u]
      BY <1>8 DEF Writes
    <2>1. PICK pg : /\ pg = [export.page EXCEPT !.slug = <<>>, !.body = Gone]
                    /\ export' = [export EXCEPT !.at = "pages", !.page = pg, !.unseeded = n, !.urls = u]
      BY <2>0 DEF ExportTypes, PageRecords
    <2>2. export.at = "write"
      BY <1>8 DEF Writes, At
    <2>3. pg \in PageRecords /\ pg.dir = export.page.dir
      BY <2>1 DEF ExportTypes, PageRecords, Slugged
    <2>4. export' = Exporting("pages", export.routes, export.slugs, pg, u, export.content,
                              n, export.base)
      BY <2>1 DEF ExportTypes, Exporting
    <2>5. QED
      BY <1>0, <2>2, <2>3, <2>4 DEF ExportTypes, Exporting
  <1>9. CASE NextRoute
    <2>1. NoPage \in PageRecords
      BY DEF NoPage, PageRecords, Slugged
    <2>2. export' = Exporting("routes", export.routes, export.slugs, NoPage, export.urls,
                              export.content, export.unseeded, export.base)
      BY <1>9 DEF NextRoute, ExportTypes, Exporting
    <2>3. QED
      BY <1>0, <2>1, <2>2 DEF ExportTypes, Exporting
  <1>10. CASE Lists
    <2>1. PICK end \in {"done", "failed"} :
              export' = Exporting(end, export.routes, export.slugs, export.page, {},
                                  export.content, export.unseeded, export.base)
      BY <1>10 DEF Lists, ExportTypes, Exporting
    <2>2. QED
      BY <1>0, <2>1 DEF ExportTypes, Exporting
  <1>11. CASE UNCHANGED siteVars \/ (\E d \in PageDirs : EditPage(d)) \/ (\E s \in PostSlugs : EditPost(s))
    BY <1>1, <1>11 DEF siteVars, EditPage, EditPost, Edited
  <1>12. QED
    BY <1>2, <1>3, <1>4, <1>5, <1>6, <1>7, <1>8, <1>9, <1>10, <1>11 DEF SiteNext, Export

(***************************************************************************)
(* The sitemap: what it names, or is going to name, is there.              *)
(***************************************************************************)
Named(e) == e.file => OutPath(e.path) \in DOMAIN out

MapInv == \A e \in sitemap \cup export.urls : Named(e)

(* The sitemap and the URLs grow by files that are there.                  *)
LEMMA MapGrows ==
    ASSUME MapInv, DOMAIN out \subseteq DOMAIN out', NEW more,
           \A e \in more : e.file => OutPath(e.path) \in DOMAIN out',
           sitemap' \cup export'.urls \subseteq sitemap \cup export.urls \cup more
    PROVE  MapInv'
  <1>1. SUFFICES ASSUME NEW e \in sitemap' \cup export'.urls PROVE Named(e)'
    BY DEF MapInv
  <1>2. CASE e \in more
    BY <1>2 DEF Named
  <1>3. CASE e \in sitemap \cup export.urls
    BY <1>3 DEF MapInv, Named
  <1>4. QED
    BY <1>2, <1>3

(* Every step keeps the sitemap and the URLs to files that are there.      *)
LEMMA MapStep ==
    ASSUME MapInv, SiteShape, [SiteNext]_siteVars PROVE MapInv'
  <1> USE DEF SiteShape
  <1>1. ASSUME DOMAIN out \subseteq DOMAIN out', sitemap' = sitemap, export'.urls = export.urls
        PROVE  MapInv'
    BY <1>1 DEF MapInv, Named
  <1>2. CASE UNCHANGED <<files, export>>
    BY <1>1, <1>2 DEF files
  <1>3. CASE BeginExport
    <2>1. export'.urls = {} /\ out' = out /\ sitemap' = sitemap
      BY <1>3 DEF BeginExport, files
    <2>2. QED
      BY <2>1, MapGrows
  <1>4. CASE ExportFails
    BY <1>1, <1>4 DEF ExportFails, files, ExportTypes, Exporting
  <1>5. CASE CopyPublic \/ CopyFails
    <2>1. DOMAIN out \subseteq DOMAIN out'
      BY <1>5 DEF CopyPublic, CopyFails, Put
    <2>2. QED
      BY <1>1, <1>5, <2>1 DEF CopyPublic, CopyFails, ExportTypes, Exporting
  <1>6. ASSUME NEW r, Skips(r) PROVE MapInv'
    <2>1. UNCHANGED <<out, sitemap>>
      BY <1>6 DEF Skips, files
    <2>2. PICK more : /\ export' = [export EXCEPT !.routes = @ \ {r}, !.urls = @ \cup more]
                      /\ more \in {{}, ForSitemap(r.dir, MaterializePath(r.dir, <<"*">>), FALSE)}
      BY <1>6 DEF Skips
    <2>3. export'.urls = export.urls \cup more
      BY <2>2 DEF ExportTypes, Exporting
    <2>4. \A e \in more : ~e.file
      BY <2>2 DEF ForSitemap
    <2>5. QED
      BY <2>1, <2>3, <2>4, MapGrows
  <1>7. ASSUME NEW r, Takes(r) PROVE MapInv'
    BY <1>1, <1>7 DEF Takes, files, ExportTypes, Exporting
  <1>8. ASSUME NEW s, Renders(s) PROVE MapInv'
    <2>1. DOMAIN out \subseteq DOMAIN out' /\ sitemap' = sitemap
      BY <1>8 DEF Renders, Put
    <2>2. export'.urls = export.urls
      BY <1>8 DEF Renders, ExportTypes, Exporting
    <2>3. QED
      BY <1>1, <2>1, <2>2
  <1>9. CASE Writes
    <2>1. PICK path : path = MaterializePath(export.page.dir, export.page.slug)
      OBVIOUS
    <2>2. PICK more : more = ForSitemap(export.page.dir, path, TRUE)
      OBVIOUS
    <2>3. /\ sitemap' = sitemap /\ out' = Put(out, {OutPath(path)}, export.page.body)
          /\ \E n : export' = [export EXCEPT !.at = "pages", !.page.slug = <<>>, !.page.body = Gone,
                                             !.unseeded = @ \cup n, !.urls = @ \cup more]
      BY <1>9, <2>1, <2>2 DEF Writes
    <2>4. export'.urls = export.urls \cup more
      BY <2>3 DEF ExportTypes, Exporting
    <2>5. DOMAIN out \subseteq DOMAIN out' /\ OutPath(path) \in DOMAIN out'
      BY <2>3 DEF Put
    <2>6. \A e \in more : e.path = path
      BY <2>2 DEF ForSitemap
    <2>7. QED
      BY <2>3, <2>4, <2>5, <2>6, MapGrows
  <1>10. CASE NextRoute
    BY <1>1, <1>10 DEF NextRoute, files, ExportTypes, Exporting
  <1>11. CASE Lists
    <2>1. sitemap' = export.urls /\ out' = out
      BY <1>11 DEF Lists
    <2>2. export'.urls = {}
      BY <1>11 DEF Lists, ExportTypes, Exporting
    <2>3. QED
      BY <2>1, <2>2, MapGrows
  <1>12. CASE UNCHANGED siteVars \/ (\E d \in PageDirs : EditPage(d)) \/ (\E s \in PostSlugs : EditPost(s))
    BY <1>2, <1>12 DEF siteVars, EditPage, EditPost, Edited
  <1>13. QED
    BY <1>3, <1>4, <1>5, <1>6, <1>7, <1>8, <1>9, <1>10, <1>11, <1>12 DEF SiteNext, Export

(* Whatever failed halfway in this export or an earlier one, every URL of  *)
(* sitemap.xml that is not rendered on request has a file in out/, for any *)
(* site and any number of edits and exports (build.go:131-186).            *)
THEOREM SitemapIsServed == SiteSpec => []SitemapHasFiles
  <1> DEFINE I == SiteShape /\ MapInv
  <1>1. SiteInit => I
    BY ShapeInit DEF SiteInit, MapInv
  <1>2. I /\ [SiteNext]_siteVars => I'
    BY TypesStep, MapStep
  <1>3. I => SitemapHasFiles
    BY DEF MapInv, Named, SitemapHasFiles
  <1>4. QED
    BY <1>1, <1>2, <1>3, PTL DEF SiteSpec

(***************************************************************************)
(* What an export that is not overtaken by an edit has written.            *)
(***************************************************************************)
FileOf(p) == OutPath(PathOf(p))

(* A page the export still has to render, or whose file it has open.       *)
Pending(p) ==
    \/ \E r \in export.routes : r.dir = p[1]
    \/ export.at \in {"pages", "write"} /\ export.page.dir = p[1] /\ p[2] \in export.slugs
    \/ export.at = "write" /\ export.page.dir = p[1] /\ p[2] = export.page.slug

\* Its entry of the cache, unless it has none or this export could not set it.
Seeded(p) ==
    app[p[1]].mode = "isr" /\ PathOf(p) \in DOMAIN seeds \ export.unseeded =>
        seeds[PathOf(p)] = RenderOne(p[1], p[2])

Holds(p) == FileOf(p) \in DOMAIN out /\ out[FileOf(p)] = RenderOne(p[1], p[2]) /\ Seeded(p)

Written == \A p \in Requested : app[p[1]].mode \in Exported => Pending(p) \/ Holds(p)

(* The export goes by app/ and content/ as they are.                       *)
Underway ==
    /\ \A r \in export.routes : r.dir \in Discover /\ r.mode = app[r.dir].mode
    /\ export.at = "public" => \A d \in Discover : \E r \in export.routes : r.dir = d
    /\ export.content \in {Gone, Load}
    /\ export.at \in {"pages", "write"} => /\ export.page.dir \in Discover
                                           /\ export.page.mode = app[export.page.dir].mode
                                           /\ export.slugs \subseteq ExpandParams(export.page.dir, Load)
    /\ export.at = "write" => /\ export.page.slug \in ExpandParams(export.page.dir, Load)
                              /\ export.page.body = RenderOne(export.page.dir, export.page.slug)
    /\ export.at = "done" => export.routes = {}

(* Every file of out/ was copied from public/ or is a page's, and what is  *)
(* in the cache is a page.                                                 *)
Safe ==
    /\ DOMAIN out \subseteq Taken
    /\ \A path \in DOMAIN seeds : seeds[path] \in Rendered

Exports == export.at \in {"public", "routes", "pages", "write", "done"} /\ siteEdits = export.base

ExportInv == Safe /\ (Exports => Underway /\ (Distinct => Written))

(* A page that has its file is looked up there.                            *)
LEMMA FoundAtOwn ==
    ASSUME Safe, Distinct, NEW p \in Requested, FileOf(p) \in DOMAIN out
    PROVE  /\ \A f \in OutFileFor(PathOf(p)) : f = FileOf(p)
           /\ Candidates(PathOf(p))[1] \in Taken => OutFileFor(PathOf(p)) # {}
  <1>1. PICK c : c = Candidates(PathOf(p))
    OBVIOUS
  <1>2. DOMAIN c \in {1 .. 1, 1 .. 3}
    BY <1>1 DEF Candidates
  <1>3. \A i \in DOMAIN c : c[i] \in Taken => \E j \in 1 .. i : c[j] = FileOf(p)
    BY <1>1 DEF Distinct, FileOf
  <1>4. OutFileFor(PathOf(p)) =
            {c[i] : i \in {i \in DOMAIN c : /\ c[i] \in DOMAIN out
                                            /\ \A j \in 1 .. i - 1 : c[j] \notin DOMAIN out}}
    BY <1>1 DEF OutFileFor
  <1>5. ASSUME NEW f \in OutFileFor(PathOf(p)) PROVE f = FileOf(p)
    <2>1. PICK i \in DOMAIN c : /\ f = c[i] /\ c[i] \in DOMAIN out
                                /\ \A j \in 1 .. i - 1 : c[j] \notin DOMAIN out
      BY <1>4, <1>5
    <2>2. PICK j \in 1 .. i : c[j] = FileOf(p)
      BY <1>3, <2>1 DEF Safe
    <2>3. j \notin 1 .. i - 1
      BY <2>1, <2>2
    <2>4. j = i
      BY <1>2, <2>2, <2>3
    <2>5. QED
      BY <2>1, <2>2, <2>4
  <1>6. ASSUME c[1] \in Taken PROVE OutFileFor(PathOf(p)) # {}
    <2>1. 1 \in DOMAIN c
      BY <1>2
    <2>2. c[1] = FileOf(p)
      BY <1>3, <1>6, <2>1
    <2>3. c[1] \in OutFileFor(PathOf(p))
      BY <1>4, <2>1, <2>2
    <2>4. QED
      BY <2>3
  <1>7. QED
    BY <1>1, <1>5, <1>6

(* What is answered is what the request is for.                            *)
LEMMA ExportServes ==
    ASSUME SiteShape, ExportInv PROVE ExportIsServed
  <1>1. SUFFICES ASSUME export.at = "done", siteEdits = export.base, Distinct,
                        NEW p \in Requested, NEW answer \in Answers(p[1], p[2])
                 PROVE  /\ answer \notin {Torn, Public}
                        /\ \/ answer.dir = p[1] /\ answer.slug = p[2] /\ answer.text = app[p[1]].text
                           \/ app[p[1]].mode = "isr" /\ PathOf(p) \in export.unseeded
    BY DEF ExportIsServed
  <1>2. PICK d \in Discover, s \in Slugged : p = <<d, s>> /\ s \in ExpandParams(d, Load)
    BY DEF Requested, Slugged
  <1>3. d \in PageDirs /\ app[d] # Gone /\ app[d] \in [mode : PageModes, text : Nat]
    BY <1>2 DEF Discover, SiteShape, Sources
  <1>4. PICK one : one = RenderOne(d, s)
    OBVIOUS
  <1>5. one \in Rendered /\ one.dir = d /\ one.slug = s /\ one.text = app[d].text
    BY <1>3, <1>4, RenderedIs DEF SiteShape, RenderOne
  <1>a. PICK loaded \in BOOLEAN : loaded <=> d \in WithLoader
    OBVIOUS
  <1>6. PICK live : live = [one EXCEPT !.loaded = loaded]
    OBVIOUS
  <1>7. live \in Rendered /\ live.dir = d /\ live.slug = s /\ live.text = app[d].text
    BY <1>5, <1>6 DEF Rendered
  <1>8. PICK found : found = {out[f] : f \in OutFileFor(PathOf(p))}
    OBVIOUS
  <1>9. PICK path : path = PathOf(p) /\ path = MaterializePath(d, s)
    BY <1>2 DEF PathOf
  <1>10. PICK mode : mode = app[d].mode
    OBVIOUS
  <1>11. answer \in (IF mode \in {"ssg", "static"} /\ found # {} THEN found
                     ELSE IF mode = "static" /\ Candidates(path)[1] \in public THEN {Public}
                     ELSE IF mode = "isr" /\ path \in DOMAIN seeds THEN {live, seeds[path]}
                     ELSE {live})
    BY <1>1, <1>2, <1>4, <1>6, <1>8, <1>9, <1>10, <1>a DEF Answers
  <1>12. Safe /\ Underway /\ Written
    BY <1>1 DEF ExportInv, Exports
  <1>13. mode \in Exported => Holds(p)
    <2>1. export.routes = {}
      BY <1>1, <1>12 DEF Underway
    <2>2. ~Pending(p)
      BY <1>1, <2>1 DEF Pending
    <2>3. QED
      BY <1>2, <1>10, <1>12, <2>2 DEF Written
  <1>14. CASE mode \in {"ssg", "static"}
    <2>1. Holds(p)
      BY <1>13, <1>14 DEF Exported
    <2>2. FileOf(p) \in DOMAIN out /\ out[FileOf(p)] = one
      BY <1>2, <1>4, <2>1 DEF Holds
    <2>3. \A f \in OutFileFor(PathOf(p)) : f = FileOf(p)
      BY <1>1, <1>12, <2>2, FoundAtOwn
    <2>4. found \subseteq {one}
      BY <1>8, <2>2, <2>3
    <2>5. Candidates(path)[1] \in public => found # {}
      <3>1. public \subseteq Taken
        BY DEF Taken, SiteShape, Sources
      <3>2. QED
        BY <1>1, <1>8, <1>9, <1>12, <2>2, <3>1, FoundAtOwn
    <2>6. answer \in {one, live}
      BY <1>11, <1>14, <2>4, <2>5
    <2>7. QED
      BY <1>2, <1>5, <1>7, <2>6, SiteAssumption
  <1>15. CASE mode = "isr" /\ path \in DOMAIN seeds
    <2>1. answer \in {live, seeds[path]}
      BY <1>11, <1>15
    <2>2. seeds[path] \in Rendered
      BY <1>12, <1>15 DEF Safe
    <2>3. answer \notin {Torn, Public}
      BY <1>7, <2>1, <2>2, SiteAssumption
    <2>4. path \notin export.unseeded => seeds[path] = one
      BY <1>2, <1>4, <1>9, <1>10, <1>13, <1>15 DEF Holds, Seeded, Exported
    <2>5. QED
      BY <1>2, <1>5, <1>7, <1>9, <1>10, <1>15, <2>1, <2>3, <2>4
  <1>16. CASE mode \notin {"ssg", "static"} /\ ~(mode = "isr" /\ path \in DOMAIN seeds)
    <2>1. answer = live
      BY <1>11, <1>16
    <2>2. QED
      BY <1>2, <1>7, <2>1, SiteAssumption
  <1>17. QED
    BY <1>14, <1>15, <1>16

(* An export writes copies of public/ and files of pages only.             *)
LEMMA SafeStep ==
    ASSUME SiteShape, Safe, [SiteNext]_siteVars PROVE Safe'
  <1>1. CASE out' = out /\ seeds' = seeds
    BY <1>1 DEF Safe
  <1>2. CASE CopyPublic \/ CopyFails
    <2>1. \A f \in DOMAIN out' : f \in DOMAIN out \/ f \in public
      <3>1. CASE CopyPublic
        BY <3>1 DEF CopyPublic, Put
      <3>2. CASE CopyFails
        <4>1. PICK some \in SUBSET {f \in public : Fits(f)} : \E torn \in {{}} \cup {{f} : f \in some} :
                  out' = Put(Put(out, some, Public), torn, Torn)
          BY <3>2 DEF CopyFails
        <4>2. PICK torn : torn \subseteq some /\ out' = Put(Put(out, some, Public), torn, Torn)
          BY <4>1
        <4>3. DOMAIN out' = DOMAIN out \cup some \cup torn
          BY <4>2 DEF Put
        <4>4. QED
          BY <4>2, <4>3
      <3>3. QED
        BY <1>2, <3>1, <3>2
    <2>2. public \subseteq Taken
      BY DEF Taken, SiteShape, Sources
    <2>3. seeds' = seeds
      BY <1>2 DEF CopyPublic, CopyFails
    <2>4. QED
      BY <2>1, <2>2, <2>3 DEF Safe
  <1>3. ASSUME NEW d \in PageDirs, NEW s \in Slugged, NEW x,
               out' = Put(out, {OutPath(MaterializePath(d, s))}, x)
        PROVE  DOMAIN out' \subseteq Taken
    <2>1. \A f \in DOMAIN out' : f \in DOMAIN out \/ f = OutPath(MaterializePath(d, s))
      BY <1>3 DEF Put
    <2>2. PICK file : file = OutPath(MaterializePath(d, s))
      OBVIOUS
    <2>3. file \in Taken
      BY <2>2 DEF Taken, Slugged
    <2>4. QED
      BY <2>1, <2>2, <2>3 DEF Safe
  <1>4. ASSUME NEW s, Renders(s) PROVE Safe'
    <2>1. DOMAIN out' \subseteq Taken /\ seeds' = seeds
      BY <1>3, <1>4 DEF Renders, At, SiteShape, ExportTypes
    <2>2. QED
      BY <2>1 DEF Safe
  <1>5. CASE Writes
    <2>1. /\ export.page.dir \in PageDirs /\ export.page.slug \in Slugged
          /\ export.page.body \in Rendered
      BY <1>5 DEF Writes, At, SiteShape, ExportTypes, PageRecords
    <2>2. DOMAIN out' \subseteq Taken
      BY <1>3, <1>5, <2>1 DEF Writes
    <2>3. PICK some : seeds' = Put(seeds, some, export.page.body)
      BY <1>5 DEF Writes
    <2>4. \A path \in DOMAIN seeds' : seeds'[path] \in Rendered
      BY <2>1, <2>3 DEF Put, Safe
    <2>5. QED
      BY <2>2, <2>4 DEF Safe
  <1>6. QED
    BY <1>1, <1>2, <1>4, <1>5
       DEF SiteNext, Export, siteVars, files, BeginExport, ExportFails, NextRoute, Lists, Skips, Takes,
           EditPage, EditPost, Edited

(* While nothing is edited, what is asked of an export stays.              *)
LEMMA Unmoved ==
    ASSUME UNCHANGED source
    PROVE  /\ app' = app /\ siteEdits' = siteEdits
           /\ Discover' = Discover /\ Load' = Load /\ Requested' = Requested
           /\ Distinct' <=> Distinct
           /\ \A d, s : RenderOne(d, s)' = RenderOne(d, s)
           /\ \A d, loaded : ExpandParams(d, loaded)' = ExpandParams(d, loaded)
  <1>1. app' = app /\ posts' = posts /\ siteEdits' = siteEdits
    BY DEF source
  <1>2. Discover' = Discover /\ Load' = Load
    BY <1>1 DEF Discover, Load
  <1>3. \A d, loaded : ExpandParams(d, loaded)' = ExpandParams(d, loaded)
    BY <1>1 DEF ExpandParams, Slugs
  <1>4. Requested' = Requested
    BY <1>2, <1>3 DEF Requested
  <1>5. Distinct' <=> Distinct
    BY <1>4 DEF Distinct
  <1>6. \A d, s : RenderOne(d, s)' = RenderOne(d, s)
    BY <1>1 DEF RenderOne
  <1>7. QED
    BY <1>1, <1>2, <1>3, <1>4, <1>5, <1>6

(* A page stays pending or held.                                           *)
LEMMA WrittenStays ==
    ASSUME UNCHANGED source, Written,
           \A p \in Requested : app[p[1]].mode \in Exported /\ Pending(p) => Pending(p)' \/ Holds(p)',
           \A p \in Requested : app[p[1]].mode \in Exported /\ Holds(p) => Pending(p)' \/ Holds(p)'
    PROVE  Written'
  BY Unmoved DEF Written

(* A file that is not written over stays.                                  *)
LEMMA HoldsStays ==
    ASSUME UNCHANGED source, NEW p, Holds(p), NEW f, NEW x, out' = Put(out, {f}, x), FileOf(p) # f,
           Seeded(p)'
    PROVE  Holds(p)'
  BY Unmoved DEF Holds, Put

(* The cache is the same, and no more of it is known to be old.            *)
LEMMA SeededStays ==
    ASSUME UNCHANGED source, NEW p, Holds(p), seeds' = seeds, export'.unseeded = export.unseeded
    PROVE  Seeded(p)'
  BY Unmoved DEF Holds, Seeded

(* Nothing is written.                                                     *)
LEMMA HoldsSame ==
    ASSUME UNCHANGED <<source, files>>, NEW p, Holds(p), export'.unseeded = export.unseeded
    PROVE  Holds(p)'
  BY Unmoved, SeededStays DEF Holds, files

(* An export begins with every page still to be rendered.                  *)
LEMMA BeginsUnderway ==
    ASSUME SiteShape, BeginExport PROVE Underway' /\ Written'
  <1>1. UNCHANGED source
    BY DEF BeginExport
  <1>2. PICK rs : rs = {[NoPage EXCEPT !.dir = d, !.mode = app[d].mode] : d \in Discover}
    OBVIOUS
  <1>3. export'.at = "public" /\ export'.content = Gone /\ export'.routes = rs
    BY <1>2 DEF BeginExport
  <1> DEFINE route(d) == [NoPage EXCEPT !.dir = d, !.mode = app[d].mode]
  <1>a. \A d : route(d).dir = d /\ route(d).mode = app[d].mode
    BY DEF NoPage
  <1>b. rs = {route(d) : d \in Discover}
    BY <1>2
  <1> HIDE DEF route
  <1>4. \A r \in rs : r.dir \in Discover /\ r.mode = app[r.dir].mode
    BY <1>a, <1>b
  <1>5. \A d \in Discover : \E r \in rs : r.dir = d
    BY <1>a, <1>b
  <1>6. Underway'
    BY <1>1, <1>3, <1>4, <1>5, Unmoved DEF Underway
  <1>7. \A p \in Requested : p[1] \in Discover
    BY DEF Requested
  <1>8. QED
    BY <1>1, <1>3, <1>5, <1>6, <1>7, Unmoved DEF Written, Pending

(* What is copied over is rendered after it.                               *)
LEMMA CopiesUnderway ==
    ASSUME SiteShape, CopyPublic, Underway PROVE Underway' /\ Written'
  <1>1. UNCHANGED source /\ export.at = "public"
    BY DEF CopyPublic, At
  <1>2. export' = Exporting("routes", export.routes, export.slugs, export.page, export.urls,
                            export.content, export.unseeded, export.base)
    BY DEF CopyPublic, SiteShape, ExportTypes, Exporting
  <1>3. Underway'
    BY <1>1, <1>2, Unmoved DEF Underway, Exporting
  <1>4. \A p \in Requested : p[1] \in Discover
    BY DEF Requested
  <1>5. \A d \in Discover : \E r \in export'.routes : r.dir = d
    BY <1>1, <1>2 DEF Underway, Exporting
  <1>6. QED
    BY <1>1, <1>3, <1>4, <1>5, Unmoved DEF Written, Pending

(* A route that is skipped has no file to write.                           *)
LEMMA SkipsUnderway ==
    ASSUME SiteShape, NEW r, Skips(r), Underway PROVE Underway' /\ (Written => Written')
  <1>1. UNCHANGED <<source, files>> /\ export.at = "routes"
    BY DEF Skips, At
  <1>2. PICK u : export' = [export EXCEPT !.routes = @ \ {r}, !.urls = u]
    BY DEF Skips
  <1>3. export' = Exporting("routes", export.routes \ {r}, export.slugs, export.page, u,
                            export.content, export.unseeded, export.base)
    BY <1>1, <1>2 DEF SiteShape, ExportTypes, Exporting
  <1>4. Underway'
    BY <1>1, <1>3, Unmoved DEF Underway, Exporting
  <1>5. r.mode = app[r.dir].mode /\ r.mode \notin Exported
    BY DEF Skips, Underway
  <1>6. ASSUME Written PROVE Written'
    <2>1. ASSUME NEW p \in Requested, app[p[1]].mode \in Exported, Pending(p) PROVE Pending(p)'
      <3>1. PICK q \in export.routes : q.dir = p[1]
        BY <1>1, <2>1 DEF Pending
      <3>2. q # r
        BY <1>5, <2>1, <3>1
      <3>3. QED
        BY <1>3, <3>1, <3>2 DEF Pending, Exporting
    <2>2. ASSUME NEW p \in Requested, Holds(p) PROVE Holds(p)'
      BY <1>1, <1>3, <2>2, HoldsSame DEF Exporting
    <2>3. QED
      BY <1>1, <1>6, <2>1, <2>2, WrittenStays
  <1>7. QED
    BY <1>4, <1>6

(* A route that is taken is pending until its last slug is.                *)
LEMMA TakesUnderway ==
    ASSUME SiteShape, NEW r, Takes(r), Underway PROVE Underway' /\ (Written => Written')
  <1>1. UNCHANGED <<source, files>> /\ export.at = "routes" /\ r \in export.routes
    BY DEF Takes, At
  <1>2. (IF export.content = Gone THEN Load ELSE export.content) = Load
    BY DEF Underway
  <1>3. export' = [export EXCEPT !.at = "pages", !.routes = @ \ {r}, !.page = r,
                                 !.content = IF Dynamic(r.dir) THEN Load ELSE @,
                                 !.slugs = ExpandParams(r.dir, Load)]
    BY <1>2 DEF Takes
  <1>4. PICK c \in {Gone, Load} :
            export' = Exporting("pages", export.routes \ {r}, ExpandParams(r.dir, Load), r, export.urls,
                                c, export.unseeded, export.base)
    BY <1>3 DEF SiteShape, ExportTypes, Exporting, Underway
  <1>5. r.dir \in Discover /\ r.mode = app[r.dir].mode
    BY <1>1 DEF Underway
  <1>6. Underway'
    BY <1>1, <1>4, <1>5, Unmoved DEF Underway, Exporting
  <1>7. ASSUME Written PROVE Written'
    <2>1. ASSUME NEW p \in Requested, Pending(p) PROVE Pending(p)'
      <3>1. PICK q \in export.routes : q.dir = p[1]
        BY <1>1, <2>1 DEF Pending
      <3>2. p[2] \in ExpandParams(p[1], Load)
        BY DEF Requested
      <3>3. QED
        BY <1>4, <3>1, <3>2 DEF Pending, Exporting
    <2>2. ASSUME NEW p \in Requested, Holds(p) PROVE Holds(p)'
      BY <1>1, <1>4, <2>2, HoldsSame DEF Exporting
    <2>3. QED
      BY <1>1, <1>7, <2>1, <2>2, WrittenStays
  <1>8. QED
    BY <1>6, <1>7

(* The file that is truncated is that of a page still pending.             *)
LEMMA RendersUnderway ==
    ASSUME SiteShape, NEW s, Renders(s), Underway PROVE Underway' /\ (Distinct /\ Written => Written')
  <1>1. UNCHANGED source /\ seeds' = seeds /\ export.at = "pages" /\ s \in export.slugs
    BY DEF Renders, At
  <1>2. PICK d \in Discover : /\ d = export.page.dir /\ export.page.mode = app[d].mode
                              /\ export.slugs \subseteq ExpandParams(d, Load)
    BY <1>1 DEF Underway
  <1>3. out' = Put(out, {OutPath(MaterializePath(d, s))}, Torn)
    BY <1>2 DEF Renders
  <1>4. PICK pg : /\ pg = [export.page EXCEPT !.slug = s, !.body = RenderOne(d, s)]
                  /\ export' = [export EXCEPT !.at = "write", !.slugs = @ \ {s}, !.page = pg]
    BY <1>2 DEF Renders, SiteShape, ExportTypes, PageRecords
  <1>5. pg.dir = d /\ pg.mode = app[d].mode /\ pg.slug = s /\ pg.body = RenderOne(d, s)
    BY <1>2, <1>4 DEF SiteShape, ExportTypes, PageRecords
  <1>6. export' = Exporting("write", export.routes, export.slugs \ {s}, pg, export.urls,
                            export.content, export.unseeded, export.base)
    BY <1>4 DEF SiteShape, ExportTypes, Exporting
  <1>7. Underway'
    BY <1>1, <1>2, <1>5, <1>6, Unmoved DEF Underway, Exporting
  <1>8. ASSUME Distinct, Written PROVE Written'
    <2>1. ASSUME NEW p \in Requested, Pending(p) PROVE Pending(p)'
      BY <1>1, <1>2, <1>5, <1>6, <2>1 DEF Pending, Exporting
    <2>2. ASSUME NEW p \in Requested, Holds(p) PROVE Pending(p)' \/ Holds(p)'
      <3>1. CASE p = <<d, s>>
        BY <1>5, <1>6, <3>1 DEF Pending, Exporting
      <3>2. CASE p # <<d, s>>
        <4>1. <<d, s>> \in Requested
          BY <1>1, <1>2 DEF Requested, SiteShape, ExportTypes, Slugged
        <4>2. FileOf(p) # OutPath(MaterializePath(d, s))
          BY <1>8, <3>2, <4>1 DEF Distinct, FileOf, PathOf
        <4>3. Seeded(p)'
          BY <1>1, <1>6, <2>2, SeededStays DEF Exporting
        <4>4. QED
          BY <1>1, <1>3, <2>2, <4>2, <4>3, HoldsStays
      <3>3. QED
        BY <3>1, <3>2
    <2>3. QED
      BY <1>1, <1>8, <2>1, <2>2, WrittenStays
  <1>9. QED
    BY <1>7, <1>8

(* The file and the entry that are written are those of their page only.   *)
LEMMA WritesUnderway ==
    ASSUME SiteShape, Writes, Underway PROVE Underway' /\ (Distinct /\ Written => Written')
  <1>1. UNCHANGED source /\ export.at = "write"
    BY DEF Writes, At
  <1>2. PICK d, s : d \in Discover /\ d = export.page.dir /\ s = export.page.slug
    BY <1>1 DEF Underway
  <1>3. /\ s \in ExpandParams(d, Load) /\ export.page.body = RenderOne(d, s)
        /\ export.slugs \subseteq ExpandParams(d, Load) /\ export.page.mode = app[d].mode
    BY <1>1, <1>2 DEF Underway
  <1>4. PICK path : path = MaterializePath(d, s)
    OBVIOUS
  <1>5. PICK isr : isr = IF app[d].mode = "isr" THEN {path} ELSE {}
    OBVIOUS
  <1>a. PICK more : more = ForSitemap(d, path, TRUE)
    OBVIOUS
  <1>6. out' = Put(out, {OutPath(path)}, RenderOne(d, s))
    BY <1>2, <1>3, <1>4 DEF Writes
  <1>7. PICK dropped \in {{}, isr} :
            /\ seeds' = Put(seeds, isr \ dropped, RenderOne(d, s))
            /\ export' = [export EXCEPT !.at = "pages", !.page.slug = <<>>, !.page.body = Gone,
                                        !.unseeded = @ \cup dropped, !.urls = @ \cup more]
    BY <1>2, <1>3, <1>4, <1>5, <1>a DEF Writes
  <1>8. PICK pg : pg = [export.page EXCEPT !.slug = <<>>, !.body = Gone]
    OBVIOUS
  <1>9. pg.dir = d /\ pg.mode = app[d].mode
    BY <1>2, <1>3, <1>8 DEF SiteShape, ExportTypes, PageRecords
  <1>10. export' = Exporting("pages", export.routes, export.slugs, pg, export.urls \cup more,
                             export.content, export.unseeded \cup dropped, export.base)
    BY <1>7, <1>8 DEF SiteShape, ExportTypes, PageRecords, Exporting
  <1>11. Underway'
    BY <1>1, <1>2, <1>3, <1>9, <1>10, Unmoved DEF Underway, Exporting
  <1>12. ASSUME Distinct, Written PROVE Written'
    <2>1. Seeded(<<d, s>>)'
      <3>1. PathOf(<<d, s>>) = path
        BY <1>4 DEF PathOf
      <3>2. app'[d] = app[d] /\ RenderOne(d, s)' = RenderOne(d, s)
        BY <1>1, Unmoved
      <3>3. export'.unseeded = export.unseeded \cup dropped
        BY <1>10 DEF Exporting
      <3>4. CASE app[d].mode = "isr"
        <4>1. isr = {path} /\ (dropped = {} \/ dropped = {path})
          BY <1>5, <1>7, <3>4
        <4>2. path \notin export'.unseeded => seeds'[path] = RenderOne(d, s)
          BY <1>7, <3>3, <4>1 DEF Put
        <4>3. QED
          BY <3>1, <3>2, <4>2 DEF Seeded
      <3>5. CASE app[d].mode # "isr"
        BY <3>2, <3>5 DEF Seeded
      <3>6. QED
        BY <3>4, <3>5
    <2>2. Holds(<<d, s>>)'
      BY <1>1, <1>4, <1>6, <2>1, Unmoved DEF Holds, FileOf, PathOf, Put
    <2>3. <<d, s>> \in Requested
      BY <1>2, <1>3 DEF Requested, SiteShape, ExportTypes, PageRecords, Slugged
    <2>4. ASSUME NEW p \in Requested, Pending(p), p # <<d, s>> PROVE Pending(p)'
      <3>1. p = <<p[1], p[2]>>
        BY DEF Requested
      <3>2. QED
        BY <1>1, <1>2, <1>9, <1>10, <2>4, <3>1 DEF Pending, Exporting
    <2>5. ASSUME NEW p \in Requested, Holds(p), p # <<d, s>> PROVE Holds(p)'
      <3>1. FileOf(p) # OutPath(path)
        BY <1>4, <1>12, <2>3, <2>5 DEF Distinct, FileOf, PathOf
      <3>2. PathOf(p) # path
        BY <3>1 DEF FileOf
      <3>3. PathOf(p) \notin isr /\ isr \ dropped \subseteq isr
        BY <1>5, <3>2
      <3>4. PathOf(p) \in DOMAIN seeds' => PathOf(p) \in DOMAIN seeds /\ seeds'[PathOf(p)] = seeds[PathOf(p)]
        BY <1>7, <3>3 DEF Put
      <3>5. export.unseeded \subseteq export'.unseeded
        BY <1>10 DEF Exporting
      <3>6. Seeded(p)'
        BY <1>1, <2>5, <3>4, <3>5, Unmoved DEF Holds, Seeded
      <3>7. QED
        BY <1>1, <1>6, <2>5, <3>1, <3>6, HoldsStays
    <2>6. QED
      BY <1>1, <1>12, <2>2, <2>4, <2>5, WrittenStays
  <1>13. QED
    BY <1>11, <1>12

(* A route is left, and the export ends, when nothing is pending.          *)
LEMMA LeavesUnderway ==
    ASSUME SiteShape, NextRoute \/ Lists, Underway PROVE Exports' => Underway' /\ (Written => Written')
  <1>1. UNCHANGED source /\ out' = out /\ seeds' = seeds
    BY DEF NextRoute, Lists, At, files
  <1>2. \/ export' = Exporting("routes", export.routes, export.slugs, NoPage, export.urls,
                               export.content, export.unseeded, export.base) /\ export.at = "pages" /\ export.slugs = {}
        \/ \E end \in {"done", "failed"} :
               export' = Exporting(end, export.routes, export.slugs, export.page, {},
                                   export.content, export.unseeded, export.base) /\ export.at = "routes"
                                   /\ export.routes = {}
    BY DEF NextRoute, Lists, At, SiteShape, ExportTypes, Exporting
  <1>3. Exports' => Underway'
    BY <1>1, <1>2, Unmoved DEF Exports, Underway, Exporting
  <1>4. ASSUME NEW p \in Requested, Pending(p) PROVE Pending(p)'
    BY <1>2, <1>4 DEF Pending, Exporting
  <1>5. ASSUME NEW p \in Requested, Holds(p) PROVE Holds(p)'
    <2>1. export'.unseeded = export.unseeded
      BY <1>2 DEF Exporting
    <2>2. QED
      BY <1>1, <1>5, <2>1, Unmoved, SeededStays DEF Holds
  <1>6. QED
    BY <1>1, <1>3, <1>4, <1>5, WrittenStays

(* Every step keeps the invariant; an edit ends what it says.              *)
LEMMA ExportStep ==
    ASSUME SiteShape, ExportInv, [SiteNext]_siteVars PROVE ExportInv'
  <1> SUFFICES ASSUME Exports' PROVE Underway' /\ (Distinct' => Written')
    BY SafeStep DEF ExportInv
  <1>1. CASE UNCHANGED siteVars
    <2>1. UNCHANGED source /\ out' = out /\ seeds' = seeds /\ export' = export
      BY <1>1 DEF siteVars, files
    <2>2. Exports /\ Underway /\ (Distinct => Written)
      BY <2>1, Unmoved DEF Exports, ExportInv
    <2>3. Underway'
      BY <2>1, <2>2, Unmoved DEF Underway
    <2>4. Written => Written'
      BY <2>1, Unmoved DEF Written, Pending, Holds, Seeded
    <2>5. QED
      BY <2>1, <2>2, <2>3, <2>4, Unmoved
  <1>2. CASE \E d \in PageDirs : EditPage(d)
    <2>1. siteEdits' = siteEdits + 1 /\ export' = export
      BY <1>2 DEF EditPage, Edited
    <2>2. siteEdits \in Nat /\ export.base \in Nat /\ export.base <= siteEdits
      BY DEF SiteShape, Sources, ExportTypes
    <2>3. siteEdits' # export.base
      BY <2>1, <2>2
    <2>4. QED
      BY <2>1, <2>3 DEF Exports
  <1>3. CASE \E s \in PostSlugs : EditPost(s)
    <2>1. siteEdits' = siteEdits + 1 /\ export' = export
      BY <1>3 DEF EditPost, Edited
    <2>2. siteEdits \in Nat /\ export.base \in Nat /\ export.base <= siteEdits
      BY DEF SiteShape, Sources, ExportTypes
    <2>3. siteEdits' # export.base
      BY <2>1, <2>2
    <2>4. QED
      BY <2>1, <2>3 DEF Exports
  <1>4. CASE BeginExport
    BY <1>4, BeginsUnderway
  <1>5. CASE ExportFails \/ CopyFails
    BY <1>5 DEF ExportFails, CopyFails, SiteShape, ExportTypes, Exporting, Exports
  <1>6. ASSUME UNCHANGED source, export'.base = export.base,
               export.at \in {"public", "routes", "pages", "write"}
        PROVE  Underway /\ (Distinct => Written) /\ (Distinct' <=> Distinct)
    BY <1>6, Unmoved DEF Exports, ExportInv
  <1>7. CASE CopyPublic
    <2>1. Underway
      BY <1>6, <1>7 DEF CopyPublic, At, SiteShape, ExportTypes, Exporting
    <2>2. QED
      BY <1>7, <2>1, CopiesUnderway
  <1>8. ASSUME NEW r, Skips(r) PROVE Underway' /\ (Distinct' => Written')
    <2>1. Underway /\ (Distinct => Written) /\ (Distinct' <=> Distinct)
      BY <1>6, <1>8 DEF Skips, At, SiteShape, ExportTypes, Exporting
    <2>2. QED
      BY <1>8, <2>1, SkipsUnderway
  <1>9. ASSUME NEW r, Takes(r) PROVE Underway' /\ (Distinct' => Written')
    <2>1. Underway /\ (Distinct => Written) /\ (Distinct' <=> Distinct)
      BY <1>6, <1>9 DEF Takes, At, SiteShape, ExportTypes, Exporting
    <2>2. QED
      BY <1>9, <2>1, TakesUnderway
  <1>10. ASSUME NEW s, Renders(s) PROVE Underway' /\ (Distinct' => Written')
    <2>1. Underway /\ (Distinct => Written) /\ (Distinct' <=> Distinct)
      BY <1>6, <1>10 DEF Renders, At, SiteShape, ExportTypes, Exporting
    <2>2. QED
      BY <1>10, <2>1, RendersUnderway
  <1>11. CASE Writes
    <2>1. Underway /\ (Distinct => Written) /\ (Distinct' <=> Distinct)
      BY <1>6, <1>11 DEF Writes, At, SiteShape, ExportTypes, Exporting
    <2>2. QED
      BY <1>11, <2>1, WritesUnderway
  <1>12. CASE NextRoute \/ Lists
    <2>1. Underway /\ (Distinct => Written) /\ (Distinct' <=> Distinct)
      BY <1>6, <1>12 DEF NextRoute, Lists, At, SiteShape, ExportTypes, Exporting
    <2>2. QED
      BY <1>12, <2>1, LeavesUnderway
  <1>13. QED
    BY <1>1, <1>2, <1>3, <1>4, <1>5, <1>7, <1>8, <1>9, <1>10, <1>11, <1>12 DEF SiteNext, Export

(* After an export that succeeded and no edit since, a server answers      *)
(* every page with the template and the post the request is for, from a    *)
(* file, from the cache or rendered, for any site whose pages are looked   *)
(* up at files of their own and whatever failed before, but for the pages  *)
(* the export could not put into the cache (build.go:131-178,              *)
(* router.go:339-409, 531-553).                                            *)
THEOREM ExportServed == SiteSpec => []ExportIsServed
  <1>1. SiteInit => SiteShape /\ ExportInv
    <2>1. SiteInit => ExportInv
      BY DEF SiteInit, ExportInv, Safe, Exports
    <2>2. QED
      BY <2>1, ShapeInit
  <1>2. SiteShape /\ ExportInv /\ [SiteNext]_siteVars => SiteShape' /\ ExportInv'
    BY TypesStep, ExportStep
  <1>3. SiteShape /\ ExportInv => ExportIsServed
    BY ExportServes
  <1>4. QED
    BY <1>1, <1>2, <1>3, PTL DEF SiteSpec

(***************************************************************************)
(* The templates "irmik dev" reloads.                                      *)
(***************************************************************************)
Compiled == [ver : Nat, partial : Nat]

EngineTypes ==
    /\ disk \in [Files -> [ver : Nat, ok : BOOLEAN]]
    /\ partials \in Nat /\ compiled \in [Pages -> Compiled \cup {None}]
    /\ compileGen \in Nat /\ floor \in [Files -> Nat]

RequestTypes ==
    /\ tab \in [Tabs -> {"closed", "lookup", "read", "store", "page", "error", "live"}]
    /\ at \in [Tabs -> DOMAIN Chain] /\ gen \in [Tabs -> Nat]
    /\ part \in [Tabs -> Nat] /\ body \in [Tabs -> Nat]
    /\ seen \in [Tabs -> [Pages -> Compiled \cup {None}]]
    /\ since \in [Tabs -> [Files -> Nat]]

DevTypes == EngineTypes /\ RequestTypes

(* Render goes from template to template of the pages.                     *)
LEMMA ChainFacts ==
    /\ Partial \in Files /\ Partial \notin Pages /\ Pages \subseteq Files
    /\ Len(Chain) \in Nat /\ 1 \in DOMAIN Chain /\ DOMAIN Chain = 1 .. Len(Chain)
    /\ \A i \in DOMAIN Chain : Chain[i] \in Pages
    /\ None \notin Compiled
  BY DevAssumption DEF Files, Compiled

(* Every step keeps the types of the files and the engine.                 *)
LEMMA EngineStep ==
    ASSUME DevTypes, [Next]_vars PROVE EngineTypes'
  <1> USE DEF DevTypes, EngineTypes
  <1>1. ASSUME UNCHANGED <<disk, engine>> PROVE EngineTypes'
    BY <1>1 DEF engine
  <1>2. ASSUME NEW f \in Files, NEW ok \in BOOLEAN, Save(f, ok) PROVE EngineTypes'
    BY <1>2 DEF Save, engine
  <1>3. ASSUME Reload, disk' = disk PROVE EngineTypes'
    BY <1>3, ChainFacts DEF Reload, Current
  <1>4. ASSUME NEW g \in Fires, OnChange(g) PROVE EngineTypes'
    BY <1>1, <1>3, <1>4 DEF OnChange, ReloadEngine, RemountPages, Tell
  <1>5. ASSUME NEW t \in Tabs, Store(t) PROVE EngineTypes'
    <2>1. Chain[at[t]] \in Pages /\ [ver |-> body[t], partial |-> part[t]] \in Compiled
      BY ChainFacts DEF RequestTypes, Compiled
    <2>2. QED
      BY <1>5, <2>1 DEF Store
  <1>6. CASE WatchReceives \/ WatchFails \/ TimerFires
    BY <1>1, <1>6 DEF WatchReceives, WatchFails, TimerFires
  <1>7. ASSUME NEW d \in Dirs, MakeDir(d) PROVE EngineTypes'
    BY <1>1, <1>7 DEF MakeDir
  <1>8. ASSUME NEW t \in Tabs,
               Open(t) \/ LookupHits(t) \/ LookupMisses(t) \/ ReadFile(t) \/ Overlay(t) \/ Unsubscribe(t)
        PROVE  EngineTypes'
    BY <1>1, <1>8 DEF Open, LookupHits, LookupMisses, ReadFile, Overlay, Unsubscribe, Subscribe, Done,
                      Refresh, ShowProblem
  <1>9. CASE UNCHANGED vars
    BY <1>1, <1>9 DEF vars
  <1>10. QED
    BY <1>2, <1>4, <1>5, <1>6, <1>7, <1>8, <1>9 DEF Next, Request

(* So does the beginning of a request,                                     *)
LEMMA BeginTypes ==
    ASSUME DevTypes, NEW t \in Tabs, Begin(t), UNCHANGED <<gen, part, body>> PROVE RequestTypes'
  BY ChainFacts DEF DevTypes, EngineTypes, RequestTypes, Begin

(* the use of a template,                                                  *)
LEMMA UsesTypes ==
    ASSUME DevTypes, NEW t \in Tabs, NEW m \in Compiled \cup {None}, Uses(t, m), since' = since
    PROVE  RequestTypes'
  <1> USE DEF DevTypes, RequestTypes
  <1>1. PICK f \in Pages : f = Chain[at[t]]
    BY ChainFacts
  <1>2. seen' = [seen EXCEPT ![t] = [@ EXCEPT ![f] = m]]
    BY <1>1 DEF Uses
  <1>3. seen' \in [Tabs -> [Pages -> Compiled \cup {None}]]
    BY <1>2
  <1>4. at[t] # Len(Chain) => at[t] + 1 \in DOMAIN Chain
    BY ChainFacts
  <1>5. /\ at' \in [Tabs -> DOMAIN Chain]
        /\ tab' \in [Tabs -> {"closed", "lookup", "read", "store", "page", "error", "live"}]
    BY <1>4 DEF Uses
  <1>6. QED
    BY <1>3, <1>5 DEF Uses

(* the end of a request,                                                   *)
LEMMA EndedTypes ==
    ASSUME DevTypes, NEW t \in Tabs, Ended(t), NEW x \in {"live", "closed"}, tab' = [tab EXCEPT ![t] = x]
    PROVE  RequestTypes'
  BY ChainFacts DEF DevTypes, RequestTypes, Ended

(* and every other step, of what requests hold.                            *)
LEMMA RequestStep ==
    ASSUME DevTypes, [Next]_vars PROVE RequestTypes'
  <1>1. ASSUME UNCHANGED <<request, tab>> PROVE RequestTypes'
    BY <1>1 DEF DevTypes, RequestTypes, request
  <1>2. CASE (\E f \in Files, ok \in BOOLEAN : Save(f, ok)) \/ (\E d \in Dirs : MakeDir(d))
             \/ WatchReceives \/ WatchFails \/ TimerFires \/ (\E g \in Fires : OnChange(g))
             \/ UNCHANGED vars
    BY <1>1, <1>2 DEF Save, MakeDir, WatchReceives, WatchFails, TimerFires, OnChange, ReloadEngine,
                      RemountPages, Tell, vars, overlay
  <1>3. ASSUME NEW t \in Tabs, Open(t) \/ Refresh(t) PROVE RequestTypes'
    BY <1>3, BeginTypes DEF Open, Refresh
  <1>4. ASSUME NEW t \in Tabs, LookupHits(t) PROVE RequestTypes'
    <2>1. compiled[Chain[at[t]]] \in Compiled \cup {None}
      BY ChainFacts DEF DevTypes, EngineTypes, RequestTypes
    <2>2. QED
      BY <1>4, <2>1, UsesTypes DEF LookupHits
  <1>5. ASSUME NEW t \in Tabs, LookupMisses(t) PROVE RequestTypes'
    BY <1>5 DEF LookupMisses, DevTypes, EngineTypes, RequestTypes
  <1>6. ASSUME NEW t \in Tabs, ReadFile(t) PROVE RequestTypes'
    <2>1. disk[Chain[at[t]]].ver \in Nat
      BY ChainFacts DEF DevTypes, EngineTypes, RequestTypes
    <2>2. QED
      BY <1>6, <2>1 DEF ReadFile, DevTypes, RequestTypes
  <1>7. ASSUME NEW t \in Tabs, Store(t) PROVE RequestTypes'
    <2>1. Chain[at[t]] \in Pages /\ [ver |-> body[t], partial |-> part[t]] \in Compiled
      BY ChainFacts DEF DevTypes, RequestTypes, Compiled
    <2>2. PICK m \in Compiled \cup {None} : Uses(t, m)
      <3>1. EngineTypes'
        BY <1>7, EngineStep DEF Next, Request
      <3>2. compiled'[Chain[at[t]]] \in Compiled \cup {None}
        BY <2>1, <3>1 DEF EngineTypes
      <3>3. QED
        BY <1>7, <2>1, <3>2 DEF Store
    <2>3. QED
      BY <1>7, <2>2, UsesTypes DEF Store
  <1>8. ASSUME NEW t \in Tabs, Subscribe(t) \/ Done(t) PROVE RequestTypes'
    BY <1>8, EndedTypes DEF Subscribe, Done
  <1>9. ASSUME NEW t \in Tabs, Unsubscribe(t) \/ ShowProblem(t) PROVE RequestTypes'
    BY <1>9 DEF Unsubscribe, ShowProblem, DevTypes, RequestTypes, request
  <1>10. QED
    BY <1>2, <1>3, <1>4, <1>5, <1>6, <1>7, <1>8, <1>9 DEF Next, Request, Overlay

(* The types hold at first.                                                *)
LEMMA DevTypesInit ==
    ASSUME Init PROVE DevTypes
  BY ChainFacts DEF Init, DevTypes, EngineTypes, RequestTypes, Current

(***************************************************************************)
(* What is older than a Reload is not used after it.                       *)
(***************************************************************************)

(* A compiled template is not older than the files of a Reload.            *)
Fresh(m, f, files0) == m # None => m.ver >= files0[f] /\ m.partial >= files0[Partial]

EngineInv ==
    /\ \A f \in Files : disk[f].ver >= floor[f]
    /\ partials >= floor[Partial]
    /\ \A f \in Pages : Fresh(compiled[f], f, floor)

(* What a request holds is not older than the Reload before it, and, while *)
(* the generation is the one it read, not older than the last Reload.      *)
TabInv(t) ==
    /\ \A f \in Files : floor[f] >= since[t][f]
    /\ gen[t] <= compileGen
    /\ tab[t] \in {"read", "store"} =>
          /\ part[t] >= since[t][Partial]
          /\ gen[t] = compileGen => part[t] >= floor[Partial]
    /\ tab[t] = "store" =>
          /\ body[t] >= since[t][Chain[at[t]]]
          /\ gen[t] = compileGen => body[t] >= floor[Chain[at[t]]]
    /\ \A f \in Pages : Fresh(seen[t][f], f, since[t])

DevInv == EngineInv /\ \A t \in Tabs : TabInv(t)

(* Nothing is stale at first.                                              *)
LEMMA DevInvInit ==
    ASSUME Init PROVE DevInv
  BY ChainFacts DEF Init, DevInv, EngineInv, TabInv, Fresh, Current

(* Steps of the watcher and the overlay touch no template.                 *)
LEMMA DevSame ==
    ASSUME DevInv, UNCHANGED <<disk, engine, request, tab>> PROVE DevInv'
  BY DEF DevInv, EngineInv, TabInv, engine, request

(* A tab that does nothing.                                                *)
LEMMA OthersKeep ==
    ASSUME DevTypes, DevInv, NEW u \in Tabs, UNCHANGED <<floor, compileGen>>,
           /\ tab'[u] = tab[u] /\ at'[u] = at[u] /\ gen'[u] = gen[u] /\ part'[u] = part[u]
           /\ body'[u] = body[u] /\ seen'[u] = seen[u] /\ since'[u] = since[u]
    PROVE  TabInv(u)'
  BY DEF DevInv, TabInv

(* A save makes a file newer.                                              *)
LEMMA SaveKeeps ==
    ASSUME DevTypes, DevInv, NEW f \in Files, NEW ok \in BOOLEAN, Save(f, ok) PROVE DevInv'
  <1>1. \A g \in Files : disk'[g].ver >= disk[g].ver /\ disk'[g].ver \in Nat /\ disk[g].ver \in Nat
                          /\ floor[g] \in Nat
    BY DEF Save, DevTypes, EngineTypes
  <1>2. \A g \in Files : disk'[g].ver >= floor[g]
    BY <1>1 DEF DevInv, EngineInv
  <1>3. UNCHANGED <<engine, request, tab>>
    BY DEF Save
  <1>4. QED
    BY <1>2, <1>3 DEF DevInv, EngineInv, TabInv, engine, request

(* A Reload forgets what is compiled and ends the generation.              *)
LEMMA ReloadKeeps ==
    ASSUME DevTypes, DevInv, Reload, UNCHANGED <<disk, request, tab>> PROVE DevInv'
  <1>1. /\ \A f \in Files : floor'[f] = disk[f].ver /\ floor'[f] >= floor[f]
                            /\ floor'[f] \in Nat /\ floor[f] \in Nat
        /\ floor'[Partial] = partials'
    BY ChainFacts DEF Reload, Current, DevTypes, EngineTypes, DevInv, EngineInv
  <1>2. EngineInv'
    BY <1>1, ChainFacts DEF Reload, EngineInv, Fresh
  <1>3. ASSUME NEW t \in Tabs PROVE TabInv(t)'
    <2>1. /\ tab'[t] = tab[t] /\ at'[t] = at[t] /\ gen'[t] = gen[t] /\ part'[t] = part[t]
          /\ body'[t] = body[t] /\ seen'[t] = seen[t] /\ since'[t] = since[t]
      BY DEF request
    <2>2. gen[t] \in Nat /\ compileGen \in Nat /\ compileGen' = compileGen + 1 /\ gen[t] <= compileGen
      BY DEF Reload, DevTypes, EngineTypes, RequestTypes, DevInv, TabInv
    <2>3. \A f \in Files : floor'[f] >= since[t][f]
      BY <1>1 DEF DevInv, TabInv, DevTypes, RequestTypes
    <2>4. QED
      BY <2>1, <2>2, <2>3 DEF DevInv, TabInv
  <1>4. QED
    BY <1>2, <1>3 DEF DevInv

(* A request begins with nothing used.                                     *)
LEMMA BeginKeeps ==
    ASSUME DevTypes, DevInv, NEW t \in Tabs, Begin(t), UNCHANGED <<disk, engine, gen, part, body>>
    PROVE  DevInv'
  <1>1. EngineInv'
    BY DEF DevInv, EngineInv, engine
  <1>2. TabInv(t)'
    <2>1. tab'[t] = "lookup" /\ since'[t] = floor /\ seen'[t] = [f \in Pages |-> None]
          /\ floor' = floor /\ gen' = gen /\ compileGen' = compileGen
      BY DEF Begin, DevTypes, RequestTypes, engine
    <2>2. \A f \in Files : floor[f] \in Nat
      BY DEF DevTypes, EngineTypes
    <2>3. QED
      BY <2>1, <2>2 DEF DevInv, TabInv, Fresh
  <1>3. ASSUME NEW u \in Tabs, u # t PROVE TabInv(u)'
    <2>1. /\ tab'[u] = tab[u] /\ at'[u] = at[u] /\ gen'[u] = gen[u] /\ part'[u] = part[u]
          /\ body'[u] = body[u] /\ seen'[u] = seen[u] /\ since'[u] = since[u]
      BY <1>3 DEF Begin, DevTypes, RequestTypes
    <2>2. QED
      BY <2>1, OthersKeep DEF engine
  <1>4. QED
    BY <1>1, <1>2, <1>3 DEF DevInv

(* A request goes on with a template that is fresh.                        *)
LEMMA UsesKeeps ==
    ASSUME DevTypes, DevInv, NEW t \in Tabs, NEW m, Uses(t, m), Fresh(m, Chain[at[t]], since[t]),
           UNCHANGED <<since, floor, compileGen>>, EngineInv'
    PROVE  DevInv'
  <1>1. PICK f \in Pages : f = Chain[at[t]]
    BY ChainFacts DEF DevTypes, RequestTypes
  <1>2. TabInv(t)'
    <2>1. tab'[t] \in {"page", "lookup"} /\ gen'[t] = 0
      BY DEF Uses, DevTypes, RequestTypes
    <2>2. seen' = [seen EXCEPT ![t] = [@ EXCEPT ![f] = m]]
      BY <1>1 DEF Uses
    <2>3. seen'[t] = [seen[t] EXCEPT ![f] = m] /\ DOMAIN seen[t] = Pages
      BY <2>2 DEF DevTypes, RequestTypes
    <2>4. \A g \in Pages : Fresh(seen'[t][g], g, since[t])
      BY <1>1, <2>3 DEF DevInv, TabInv
    <2>5. compileGen \in Nat
      BY DEF DevTypes, EngineTypes
    <2>6. QED
      BY <2>1, <2>4, <2>5 DEF DevInv, TabInv
  <1>3. ASSUME NEW u \in Tabs, u # t PROVE TabInv(u)'
    <2>1. /\ tab'[u] = tab[u] /\ at'[u] = at[u] /\ gen'[u] = gen[u] /\ part'[u] = part[u]
          /\ body'[u] = body[u] /\ seen'[u] = seen[u] /\ since'[u] = since[u]
      BY <1>3 DEF Uses, DevTypes, RequestTypes
    <2>2. QED
      BY <2>1, OthersKeep
  <1>4. QED
    BY <1>2, <1>3 DEF DevInv

(* The partials are read with the generation, under one lock.              *)
LEMMA MissesKeeps ==
    ASSUME DevTypes, DevInv, NEW t \in Tabs, LookupMisses(t) PROVE DevInv'
  <1>1. UNCHANGED <<disk, engine, since, seen, at, body>>
    BY DEF LookupMisses
  <1>2. EngineInv'
    BY <1>1 DEF DevInv, EngineInv, engine
  <1>3. TabInv(t)'
    <2>1. tab'[t] = "read" /\ gen'[t] = compileGen /\ part'[t] = partials
      BY DEF LookupMisses, DevTypes, RequestTypes
    <2>2. partials >= floor[Partial] /\ floor[Partial] >= since[t][Partial]
          /\ partials \in Nat /\ floor[Partial] \in Nat /\ since[t][Partial] \in Nat /\ compileGen \in Nat
      BY ChainFacts DEF DevInv, EngineInv, TabInv, DevTypes, EngineTypes, RequestTypes
    <2>3. partials >= since[t][Partial]
      BY <2>2
    <2>4. QED
      BY <1>1, <2>1, <2>2, <2>3 DEF DevInv, TabInv, engine
  <1>4. ASSUME NEW u \in Tabs, u # t PROVE TabInv(u)'
    BY <1>1, <1>4, OthersKeep DEF LookupMisses, DevTypes, RequestTypes, engine
  <1>5. QED
    BY <1>2, <1>3, <1>4 DEF DevInv

(* A file on disk is newer than every Reload.                              *)
LEMMA ReadKeeps ==
    ASSUME DevTypes, DevInv, NEW t \in Tabs, ReadFile(t) PROVE DevInv'
  <1>1. UNCHANGED <<disk, engine, since, seen, at, gen, part>> /\ tab[t] = "read"
    BY DEF ReadFile
  <1>2. EngineInv'
    BY <1>1 DEF DevInv, EngineInv, engine
  <1>3. PICK f \in Pages : f = Chain[at[t]] /\ f \in Files
    BY ChainFacts DEF DevTypes, RequestTypes
  <1>4. TabInv(t)'
    <2>1. tab'[t] \in {"store", "error"} /\ body'[t] = disk[f].ver
      BY <1>3 DEF ReadFile, DevTypes, RequestTypes
    <2>2. disk[f].ver >= floor[f] /\ floor[f] >= since[t][f]
          /\ disk[f].ver \in Nat /\ floor[f] \in Nat /\ since[t][f] \in Nat
      BY <1>3 DEF DevInv, EngineInv, TabInv, DevTypes, EngineTypes, RequestTypes
    <2>3. disk[f].ver >= since[t][f]
      BY <2>2
    <2>4. QED
      BY <1>1, <1>3, <2>1, <2>2, <2>3 DEF DevInv, TabInv, engine
  <1>5. ASSUME NEW u \in Tabs, u # t PROVE TabInv(u)'
    BY <1>1, <1>5, OthersKeep DEF ReadFile, DevTypes, RequestTypes, engine
  <1>6. QED
    BY <1>2, <1>4, <1>5 DEF DevInv

(* What was read before a Reload is not stored after it.                   *)
LEMMA StoreKeeps ==
    ASSUME DevTypes, DevInv, NEW t \in Tabs, Store(t) PROVE DevInv'
  <1>1. PICK f \in Pages : f = Chain[at[t]] /\ f \in Files
    BY ChainFacts DEF DevTypes, RequestTypes
  <1>2. PICK own : own = [ver |-> body[t], partial |-> part[t]]
    OBVIOUS
  <1>3. own.ver = body[t] /\ own.partial = part[t]
    BY <1>2
  <1>4. UNCHANGED <<disk, partials, compileGen, floor, since>> /\ tab[t] = "store"
    BY DEF Store
  <1>5. Fresh(own, f, since[t]) /\ (gen[t] = compileGen => Fresh(own, f, floor))
    BY <1>1, <1>3, <1>4 DEF DevInv, TabInv, Fresh
  <1>6. CASE compileGen = gen[t]
    <2>1. compiled' = [compiled EXCEPT ![f] = IF @ = None THEN own ELSE @] /\ Uses(t, compiled'[f])
      BY <1>1, <1>2, <1>6 DEF Store
    <2>2. /\ compiled'[f] = IF compiled[f] = None THEN own ELSE compiled[f]
          /\ \A g \in Pages : g # f => compiled'[g] = compiled[g]
      BY <2>1 DEF DevTypes, EngineTypes
    <2>3. Fresh(compiled'[f], f, floor) /\ \A g \in Pages : Fresh(compiled'[g], g, floor)
      BY <1>5, <1>6, <2>2 DEF DevInv, EngineInv
    <2>4. EngineInv'
      BY <1>4, <2>3 DEF DevInv, EngineInv
    <2>5. /\ floor[f] >= since[t][f] /\ floor[Partial] >= since[t][Partial]
          /\ floor[f] \in Nat /\ since[t][f] \in Nat /\ floor[Partial] \in Nat
          /\ since[t][Partial] \in Nat
      BY <1>1, ChainFacts DEF DevInv, TabInv, DevTypes, EngineTypes, RequestTypes
    <2>6. compiled'[f] = None \/ (compiled'[f].ver \in Nat /\ compiled'[f].partial \in Nat)
      BY <1>3, <2>2 DEF DevTypes, EngineTypes, RequestTypes, Compiled
    <2>7. Fresh(compiled'[f], f, since[t])
      BY <2>3, <2>5, <2>6 DEF Fresh
    <2>8. PICK m : m = compiled'[f]
      OBVIOUS
    <2>9. QED
      BY <1>1, <1>4, <2>1, <2>4, <2>7, <2>8, UsesKeeps
  <1>7. CASE compileGen # gen[t]
    <2>1. compiled' = compiled /\ Uses(t, own)
      BY <1>1, <1>2, <1>7 DEF Store
    <2>2. EngineInv'
      BY <1>4, <2>1 DEF DevInv, EngineInv
    <2>3. QED
      BY <1>1, <1>4, <1>5, <2>1, <2>2, UsesKeeps
  <1>8. QED
    BY <1>6, <1>7

(* What is compiled is not older than the last Reload.                     *)
LEMMA HitsKeeps ==
    ASSUME DevTypes, DevInv, NEW t \in Tabs, LookupHits(t) PROVE DevInv'
  <1>1. PICK f \in Pages : f = Chain[at[t]] /\ f \in Files
    BY ChainFacts DEF DevTypes, RequestTypes
  <1>2. PICK m : m = compiled[f] /\ Uses(t, m)
    BY <1>1 DEF LookupHits
  <1>3. UNCHANGED <<disk, engine, since>>
    BY DEF LookupHits
  <1>4. EngineInv'
    BY <1>3 DEF DevInv, EngineInv, engine
  <1>5. /\ floor[f] >= since[t][f] /\ floor[Partial] >= since[t][Partial]
        /\ floor[f] \in Nat /\ since[t][f] \in Nat /\ floor[Partial] \in Nat
        /\ since[t][Partial] \in Nat
    BY <1>1, ChainFacts DEF DevInv, TabInv, DevTypes, EngineTypes, RequestTypes
  <1>6. m = None \/ (m.ver \in Nat /\ m.partial \in Nat)
    BY <1>2 DEF DevTypes, EngineTypes, Compiled
  <1>7. Fresh(m, f, since[t])
    BY <1>2, <1>5, <1>6 DEF DevInv, EngineInv, Fresh
  <1>8. QED
    BY <1>1, <1>2, <1>3, <1>4, <1>7, UsesKeeps DEF engine

(* A request that ends holds nothing.                                      *)
LEMMA EndKeeps ==
    ASSUME DevTypes, DevInv, NEW t \in Tabs, UNCHANGED <<disk, engine>>,
           Ended(t) \/ UNCHANGED request, NEW x \in {"live", "closed"}, tab' = [tab EXCEPT ![t] = x]
    PROVE  DevInv'
  <1>1. EngineInv'
    BY DEF DevInv, EngineInv, engine
  <1>2. TabInv(t)'
    <2>1. tab'[t] \notin {"read", "store"}
      BY DEF DevTypes, RequestTypes
    <2>2. floor' = floor /\ compileGen' = compileGen /\ compileGen \in Nat
          /\ \A f \in Files : floor[f] \in Nat
      BY DEF engine, DevTypes, EngineTypes
    <2>3. CASE UNCHANGED request
      BY <2>1, <2>2, <2>3 DEF DevInv, TabInv, request
    <2>4. CASE Ended(t)
      <3>1. /\ gen'[t] = 0 /\ seen'[t] = [f \in Pages |-> None] /\ since'[t] = [f \in Files |-> 0]
        BY <2>4 DEF Ended, DevTypes, RequestTypes
      <3>2. QED
        BY <2>1, <2>2, <3>1 DEF TabInv, Fresh
    <2>5. QED
      BY <2>3, <2>4
  <1>3. ASSUME NEW u \in Tabs, u # t PROVE TabInv(u)'
    <2>1. /\ tab'[u] = tab[u] /\ at'[u] = at[u] /\ gen'[u] = gen[u] /\ part'[u] = part[u]
          /\ body'[u] = body[u] /\ seen'[u] = seen[u] /\ since'[u] = since[u]
      BY <1>3 DEF Ended, request, DevTypes, RequestTypes
    <2>2. QED
      BY <2>1, OthersKeep DEF engine
  <1>4. QED
    BY <1>1, <1>2, <1>3 DEF DevInv

(* Every step keeps the invariant.                                         *)
LEMMA DevStep ==
    ASSUME DevTypes, DevInv, [Next]_vars PROVE DevInv'
  <1>1. CASE (\E d \in Dirs : MakeDir(d)) \/ WatchReceives \/ WatchFails \/ TimerFires \/ UNCHANGED vars
    BY <1>1, DevSame DEF MakeDir, WatchReceives, WatchFails, TimerFires, vars, overlay
  <1>2. CASE \E f \in Files, ok \in BOOLEAN : Save(f, ok)
    BY <1>2, SaveKeeps
  <1>3. ASSUME NEW g \in Fires, OnChange(g) PROVE DevInv'
    <2>1. UNCHANGED <<disk, request, tab>> /\ (Reload \/ UNCHANGED engine)
      BY <1>3 DEF OnChange, ReloadEngine, RemountPages, Tell, overlay
    <2>2. QED
      BY <2>1, ReloadKeeps, DevSame
  <1>4. ASSUME NEW t \in Tabs, Open(t) \/ Refresh(t) PROVE DevInv'
    BY <1>4, BeginKeeps DEF Open, Refresh
  <1>5. ASSUME NEW t \in Tabs, Request(t) PROVE DevInv'
    BY <1>5, HitsKeeps, MissesKeeps, ReadKeeps, StoreKeeps DEF Request
  <1>6. ASSUME NEW t \in Tabs, Subscribe(t) \/ Done(t) \/ Unsubscribe(t) PROVE DevInv'
    BY <1>6, EndKeeps DEF Subscribe, Done, Unsubscribe
  <1>7. ASSUME NEW t \in Tabs, ShowProblem(t) PROVE DevInv'
    BY <1>7, DevSame DEF ShowProblem
  <1>8. QED
    BY <1>1, <1>2, <1>3, <1>4, <1>5, <1>6, <1>7 DEF Next, Overlay

(* What is used is not older than the Reload before the request.           *)
LEMMA FreshIsVisible ==
    ASSUME DevInv PROVE EditsVisible
  BY DEF DevInv, TabInv, Fresh, EditsVisible

(* "Disk edits are visible after Reload": what a request uses is never     *)
(* older than the last Reload before it began, for any templates, number   *)
(* of requests, saves and reloads (render.go:206-270).                     *)
THEOREM ReloadShowsEdits == Spec => []EditsVisible
  <1>1. Init => DevTypes /\ DevInv
    BY DevTypesInit, DevInvInit
  <1>2. DevTypes /\ DevInv /\ [Next]_vars => DevTypes' /\ DevInv'
    BY EngineStep, RequestStep, DevStep DEF DevTypes
  <1>3. DevInv => EditsVisible
    BY FreshIsVisible
  <1>4. QED
    BY <1>1, <1>2, <1>3, PTL DEF Spec

(***************************************************************************)
(* The islands a page is linked with.                                      *)
(***************************************************************************)
AllTags ==
    {ViteServer} \cup {t \in {EntryAssets(m, name) : m \in Manifests, name \in STRING} : t # NoManifest}

Mounts == [left : Seq(STRING), tags : Seq(AllTags), floor : Nat, alone : BOOLEAN]

IslandShape ==
    /\ builds \in 0 .. MaxViteBuilds /\ current \in Nat /\ overlapped \in BOOLEAN
    /\ dist \in {NoManifest, Garbled} \cup Manifests
    /\ dist \in Manifests => dist.build = builds
    /\ manager \in {NoManifest, ViteServer} \cup Manifests
    /\ manager \in Manifests => manager.build <= builds
    /\ reading \in [Remounts -> {NoManifest} \cup Manifests]
    /\ \A r \in Remounts : reading[r] # NoManifest => manager \in Manifests /\ reading[r].build <= builds
    /\ mount \in [PageRenders -> Mounts]

(* One ReloadManifest after the other loads what is newer.                 *)
InTurn ==
    /\ manager = NoManifest => current = 0
    /\ ~overlapped =>
          /\ \A r, q \in Remounts : reading[r] # NoManifest /\ reading[q] # NoManifest => r = q
          /\ manager \in Manifests => current <= manager.build
          /\ \A r \in Remounts : reading[r] # NoManifest => manager.build <= reading[r].build

PagesLinked ==
    /\ manager = NoManifest => \A p \in PageRenders : mount[p] = NoMount
    /\ \A p \in PageRenders :
          /\ mount[p].floor <= current
          /\ \A i \in DOMAIN mount[p].tags : mount[p].tags[i] # ViteServer =>
                /\ manager \in Manifests
                /\ mount[p].alone => mount[p].tags[i].build = manager.build
                /\ ~overlapped => mount[p].tags[i].build >= mount[p].floor

(* Before a page is begun it has no tags.                                  *)
LEMMA NoMountIs ==
    /\ NoMount \in Mounts /\ NoMount.floor = 0
    /\ \A i \in DOMAIN NoMount.tags : FALSE
  BY DEF NoMount, Page, Mounts

(* The head and the tail of a sequence, and a longer one.                  *)
LEMMA HeadAndTail ==
    ASSUME NEW S, NEW seq \in Seq(S), seq # <<>> PROVE Head(seq) \in S /\ Tail(seq) \in Seq(S)
  OBVIOUS

LEMMA Longer ==
    ASSUME NEW S, NEW seq \in Seq(S), NEW x \in S
    PROVE  /\ Append(seq, x) \in Seq(S)
           /\ \A i \in DOMAIN Append(seq, x) :
                 Append(seq, x)[i] = x \/ (i \in DOMAIN seq /\ Append(seq, x)[i] = seq[i])
  OBVIOUS

(* The tags of an island are of the build of their manifest.               *)
LEMMA TagsAre ==
    ASSUME NEW m \in {ViteServer} \cup Manifests, NEW name \in STRING, EntryAssets(m, name) # NoManifest
    PROVE  /\ EntryAssets(m, name) \in AllTags
           /\ EntryAssets(m, name) # ViteServer => m \in Manifests /\ EntryAssets(m, name).build = m.build
  <1>1. CASE m = ViteServer
    BY <1>1 DEF EntryAssets, AllTags
  <1>2. CASE m \in Manifests /\ m # ViteServer
    <2>1. PICK t : t = EntryAssets(m, name)
      OBVIOUS
    <2>2. t \in AllTags
      BY <1>2, <2>1 DEF AllTags
    <2>3. t = [build |-> m.build, js |-> name, css |-> Firsts(Collect(m.chunks, name))]
      BY <1>2, <2>1 DEF EntryAssets
    <2>4. t.build = m.build
      BY <2>3
    <2>5. QED
      BY <1>2, <2>1, <2>2, <2>4
  <1>3. QED
    BY <1>1, <1>2

(* A tag that is not the Vite server's has a build.                        *)
LEMMA TagBuilds ==
    ASSUME NEW t \in AllTags, t # ViteServer PROVE t.build \in Nat
  <1>1. PICK m \in Manifests, name \in STRING : t = EntryAssets(m, name) /\ t # NoManifest
    BY DEF AllTags
  <1>2. t.build = m.build
    BY <1>1, TagsAre
  <1>3. QED
    BY <1>2, IslandAssumption DEF Manifests

(* A new process has loaded nothing.                                       *)
LEMMA StartsAnew ==
    ASSUME IslandShape, Starts, UNCHANGED <<dist, builds>>
    PROVE  IslandShape' /\ InTurn' /\ PagesLinked'
  <1>1. manager' = NoManifest /\ NoManifest \notin Manifests
    BY IslandAssumption DEF Starts
  <1>2. \A p \in PageRenders : mount'[p] = NoMount
    BY DEF Starts
  <1>3. \A r \in Remounts : reading'[r] = NoManifest
    BY DEF Starts
  <1>4. IslandShape'
    BY <1>1, <1>3, NoMountIs DEF IslandShape, Starts
  <1>5. InTurn'
    BY <1>1, <1>3 DEF InTurn, Starts
  <1>6. PagesLinked'
    BY <1>1, <1>2, NoMountIs DEF PagesLinked, Starts
  <1>7. QED
    BY <1>4, <1>5, <1>6

(* Vite changes the directory only.                                        *)
LEMMA ViteStep ==
    ASSUME IslandShape, InTurn, PagesLinked, ViteEmpties \/ ViteTears \/ ViteWrites
    PROVE  IslandShape' /\ InTurn' /\ PagesLinked'
  <1> USE IslandAssumption
  <1>1. UNCHANGED <<manager, reading, mount, current, overlapped>>
    BY DEF ViteEmpties, ViteTears, ViteWrites, Vite
  <1>2. InTurn' /\ PagesLinked'
    BY <1>1 DEF InTurn, PagesLinked
  <1>3. /\ builds' \in 0 .. MaxViteBuilds /\ builds <= builds' /\ builds \in Nat /\ builds' \in Nat
        /\ dist' \in {NoManifest, Garbled} \cup Manifests /\ (dist' \in Manifests => dist'.build = builds')
    <2>1. CASE ViteEmpties \/ ViteTears
      BY <2>1 DEF ViteEmpties, ViteTears, Vite, IslandShape
    <2>2. CASE ViteWrites
      <3>1. PICK g \in ChunkGraphs : dist' = [build |-> builds, chunks |-> g]
        BY <2>2 DEF ViteWrites, Vite
      <3>2. builds' = builds /\ builds \in 1 .. MaxViteBuilds
        BY <2>2 DEF ViteWrites, IslandShape
      <3>3. dist' \in Manifests /\ dist'.build = builds
        BY <3>1, <3>2 DEF Manifests
      <3>4. QED
        BY <3>2, <3>3
    <2>3. QED
      BY <2>1, <2>2
  <1>4. \A m \in Manifests : m.build \in Nat
    BY DEF Manifests
  <1>5. \A r \in Remounts : reading[r] # NoManifest => reading[r] \in Manifests
    BY DEF IslandShape
  <1>6. IslandShape'
    BY <1>1, <1>3, <1>4, <1>5 DEF IslandShape
  <1>7. QED
    BY <1>2, <1>6

(* The manager is made of what is there.                                   *)
LEMMA MountStep ==
    ASSUME IslandShape, InTurn, PagesLinked, MountIslands
    PROVE  IslandShape' /\ InTurn' /\ PagesLinked'
  <1> USE IslandAssumption
  <1>1. /\ manager = NoManifest
        /\ manager' = ViteServer \/ (manager' = dist /\ dist \in Manifests)
        /\ UNCHANGED <<dist, builds, reading, mount, current, overlapped>>
    BY DEF MountIslands, Loads, IslandShape
  <1>a. manager' # NoManifest /\ ViteServer \notin Manifests
    BY <1>1
  <1>2. current = 0 /\ \A p \in PageRenders : mount[p] = NoMount
    BY <1>1 DEF InTurn, PagesLinked
  <1>3. \A r \in Remounts : reading[r] = NoManifest
    BY <1>1 DEF IslandShape
  <1>4. \A m \in Manifests : m.build \in Nat
    BY DEF Manifests
  <1>5. IslandShape'
    BY <1>1, <1>3, <1>4, <1>a DEF IslandShape
  <1>6. InTurn'
    BY <1>1, <1>2, <1>3, <1>4, <1>a DEF InTurn
  <1>7. PagesLinked'
    BY <1>1, <1>2, NoMountIs DEF PagesLinked
  <1>8. QED
    BY <1>5, <1>6, <1>7

(* What is read is as new as anything the manager has.                     *)
LEMMA ReadsStep ==
    ASSUME IslandShape, InTurn, PagesLinked, NEW r \in Remounts, ReloadReads(r)
    PROVE  IslandShape' /\ InTurn' /\ PagesLinked'
  <1> USE IslandAssumption
  <1>1. /\ manager \in Manifests /\ dist \in Manifests /\ dist.build = builds /\ manager.build <= builds
        /\ reading' = [reading EXCEPT ![r] = dist]
        /\ UNCHANGED <<dist, builds, manager, mount, current>>
    BY DEF ReloadReads, Loads, IslandShape
  <1>2. overlapped' \in BOOLEAN /\ (~overlapped' => ~overlapped /\ \A q \in Remounts : reading[q] = NoManifest)
    BY DEF ReloadReads
  <1>3. \A q \in Remounts : reading'[q] = IF q = r THEN dist ELSE reading[q]
    BY <1>1 DEF IslandShape
  <1>4. manager.build \in Nat /\ builds \in Nat
    BY <1>1 DEF Manifests, IslandShape
  <1>5. IslandShape'
    BY <1>1, <1>2, <1>3, <1>4 DEF IslandShape
  <1>6. InTurn'
    BY <1>1, <1>2, <1>3, <1>4 DEF InTurn
  <1>7. PagesLinked'
    BY <1>1, <1>2 DEF PagesLinked
  <1>8. QED
    BY <1>5, <1>6, <1>7

(* What is loaded in turn is as new as what it replaces.                   *)
LEMMA SetsStep ==
    ASSUME IslandShape, InTurn, PagesLinked, NEW r \in Remounts, ReloadSets(r)
    PROVE  IslandShape' /\ InTurn' /\ PagesLinked'
  <1> USE IslandAssumption
  <1>1. /\ reading[r] # NoManifest /\ reading' = [reading EXCEPT ![r] = NoManifest]
        /\ manager' = reading[r] /\ UNCHANGED <<dist, builds, overlapped>>
        /\ current' = IF reading[r].build > current THEN reading[r].build ELSE current
        /\ mount' = [p \in PageRenders |->
                       IF mount[p] = NoMount THEN NoMount ELSE [mount[p] EXCEPT !.alone = FALSE]]
    BY DEF ReloadSets, Reloaded
  <1>2. /\ reading[r] \in Manifests /\ manager \in Manifests /\ reading[r].build <= builds
        /\ reading[r].build \in Nat /\ manager.build \in Nat
    BY <1>1 DEF IslandShape, Manifests
  <1>3. \A q \in Remounts : reading'[q] = IF q = r THEN NoManifest ELSE reading[q]
    BY <1>1 DEF IslandShape
  <1>4. current \in Nat /\ current' \in Nat /\ current <= current'
    BY <1>1, <1>2 DEF IslandShape
  <1>5. \A p \in PageRenders : /\ mount'[p] \in Mounts
                               /\ mount'[p].floor = mount[p].floor /\ mount'[p].tags = mount[p].tags
                               /\ mount'[p].alone => mount'[p] = NoMount
    <2>1. SUFFICES ASSUME NEW p \in PageRenders
                   PROVE  /\ mount'[p] \in Mounts
                          /\ mount'[p].floor = mount[p].floor /\ mount'[p].tags = mount[p].tags
                          /\ mount'[p].alone => mount'[p] = NoMount
      OBVIOUS
    <2>2. mount[p] \in Mounts
      BY DEF IslandShape
    <2>3. CASE mount[p] = NoMount
      BY <1>1, <2>2, <2>3
    <2>4. CASE mount[p] # NoMount
      BY <1>1, <2>2, <2>4 DEF Mounts
    <2>5. QED
      BY <2>3, <2>4
  <1>6. IslandShape'
    BY <1>1, <1>2, <1>3, <1>4, <1>5 DEF IslandShape
  <1>7. InTurn'
    <2>1. ~overlapped => \A q \in Remounts : reading'[q] = NoManifest
      BY <1>1, <1>3 DEF InTurn
    <2>2. ~overlapped => current' <= reading[r].build
      BY <1>1, <1>2, <1>4 DEF InTurn
    <2>3. QED
      BY <1>1, <1>2, <2>1, <2>2 DEF InTurn
  <1>8. PagesLinked'
    <2>1. \A p \in PageRenders : mount'[p].floor \in Nat /\ mount'[p].floor <= current'
      BY <1>4, <1>5 DEF PagesLinked, IslandShape, Mounts
    <2>2. \A p \in PageRenders : mount'[p].alone => mount'[p].tags = <<>>
      BY <1>5 DEF NoMount, Page
    <2>3. QED
      BY <1>1, <1>2, <1>5, <2>1, <2>2 DEF PagesLinked
  <1>9. QED
    BY <1>6, <1>7, <1>8

(* A page begins, gets tags or is done with: the rest stays.               *)
LEMMA PageChanges ==
    ASSUME IslandShape, InTurn, PagesLinked, NEW p \in PageRenders, NEW x \in Mounts,
           mount' = [mount EXCEPT ![p] = x], x = NoMount \/ manager # NoManifest, x.floor <= current,
           \A i \in DOMAIN x.tags : x.tags[i] # ViteServer =>
               /\ manager \in Manifests
               /\ x.alone => x.tags[i].build = manager.build
               /\ ~overlapped => x.tags[i].build >= x.floor,
           UNCHANGED <<dist, builds, manager, reading, current, overlapped>>
    PROVE  IslandShape' /\ InTurn' /\ PagesLinked'
  <1>1. \A q \in PageRenders : mount'[q] = IF q = p THEN x ELSE mount[q]
    BY DEF IslandShape
  <1>2. IslandShape'
    BY <1>1 DEF IslandShape
  <1>3. InTurn'
    BY DEF InTurn
  <1>4. PagesLinked'
    BY <1>1 DEF PagesLinked
  <1>5. QED
    BY <1>2, <1>3, <1>4

(* A page takes the tags of an island from the manifest that is loaded.    *)
LEMMA LinkStep ==
    ASSUME IslandShape, InTurn, PagesLinked, NEW p \in PageRenders, Link(p)
    PROVE  IslandShape' /\ InTurn' /\ PagesLinked'
  <1> USE IslandAssumption
  <1>1. PICK page : page = mount[p] /\ page \in Mounts
    BY DEF IslandShape
  <1>2. PICK name, tags : name = Head(page.left) /\ tags = EntryAssets(manager, name)
    OBVIOUS
  <1>3. page.left # <<>> /\ page.left \in Seq(STRING) /\ page.tags \in Seq(AllTags)
    BY <1>1 DEF Link, Mounts
  <1>4. name \in STRING /\ Tail(page.left) \in Seq(STRING)
    BY <1>2, <1>3, HeadAndTail
  <1>5. page # NoMount
    BY <1>3 DEF NoMount, Page
  <1>6. manager # NoManifest /\ manager \in {ViteServer} \cup Manifests
    BY <1>1, <1>5 DEF PagesLinked, IslandShape
  <1>7. PICK x : x = Linked(page, tags)
    OBVIOUS
  <1>8. mount' = [mount EXCEPT ![p] = x] /\ UNCHANGED <<dist, builds, manager, reading, current, overlapped>>
    BY <1>1, <1>2, <1>7 DEF Link
  <1>9. CASE tags = NoManifest
    <2>1. x = NoMount /\ 0 <= current
      BY <1>7, <1>9 DEF IslandShape, Linked
    <2>2. QED
      BY <1>8, <2>1, NoMountIs, PageChanges
  <1>10. CASE tags # NoManifest
    <2>1. tags \in AllTags /\ (tags # ViteServer => manager \in Manifests /\ tags.build = manager.build)
      BY <1>2, <1>4, <1>6, <1>10, TagsAre
    <2>2. PICK all : all = Append(page.tags, tags) /\ all \in Seq(AllTags)
      BY <1>3, <2>1, Longer
    <2>3. \A i \in DOMAIN all : all[i] = tags \/ (i \in DOMAIN page.tags /\ all[i] = page.tags[i])
      BY <1>3, <2>1, <2>2, Longer
    <2>4. x = [left |-> Tail(page.left), tags |-> all, floor |-> page.floor, alone |-> page.alone]
      BY <1>1, <1>7, <1>10, <2>2 DEF Mounts, Linked
    <2>5. x \in Mounts /\ x.floor <= current
      BY <1>1, <1>4, <2>2, <2>4 DEF Mounts, PagesLinked
    <2>6. ~overlapped /\ manager \in Manifests => manager.build >= page.floor
      <3>1. page.floor <= current /\ page.floor \in Nat /\ current \in Nat
        BY <1>1 DEF PagesLinked, Mounts, IslandShape
      <3>2. manager \in Manifests => manager.build \in Nat
        BY DEF Manifests
      <3>3. QED
        BY <3>1, <3>2 DEF InTurn
    <2>7. ASSUME NEW i \in DOMAIN x.tags, x.tags[i] # ViteServer
          PROVE  /\ manager \in Manifests
                 /\ x.alone => x.tags[i].build = manager.build
                 /\ ~overlapped => x.tags[i].build >= x.floor
      <3>1. i \in DOMAIN all /\ x.tags[i] = all[i] /\ x.alone = page.alone /\ x.floor = page.floor
        BY <2>4, <2>7
      <3>2. CASE all[i] = tags
        BY <2>1, <2>6, <2>7, <3>1, <3>2
      <3>3. CASE i \in DOMAIN page.tags /\ all[i] = page.tags[i]
        BY <1>1, <2>7, <3>1, <3>3 DEF PagesLinked
      <3>4. QED
        BY <2>3, <3>1, <3>2, <3>3
    <2>8. QED
      BY <1>6, <1>8, <2>5, <2>7, PageChanges
  <1>11. QED
    BY <1>9, <1>10

(* Every step keeps what pages are linked with.                            *)
LEMMA IslandStep ==
    ASSUME IslandShape, InTurn, PagesLinked, [IslandNext]_islandVars
    PROVE  IslandShape' /\ InTurn' /\ PagesLinked'
  <1>1. CASE ViteEmpties \/ ViteTears \/ ViteWrites
    BY <1>1, ViteStep
  <1>2. CASE MountIslands
    BY <1>2, MountStep
  <1>3. ASSUME NEW r \in Remounts, ReloadReads(r) \/ ReloadSets(r)
        PROVE  IslandShape' /\ InTurn' /\ PagesLinked'
    BY <1>3, ReadsStep, SetsStep
  <1>4. ASSUME NEW p \in PageRenders, NEW names \in PageIslands, RenderBegins(p, names)
        PROVE  IslandShape' /\ InTurn' /\ PagesLinked'
    <2>1. PICK x : x = [left |-> names, tags |-> <<>>, floor |-> current, alone |-> TRUE]
      OBVIOUS
    <2>2. names \in Seq(STRING) /\ current \in Nat
      BY IslandAssumption DEF IslandShape
    <2>3. x \in Mounts /\ x.tags = <<>> /\ x.floor = current
      BY <2>1, <2>2 DEF Mounts
    <2>4. mount' = [mount EXCEPT ![p] = x] /\ manager # NoManifest
      BY <1>4, <2>1 DEF RenderBegins, Page
    <2>5. UNCHANGED <<dist, builds, manager, reading, current, overlapped>> /\ current <= current
      BY <1>4, <2>2 DEF RenderBegins
    <2>6. \A i \in DOMAIN x.tags : FALSE
      BY <2>3
    <2>7. QED
      BY <2>3, <2>4, <2>5, <2>6, PageChanges
  <1>5. ASSUME NEW p \in PageRenders, Link(p) PROVE IslandShape' /\ InTurn' /\ PagesLinked'
    BY <1>5, LinkStep
  <1>6. ASSUME NEW p \in PageRenders, Crash(p) PROVE IslandShape' /\ InTurn' /\ PagesLinked'
    BY <1>6, StartsAnew DEF Crash
  <1>7. ASSUME NEW p \in PageRenders, Sent(p) PROVE IslandShape' /\ InTurn' /\ PagesLinked'
    <2>1. /\ mount' = [mount EXCEPT ![p] = NoMount]
          /\ UNCHANGED <<dist, builds, manager, reading, current, overlapped>>
      BY <1>7 DEF Sent
    <2>2. NoMount.floor <= current
      BY NoMountIs DEF IslandShape
    <2>3. QED
      BY <2>1, <2>2, NoMountIs, PageChanges
  <1>8. CASE UNCHANGED islandVars
    BY <1>8 DEF islandVars, IslandShape, InTurn, PagesLinked
  <1>9. QED
    BY <1>1, <1>2, <1>3, <1>4, <1>5, <1>6, <1>7, <1>8 DEF IslandNext

(* Nothing is loaded at first.                                             *)
LEMMA IslandsInit ==
    ASSUME IslandInit PROVE IslandShape /\ InTurn /\ PagesLinked
  <1>1. NoManifest \notin Manifests
    BY IslandAssumption
  <1>2. IslandShape
    <2>1. builds \in 0 .. MaxViteBuilds /\ current \in Nat /\ overlapped \in BOOLEAN
      <3>1. MaxViteBuilds \in Nat
        BY IslandAssumption
      <3>2. builds = 0 /\ current = 0
        BY DEF IslandInit
      <3>3. overlapped \in BOOLEAN
        BY Zenon DEF IslandInit
      <3>4. QED
        BY <3>1, <3>2, <3>3
    <2>2. mount \in [PageRenders -> Mounts]
      BY NoMountIs DEF IslandInit
    <2>3. reading \in [Remounts -> {NoManifest} \cup Manifests] /\ \A r \in Remounts : reading[r] = NoManifest
      BY DEF IslandInit
    <2>4. QED
      BY <1>1, <2>1, <2>2, <2>3 DEF IslandInit, IslandShape
  <1>3. InTurn /\ PagesLinked
    BY <1>1, NoMountIs DEF IslandInit, InTurn, PagesLinked
  <1>4. QED
    BY <1>2, <1>3

(* What the invariant says of two tags.                                    *)
LEMMA LinkedIsCurrent ==
    ASSUME IslandShape, PagesLinked PROVE LinksAreCurrent
  BY DEF PagesLinked, LinksAreCurrent

(* For any manifests, cyclic ones too, any pages and any number of renders *)
(* and of goroutines that reload: a page's islands are of one build unless *)
(* a ReloadManifest ended meanwhile, and where no two overlapped never of  *)
(* a build older than one loaded before (island.go:146-160, 225-283).      *)
THEOREM LinksCurrent == IslandSpec => []LinksAreCurrent
  <1> DEFINE I == IslandShape /\ InTurn /\ PagesLinked
  <1>1. IslandInit => I
    BY IslandsInit
  <1>2. I /\ [IslandNext]_islandVars => I'
    BY IslandStep
  <1>3. I => LinksAreCurrent
    BY LinkedIsCurrent
  <1>4. QED
    BY <1>1, <1>2, <1>3, PTL DEF IslandSpec

-----------------------------------------------------------------------------
(* What "irmik dev", "irmik build" and the islands promise holds of the    *)
(* whole site, whichever of them a behaviour runs.                         *)
THEOREM SitesKeepPromises == SitesSpec =>
    [](EditsVisible /\ SitemapHasFiles /\ ExportIsServed /\ LinksAreCurrent)
  <1> DEFINE I == /\ SiteShape /\ MapInv /\ ExportInv /\ DevTypes /\ DevInv
                /\ IslandShape /\ InTurn /\ PagesLinked
  <1>1. SitesInit => I
    <2>1. SiteInit => MapInv /\ ExportInv
      BY DEF SiteInit, MapInv, ExportInv, Safe, Exports
    <2>2. QED
      BY <2>1, ShapeInit, DevTypesInit, DevInvInit, IslandsInit DEF SitesInit
  <1>2. I /\ [SitesNext]_<<command, vars, siteVars, islandVars>> => I'
    <2>1. [SitesNext]_<<command, vars, siteVars, islandVars>> =>
              [SiteNext]_siteVars /\ [Next]_vars /\ [IslandNext]_islandVars
      BY DEF SitesNext
    <2>2. QED
      BY <2>1, TypesStep, MapStep, ExportStep, EngineStep, RequestStep, DevStep, IslandStep DEF DevTypes
  <1>3. I => EditsVisible /\ SitemapHasFiles /\ ExportIsServed /\ LinksAreCurrent
    BY FreshIsVisible, ExportServes, LinkedIsCurrent DEF MapInv, Named, SitemapHasFiles
  <1>4. QED
    BY <1>1, <1>2, <1>3, PTL DEF SitesSpec

=============================================================================
