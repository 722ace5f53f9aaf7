CONSTANTS
    page = page
    Chain <- OnePage
    Partial = partial
    Dirs = {d}
    Tabs = {t1, t2}
    Browsers = {t1}
    Fires = {g1}
    Cap = 2
    MaxChanges = 2
    None = None
    PageDirs <- PageDirsModel
    PostSlugs <- SlugsModel
    SafeName <- SafeModel
    Index = "index.html"
    DotHtml <- HtmlModel
    PublicTrees <- PublicModel
    WithLoader <- LoaderModel
    Listed <- PageDirsModel
    PageModes = {"static", "ssr", "isr"}
    Gone = Gone
    Broken = Broken
    Torn = Torn
    Public = Public
    MaxSiteEdits = 1
    ChunkGraphs <- GraphsModel
    PageIslands <- PagesModel
    Remounts = {r1, r2}
    PageRenders = {p1}
    NoManifest = NoManifest
    Garbled = Garbled
    ViteServer = ViteServer
    MaxViteBuilds = 2
SPECIFICATION SitesSpec
INVARIANTS EditsVisible SitemapHasFiles ExportIsServed LinksAreCurrent
PROPERTY SavesRefresh
CHECK_DEADLOCK FALSE
