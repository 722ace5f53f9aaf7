----------------------------- MODULE DevReload -----------------------------
(***************************************************************************)
(* Live reload of "irmik dev": hmr.Watch turns changes of template files   *)
(* into calls of onChange, which reload render.Engine and tell the         *)
(* browsers through the overlay; meanwhile requests compile templates and  *)
(* cache them in the engine.                                               *)
(*                                                                         *)
(* A template file is the number of its last save and whether that parses. *)
(* A page is rendered from the templates of Chain, one after the other,    *)
(* each parsed into a clone of the shared partials (one file here).        *)
(***************************************************************************)
EXTENDS Naturals, Sequences, SequencesExt

CONSTANTS
    Chain,      \* the page and its layouts, in the order Render takes them
    Partial,    \* the file in TemplatesDir
    Dirs,       \* directories made while the command runs
    Tabs,       \* browser tabs and other clients
    Browsers,   \* those that run the script of the overlay
    Fires,      \* bound: calls of onChange at a time
    Cap,        \* capacity of a tab's events (16 in the code)
    MaxChanges, \* bound: saves and new directories
    None        \* no compiled template

Pages == Range(Chain)
Files == Pages \cup {Partial}
Versions == 0 .. MaxChanges
Templates == [ver : Versions, partial : Versions]

ASSUME DevAssumption ==
    /\ Partial \notin Pages /\ Files \cap Dirs = {} /\ Browsers \subseteq Tabs
    /\ Chain \in Seq(Pages) /\ Chain # <<>> /\ Cap \in Nat \ {0} /\ MaxChanges \in Nat
    /\ None \notin [ver : Nat, partial : Nat]

VARIABLES
    disk,       \* the files
    made,       \* the directories made so far
    watching,   \* hmr.Watch has not returned
    watched,    \* the new directories its watcher was given
    unread,     \* w.Events: the paths of changes the loop has not received
    timer,      \* "idle" or "armed"
    fire,       \* control state of each call of onChange
    failed,     \* its reloadErr is set
    partials,   \* Engine.partials: the version of the file
    compiled,   \* Engine.compiled
    compileGen, \* Engine.compileGen
    tab,        \* control state of each tab and its request
    at,         \* the position in Chain its request is at
    gen, part,  \* what getCompiled read under the lock
    body,       \* the version of the file it read
    seen,       \* the templates its page is made from, until that is shown
    events,     \* the channel of its overlay
    floor,      \* history: the files at the last successful Reload
    since,      \* history: floor when the request of the tab began
    owed        \* history: tabs that were connected at a save

watch == <<watching, watched, unread, timer>>
engine == <<partials, compiled, compileGen, floor>>
reload == <<fire, failed>>
request == <<at, gen, part, body, seen, since>>
overlay == <<tab, events, owed>>
vars == <<disk, made, watch, engine, reload, request, overlay>>

Current == [f \in Files |-> disk[f].ver]

Init ==
    /\ disk = [f \in Files |-> [ver |-> 0, ok |-> TRUE]] /\ made = {}
    /\ watching = TRUE /\ watched = {} /\ unread = <<>> /\ timer = "idle"
    /\ fire = [g \in Fires |-> "idle"] /\ failed = [g \in Fires |-> FALSE]
    /\ partials = 0 /\ compiled = [f \in Pages |-> None] /\ compileGen = 0
    /\ tab = [t \in Tabs |-> "closed"] /\ at = [t \in Tabs |-> 1]
    /\ gen = [t \in Tabs |-> 0] /\ part = [t \in Tabs |-> 0]
    /\ body = [t \in Tabs |-> 0]
    /\ seen = [t \in Tabs |-> [f \in Pages |-> None]]
    /\ events = [t \in Tabs |-> <<>>]
    /\ floor = Current /\ since = [t \in Tabs |-> floor] /\ owed = {}

-----------------------------------------------------------------------------
(* The developer and the file system.  Files of watched directories give   *)
(* events; the directories of Files are watched from the start.            *)

Changes == FoldSet(LAMBDA f, n : n + disk[f].ver, Cardinality(made), Files)

Save(f, ok) ==
    /\ Changes < MaxChanges
    /\ disk' = [disk EXCEPT ![f] = [ver |-> @.ver + 1, ok |-> ok]]
    /\ unread' = Append(unread, f)
    /\ owed' = owed \cup {t \in Tabs : tab[t] = "live"}
    /\ UNCHANGED <<made, watching, watched, timer, engine, reload, request, tab, events>>

MakeDir(d) ==
    /\ Changes < MaxChanges
    /\ d \notin made /\ made' = made \cup {d}
    /\ unread' = Append(unread, d)
    /\ UNCHANGED <<disk, watching, watched, timer, engine, reload, request, overlay>>

-----------------------------------------------------------------------------
(* hmr.Watch                                                               *)

FaultyMatches(p) == p \in Pages     \* variant: the partials' extension is missing

(* matchExt with the extensions of the command: names of directories have  *)
(* none of them.                                                           *)
Matches(p) == p \in Files

WatchReceives ==
    /\ watching /\ unread # <<>> /\ unread' = Tail(unread)
    /\ IF Matches(Head(unread))
       THEN /\ watched' = watched \cup ({Head(unread)} \cap Dirs)
            /\ timer' = "armed"
       ELSE UNCHANGED <<watched, timer>>
    /\ UNCHANGED <<disk, made, watching, engine, reload, request, overlay>>

(* An error of the watcher, such as an overflow, ends Watch; its caller    *)
(* drops the error.  A timer that is armed fires all the same.             *)
WatchFails ==
    /\ watching /\ watching' = FALSE
    /\ UNCHANGED <<disk, made, watched, unread, timer, engine, reload, request, overlay>>

TimerFires ==
    /\ timer = "armed" /\ timer' = "idle"
    /\ \E g \in Fires : fire[g] = "idle" /\ fire' = [fire EXCEPT ![g] = "reload"]
    /\ UNCHANGED <<disk, made, watching, watched, unread, engine, failed,
                   request, overlay>>

-----------------------------------------------------------------------------
(* onChange: Renderer.Reload, then RemountPages, which reloads once more   *)
(* (and reads the routes again, which only the overlay lists; no           *)
(* _meta.yaml is broken here), then the overlay.                           *)

(* Variant: the generation is not bumped.                                  *)
FaultyReload ==
    /\ partials' = disk[Partial].ver
    /\ compiled' = [f \in Pages |-> None]
    /\ floor' = Current
    /\ UNCHANGED compileGen

(* Engine.Reload of a partial that parses; one that does not changes       *)
(* nothing.                                                                *)
Reload ==
    /\ partials' = disk[Partial].ver
    /\ compiled' = [f \in Pages |-> None]
    /\ compileGen' = compileGen + 1
    /\ floor' = Current

Fire(g, from, to) == fire[g] = from /\ fire' = [fire EXCEPT ![g] = to]

ReloadEngine(g) ==
    /\ Fire(g, "reload", "remount")
    /\ IF disk[Partial].ok THEN Reload ELSE UNCHANGED engine
    /\ failed' = [failed EXCEPT ![g] = ~disk[Partial].ok]
    /\ UNCHANGED <<disk, made, watch, request, overlay>>

RemountPages(g) ==
    /\ Fire(g, "remount", "tell")
    /\ IF disk[Partial].ok THEN Reload ELSE UNCHANGED engine
    /\ failed' = [failed EXCEPT ![g] = @ \/ ~disk[Partial].ok]
    /\ UNCHANGED <<disk, made, watch, request, overlay>>

(* Dev.broadcast: a tab whose channel is full misses the event.            *)
Broadcast(e) ==
    events' = [t \in Tabs |-> IF tab[t] = "live" /\ Len(events[t]) < Cap
                              THEN Append(events[t], e) ELSE events[t]]

Tell(g) ==
    /\ Fire(g, "tell", "idle")
    /\ Broadcast(IF failed[g] THEN "problem" ELSE "reload")
    /\ failed' = [failed EXCEPT ![g] = FALSE]
    /\ UNCHANGED <<disk, made, watch, engine, request, tab, owed>>

-----------------------------------------------------------------------------
(* A request for the page: Engine.Render and getCompiled.                  *)

Begin(t) ==
    /\ tab' = [tab EXCEPT ![t] = "lookup"] /\ at' = [at EXCEPT ![t] = 1]
    /\ since' = [since EXCEPT ![t] = floor]
    /\ seen' = [seen EXCEPT ![t] = [f \in Pages |-> None]]

Open(t) ==
    /\ tab[t] = "closed" /\ Begin(t)
    /\ UNCHANGED <<disk, made, watch, engine, reload, gen, part, body, events, owed>>

(* The template is there: Render goes on to the next one.  What            *)
(* getCompiled kept in its variables is gone.                              *)
Uses(t, tmpl) ==
    /\ gen' = [gen EXCEPT ![t] = 0] /\ part' = [part EXCEPT ![t] = 0]
    /\ body' = [body EXCEPT ![t] = 0]
    /\ seen' = [seen EXCEPT ![t][Chain[at[t]]] = tmpl]
    /\ IF at[t] = Len(Chain)
       THEN tab' = [tab EXCEPT ![t] = "page"] /\ UNCHANGED at
       ELSE tab' = [tab EXCEPT ![t] = "lookup"] /\ at' = [at EXCEPT ![t] = @ + 1]

LookupHits(t) ==
    /\ tab[t] = "lookup" /\ compiled[Chain[at[t]]] # None
    /\ Uses(t, compiled[Chain[at[t]]])
    /\ UNCHANGED <<disk, made, watch, engine, reload, since, events, owed>>

LookupMisses(t) ==
    /\ tab[t] = "lookup" /\ compiled[Chain[at[t]]] = None
    /\ gen' = [gen EXCEPT ![t] = compileGen] /\ part' = [part EXCEPT ![t] = partials]
    /\ tab' = [tab EXCEPT ![t] = "read"]
    /\ UNCHANGED <<disk, made, watch, engine, reload, at, body, seen, since, events, owed>>

(* os.ReadFile and Parse; a file that does not parse gives an error page,  *)
(* with the overlay in it.                                                 *)
ReadFile(t) ==
    LET f == Chain[at[t]] IN
    /\ tab[t] = "read"
    /\ body' = [body EXCEPT ![t] = disk[f].ver]
    /\ tab' = [tab EXCEPT ![t] = IF disk[f].ok THEN "store" ELSE "error"]
    /\ UNCHANGED <<disk, made, watch, engine, reload, at, gen, part, seen, since, events, owed>>

Store(t) ==
    LET f == Chain[at[t]]
        own == [ver |-> body[t], partial |-> part[t]] IN
    /\ tab[t] = "store"
    /\ IF compileGen = gen[t]
       THEN /\ compiled' = [compiled EXCEPT ![f] = IF @ = None THEN own ELSE @]
            /\ Uses(t, compiled'[f])
       ELSE UNCHANGED compiled /\ Uses(t, own)
    /\ UNCHANGED <<disk, made, watch, partials, compileGen, floor, reload,
                   since, events, owed>>

-----------------------------------------------------------------------------
(* The overlay in the page: an EventSource, and location.reload.           *)

(* A request has ended: its variables are gone.                            *)
Ended(t) ==
    /\ tab[t] \in {"page", "error"}
    /\ at' = [at EXCEPT ![t] = 1] /\ gen' = [gen EXCEPT ![t] = 0]
    /\ part' = [part EXCEPT ![t] = 0] /\ body' = [body EXCEPT ![t] = 0]
    /\ seen' = [seen EXCEPT ![t] = [f \in Pages |-> None]]
    /\ since' = [since EXCEPT ![t] = [f \in Files |-> 0]]

Subscribe(t) ==
    /\ Ended(t) /\ t \in Browsers
    /\ tab' = [tab EXCEPT ![t] = "live"]
    /\ UNCHANGED <<disk, made, watch, engine, reload, events, owed>>

Done(t) ==
    /\ Ended(t) /\ t \notin Browsers
    /\ tab' = [tab EXCEPT ![t] = "closed"]
    /\ UNCHANGED <<disk, made, watch, engine, reload, events, owed>>

(* The tab is closed: the handler of its stream unsubscribes.              *)
Unsubscribe(t) ==
    /\ tab[t] = "live" /\ tab' = [tab EXCEPT ![t] = "closed"]
    /\ events' = [events EXCEPT ![t] = <<>>] /\ owed' = owed \ {t}
    /\ UNCHANGED <<disk, made, watch, engine, reload, request>>

Refresh(t) ==
    /\ tab[t] = "live" /\ events[t] # <<>> /\ Head(events[t]) = "reload"
    /\ Begin(t)
    /\ events' = [events EXCEPT ![t] = <<>>] /\ owed' = owed \ {t}
    /\ UNCHANGED <<disk, made, watch, engine, reload, gen, part, body>>

ShowProblem(t) ==
    /\ tab[t] = "live" /\ events[t] # <<>> /\ Head(events[t]) = "problem"
    /\ events' = [events EXCEPT ![t] = Tail(@)]
    /\ UNCHANGED <<disk, made, watch, engine, reload, request, tab, owed>>

-----------------------------------------------------------------------------
OnChange(g) == ReloadEngine(g) \/ RemountPages(g) \/ Tell(g)

Request(t) == LookupHits(t) \/ LookupMisses(t) \/ ReadFile(t) \/ Store(t)

Overlay(t) == Subscribe(t) \/ Done(t) \/ Refresh(t) \/ ShowProblem(t)

Next ==
    \/ \E f \in Files, ok \in BOOLEAN : Save(f, ok)
    \/ \E d \in Dirs : MakeDir(d)
    \/ WatchReceives \/ WatchFails \/ TimerFires
    \/ \E g \in Fires : OnChange(g)
    \/ \E t \in Tabs : Open(t) \/ Request(t) \/ Overlay(t) \/ Unsubscribe(t)

Spec == Init /\ [][Next]_vars

(* Goroutines run and timers fire; nothing is assumed of the developer,    *)
(* of tabs being opened, or of the watcher not failing.                    *)
Fairness ==
    /\ WF_vars(WatchReceives) /\ WF_vars(TimerFires)
    /\ \A g \in Fires : WF_vars(OnChange(g))
    /\ \A t \in Tabs : WF_vars(Request(t)) /\ WF_vars(Overlay(t))

-----------------------------------------------------------------------------
TypeOK ==
    /\ disk \in [Files -> [ver : Versions, ok : BOOLEAN]] /\ made \subseteq Dirs
    /\ watching \in BOOLEAN /\ watched \subseteq Dirs
    /\ unread \in Seq(Files \cup Dirs) /\ timer \in {"idle", "armed"}
    /\ fire \in [Fires -> {"idle", "reload", "remount", "tell"}]
    /\ failed \in [Fires -> BOOLEAN]
    /\ partials \in Versions /\ compiled \in [Pages -> Templates \cup {None}]
    /\ compileGen \in Nat
    /\ tab \in [Tabs -> {"closed", "lookup", "read", "store", "page", "error", "live"}]
    /\ at \in [Tabs -> DOMAIN Chain] /\ gen \in [Tabs -> Nat]
    /\ part \in [Tabs -> Versions] /\ body \in [Tabs -> Versions]
    /\ seen \in [Tabs -> [Pages -> Templates \cup {None}]]
    /\ events \in [Tabs -> Seq({"reload", "problem"})]
    /\ \A t \in Tabs : Len(events[t]) <= Cap
    /\ floor \in [Files -> Versions] /\ since \in [Tabs -> [Files -> Versions]]
    /\ owed \subseteq Tabs

(* "Disk edits are visible after Reload" (docs/architecture.md:9): what a  *)
(* request uses is never older than the last Reload before it began, also  *)
(* when another request compiled it and stored it late (render.go:253).    *)
EditsVisible ==
    \A t \in Tabs, f \in Pages : seen[t][f] # None =>
        seen[t][f].ver >= since[t][f] /\ seen[t][f].partial >= since[t][Partial]

(* "irmik dev live-reloads the tab after app/ or templates/ saves"         *)
(* (docs/catalog.md:257): a tab that was connected at a save is refreshed, *)
(* unless the partials do not parse, its channel is full or Watch ended.   *)
SavesRefresh ==
    \A t \in Browsers : t \in owed ~>
        t \notin owed \/ ~disk[Partial].ok \/ Len(events[t]) = Cap \/ ~watching

(* "Watch new directories." (hmr.go:78): a directory whose creation the    *)
(* loop has received is watched.                                           *)
NewDirsWatched ==
    watching => \A d \in made : d \in watched \/ \E i \in DOMAIN unread : unread[i] = d

=============================================================================
