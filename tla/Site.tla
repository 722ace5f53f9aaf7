-------------------------------- MODULE Site -------------------------------
(***************************************************************************)
(* How the pages of a site come about: templates that "irmik dev" reloads  *)
(* while they are edited, the export of "irmik build", and the islands     *)
(* linked into pages.  They share nothing: a behaviour uses one of them.   *)
(***************************************************************************)
EXTENDS DevReload, StaticExport, Islands

VARIABLE command    \* "dev", "build" or "islands"

SitesInit ==
    /\ Init /\ SiteInit /\ IslandInit
    /\ command \in {"dev", "build", "islands"}
    /\ command # "build" => (\A d \in PageDirs : app[d] = Gone) /\ (\A s \in PostSlugs : posts[s] = Gone)

SitesNext ==
    /\ UNCHANGED command
    /\ \/ command = "dev" /\ Next /\ UNCHANGED <<siteVars, islandVars>>
       \/ command = "build" /\ SiteNext /\ UNCHANGED <<vars, islandVars>>
       \/ command = "islands" /\ IslandNext /\ UNCHANGED <<vars, siteVars>>

\* The fairness of DevReload; nothing is assumed of the other parts.
SitesSpec == SitesInit /\ [][SitesNext]_<<command, vars, siteVars, islandVars>> /\ Fairness

=============================================================================
