----------------------------- MODULE SiteCaches ----------------------------
(***************************************************************************)
(* The caches of a site: the page cache over each of its stores, and the   *)
(* variants of its images.  They share nothing: a behaviour uses one.      *)
(***************************************************************************)
EXTENDS IsrRouter, VariantCache

VARIABLES
    used        \* which cache

Disk == INSTANCE IsrRouter WITH Driver <- "disk"
Redis == INSTANCE IsrRouter WITH Driver <- "redis"

CachesInit == Init /\ ImageInit /\ used \in {Driver, "disk", "redis", "images"}

CachesNext ==
    /\ UNCHANGED used
    /\ \/ used = Driver /\ Next /\ UNCHANGED images
       \/ used = "disk" /\ Disk!Next /\ UNCHANGED images
       \/ used = "redis" /\ Redis!Next /\ UNCHANGED images
       \/ used = "images" /\ ImageNext /\ UNCHANGED vars

(* Goroutines that can run do, and time passes.                            *)
PageFairness ==
    /\ WF_vars(used = "disk" /\ Tick)
    /\ \A r \in Requests : WF_vars(used = "disk" /\ Disk!Request(r))
    /\ \A j \in Jobs : WF_vars(used = "disk" /\ Disk!Job(j))

(* Every page is requested again and again.                                *)
Traffic == \A r \in Requests, k \in Keys : SF_vars(used = "disk" /\ Arrive(r, k))

CachesSpec ==
    /\ CachesInit /\ [][CachesNext]_<<used, vars, images>>
    /\ PageFairness /\ Traffic

-----------------------------------------------------------------------------
(* Once the data of a page stops changing, its cached body becomes and     *)
(* remains the current one, if there is traffic (router.go:376-403).       *)
Converges ==
    used = "disk" => \A k \in Keys : <>[](store[k] = None \/ store[k].ver = version[k])

=============================================================================
